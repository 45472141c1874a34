----------------------------- MODULE MCVerdicts -----------------------------
(* Every artifact and every request belongs to the same workbook.          *)
EXTENDS Verdicts, TLC

FirstWorkbook == CHOOSE w \in Workbooks : TRUE

OneHome == [a \in Artifacts |-> FirstWorkbook]
OneBook == [r \in Runs |-> FirstWorkbook]

(* A second override of a cell is looked at where nothing was exported.     *)
Unexported == columnN' = [c \in Cells |-> Blank] /\ \A w \in Workbooks : Idle(w)'

ShortNext == Next /\ ((\E c \in Cells : epoch'[c] > 1) => Unexported)

=============================================================================

----------------------------- MODULE WorkingCopy -----------------------------
(***************************************************************************)
(* The files that Apply writes for one workbook (excel/working_copy.py,    *)
(* safe_write in excel/ccis_writer.py, the apply routes of                 *)
(* routes/controls.py).                                                    *)
(*                                                                         *)
(* Every apply copies the newest working copy, or the original, to a fresh *)
(* name, stores the name in the workbook's row, and then patches that copy *)
(* behind a backup.  The sidecar may die between two steps and halfway     *)
(* through a copy; the user deletes copies and moves the original.         *)
(***************************************************************************)
EXTENDS Naturals

CONSTANTS Applies,   \* calls of the two apply routes, each with its own row
          Paths,     \* timestamped names of working copies
          NoPath

ASSUME CopyAssumption == NoPath \notin Paths

VARIABLES original,   \* the workbook the user opened is where it was
          files,      \* the working copies, and the applies each of them holds
          path,       \* Workbook.working_path
          call,       \* each call: where it stands and its locals
          overlapped, \* history: calls that ran beside another one
          damaged,    \* history: a restore stopped halfway, or a copy to a shared name
          kept        \* history: calls answered "ok" and never overlapped, since
                      \* the user last deleted a copy

copyVars == <<original, files, path, call, overlapped, damaged, kept>>

Contents == [state : {"absent", "torn", "whole"}, holds : SUBSET Applies]

Absent == [state |-> "absent", holds |-> {}]
Torn   == [state |-> "torn", holds |-> {}]    \* a copy stopped halfway
Pristine  == [state |-> "whole", holds |-> {}]   \* the original

Running == {"loaded", "copying", "copied", "named", "saved", "patched", "restoring"}

Names == Paths \cup {NoPath}

\* prior: the working_path the call read; source: what it copies (NoPath is the
\* original); target: the name it writes to; backup: the contents of its backup.
Calls == [pc : Running \cup {"new", "ok", "failed", "restored"},
          prior : Names, source : Names, target : Names, backup : Contents]

At(pc) == [pc |-> pc, prior |-> NoPath, source |-> NoPath, target |-> NoPath,
           backup |-> Absent]

CopyTypeOK == /\ original \in BOOLEAN
              /\ files \in [Paths -> Contents]
              /\ path \in Names
              /\ call \in [Applies -> Calls]
              /\ overlapped \subseteq Applies
              /\ damaged \in BOOLEAN
              /\ kept \subseteq Applies

CopyInit == /\ original = TRUE
            /\ files = [p \in Paths |-> Absent]
            /\ path = NoPath
            /\ call = [a \in Applies |-> At("new")]
            /\ overlapped = {}
            /\ damaged = FALSE
            /\ kept = {}

Become(a, state) == call' = [call EXCEPT ![a] = state]

On(a, label) == [At(label) EXCEPT !.target = call[a].target]

InFlight == {a \in Applies : call[a].pc \in Running}

Whole(file) == file.state = "whole"

Exists(p) == p # NoPath /\ files[p] # Absent

history == <<overlapped, damaged, kept>>

-----------------------------------------------------------------------------
(* get_or_create_working_copy *)

Begin(a) ==
    /\ call[a].pc = "new"
    /\ Become(a, [At("loaded") EXCEPT !.prior = path])
    /\ overlapped' = IF InFlight = {} THEN overlapped ELSE overlapped \cup InFlight \cup {a}
    /\ UNCHANGED <<original, files, path, damaged, kept>>

\* Mutant: every apply starts from the original.
SourceIsOriginal(a) == NoPath

SourceOf(a) == IF Exists(call[a].prior) THEN call[a].prior ELSE NoPath

\* A name without a file: a new one, or one that another call has just chosen in the
\* same second and not copied to yet, since nothing reserves it.  Names hold the
\* time, so one that was in use before does not come again.
Free == {p \in Paths : /\ files[p] = Absent
                       /\ p # path
                       /\ \A b \in Applies : /\ p \notin {call[b].prior, call[b].source}
                                             /\ call[b].target = p => call[b].pc = "copying"}

Targets(a) == Free

\* Another call chose the same name and has copied to it, or is about to.
Shared(p) == \/ files[p] # Absent \/ p = path
             \/ \E a \in Applies : p \in {call[a].prior, call[a].source}
             \/ \E a, b \in Applies : a # b /\ call[a].target = p /\ call[b].target = p

Derive(a) ==
    /\ call[a].pc = "loaded"
    /\ \/ ~original /\ Become(a, At("failed"))
       \/ /\ original
          /\ \E p \in Targets(a) :
                Become(a, [At("copying") EXCEPT !.source = SourceOf(a), !.target = p])
    /\ UNCHANGED <<original, files, path, history>>

Forwarded(a) == IF call[a].source # NoPath THEN files[call[a].source]
                ELSE IF original THEN Pristine ELSE Absent

CopyForward(a) ==
    /\ call[a].pc = "copying"
    /\ LET target == call[a].target
       IN \/ /\ Forwarded(a) # Absent
             /\ files' = [files EXCEPT ![target] = Forwarded(a)]
             /\ Become(a, On(a, "copied"))
             /\ UNCHANGED damaged
          \/ /\ \E left \in {files[target], Torn} :
                   /\ files' = [files EXCEPT ![target] = left]
                   /\ damaged' = (damaged \/ (left = Torn /\ Shared(target)))
             /\ Become(a, At("failed"))
    /\ UNCHANGED <<original, path, overlapped, kept>>

StoreName(a) ==
    /\ call[a].pc = "copied"
    /\ \/ path' = call[a].target /\ Become(a, On(a, "named"))
       \/ UNCHANGED path /\ Become(a, At("failed"))
    /\ UNCHANGED <<original, files, history>>

-----------------------------------------------------------------------------
(* write_assessment inside safe_write *)

\* A missing or unreadable copy is noticed before the backup is taken.
Save(a) ==
    /\ call[a].pc = "named"
    /\ LET file == files[call[a].target]
       IN \/ Whole(file) /\ Become(a, [On(a, "saved") EXCEPT !.backup = file])
          \/ Become(a, At("failed"))
    /\ UNCHANGED <<original, files, path, history>>

\* patch_cells replaces the file by one move, or fails and leaves it.
Patch(a) ==
    /\ call[a].pc = "saved"
    /\ \/ /\ Whole(files[call[a].target])
          /\ files' = [files EXCEPT ![call[a].target].holds = @ \cup {a}]
          /\ Become(a, [call[a] EXCEPT !.pc = "patched"])
       \/ UNCHANGED files /\ Become(a, [call[a] EXCEPT !.pc = "restoring"])
    /\ UNCHANGED <<original, path, history>>

\* The cells read back right, or wrong; a read that raises skips the rollback.
Verify(a) ==
    /\ call[a].pc = "patched"
    /\ \/ /\ a \in files[call[a].target].holds
          /\ Become(a, At("ok"))
          /\ kept' = IF a \in overlapped THEN kept ELSE kept \cup {a}
       \/ UNCHANGED kept /\ Become(a, [call[a] EXCEPT !.pc = "restoring"])
       \/ UNCHANGED kept /\ Become(a, At("failed"))
    /\ UNCHANGED <<original, files, path, overlapped, damaged>>

\* The restore succeeds, does not start (a locked file), or stops halfway.
Restore(a) ==
    /\ call[a].pc = "restoring"
    /\ \/ /\ files' = [files EXCEPT ![call[a].target] = call[a].backup]
          /\ Become(a, At("restored"))
          /\ UNCHANGED damaged
       \/ UNCHANGED <<files, damaged>> /\ Become(a, At("failed"))
       \/ /\ files' = [files EXCEPT ![call[a].target] = Torn]
          /\ damaged' = TRUE
          /\ Become(a, At("failed"))
    /\ UNCHANGED <<original, path, overlapped, kept>>

-----------------------------------------------------------------------------
(* The environment *)

\* The sidecar dies; a copy in progress may be left half written.
Crash ==
    /\ InFlight # {}
    /\ LET half(label) == {call[a].target : a \in {b \in Applies : call[b].pc = label}}
       IN \E torn \in SUBSET (half("copying") \cup half("restoring")) :
             /\ files' = [p \in Paths |-> IF p \in torn THEN Torn ELSE files[p]]
             /\ damaged' = \/ damaged
                            \/ torn \cap half("restoring") # {}
                            \/ \E p \in torn : Shared(p)
    /\ call' = [a \in Applies |-> IF a \in InFlight THEN At("failed") ELSE call[a]]
    /\ UNCHANGED <<original, path, overlapped, kept>>

DeleteCopy(p) ==
    /\ files[p] # Absent
    /\ files' = [files EXCEPT ![p] = Absent]
    /\ kept' = {}
    /\ UNCHANGED <<original, path, call, overlapped, damaged>>

MoveOriginal ==
    /\ original' = ~original
    /\ UNCHANGED <<files, path, call, history>>

-----------------------------------------------------------------------------
Step(a) == \/ Begin(a) \/ Derive(a) \/ CopyForward(a) \/ StoreName(a)
           \/ Save(a) \/ Patch(a) \/ Verify(a) \/ Restore(a)

CopyNext == \/ \E a \in Applies : Step(a)
            \/ Crash \/ MoveOriginal
            \/ \E p \in Paths : DeleteCopy(p)

CopySpec == CopyInit /\ [][CopyNext]_copyVars

-----------------------------------------------------------------------------
(* Properties *)

\* "Each Apply copies forward from the previous working copy so cumulative state is
\* preserved" (working_copy.py:34): whatever failed, crashed or raced since, the copy
\* the row names holds every apply that was answered "ok" and ran alone.
CopiesAccumulate == path # NoPath /\ Whole(files[path]) => kept \subseteq files[path].holds

\* A crash or an error at any point but a restore leaves the row naming a whole file:
\* the name is stored after the copy is complete, and the patch is one move.  Two
\* calls in the same second can choose one name, and then a copy can damage it too.
CurrentIsWhole == path # NoPath /\ files[path] = Torn => damaged

\* Even when a restore destroys the current copy, an older one still holds everything
\* that was answered "ok": the copies before it are left in place and never written.
NothingIsLost == kept # {} => \E p \in Paths : Whole(files[p]) /\ kept \subseteq files[p].holds

\* An apply that reported an error and rolled back is not in the copy it wrote to, nor
\* in any copy taken from it later.
RolledBackIsGone ==
    \A a \in Applies \ overlapped : call[a].pc = "restored" =>
       \A p \in Paths : Whole(files[p]) => a \notin files[p].holds

\* The copies of a workbook, whatever apply fails, crashes or runs beside another:
\* they accumulate what was answered "ok" and nothing that was rolled back.
CopySafe ==
    CopyTypeOK /\ CopiesAccumulate /\ CurrentIsWhole /\ NothingIsLost /\ RolledBackIsGone

=============================================================================

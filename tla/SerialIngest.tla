---------------------------- MODULE SerialIngest ----------------------------
(***************************************************************************)
(* What the ingest registry promises: of the requests that arrive, each is *)
(* refused or writes the evidence tables once, and no two write at the     *)
(* same time.                                                              *)
(***************************************************************************)
CONSTANT Requests

VARIABLE phase

Init == phase = [r \in Requests |-> "idle"]

Admit(r) == /\ phase[r] = "idle"
            /\ phase' = [phase EXCEPT ![r] = "admitted"]

\* A request is refused on arrival, or when its turn comes and the writer is busy.
Refuse(r) == /\ phase[r] \in {"idle", "admitted"}
             /\ phase' = [phase EXCEPT ![r] = "refused"]

Write(r) == /\ phase[r] = "admitted"
            /\ \A other \in Requests : phase[other] # "writing"
            /\ phase' = [phase EXCEPT ![r] = "writing"]

Finish(r) == /\ phase[r] = "writing"
             /\ phase' = [phase EXCEPT ![r] = "finished"]

Next == \E r \in Requests : Admit(r) \/ Refuse(r) \/ Write(r) \/ Finish(r)

Spec == Init /\ [][Next]_phase

=============================================================================

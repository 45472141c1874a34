------------------------------- MODULE MCPoams -------------------------------
(* Two findings that share one cluster, one of them found in a second scope.  *)
EXTENDS Poams

CONSTANTS o1, o2

Scopes == [o \in Ccis |-> IF o = o1 THEN {1} ELSE {1, 2}]

=============================================================================

----------------------------- MODULE MCIngestWalk -----------------------------
(* Two documents of one content, a picture, and a file no extractor reads.  *)
EXTENDS IngestWalk

Yielded == <<"doc", "chart", "tool", "copy">>

Said == [f \in OnShelf |-> IF f \in {"doc", "copy"} THEN "words" ELSE f]
Says2 == [f \in OnShelf |-> IF f = "copy" THEN "revised" ELSE Said[f]]

=============================================================================

------------------------------ MODULE IngestWalk ------------------------------
(***************************************************************************)
(* What one ingest does to the rows of a workbook (evidence/ingest.py,     *)
(* evidence/evidence_retention.py): each file that a source yields is      *)
(* hashed, read, looked at by a vision model and tagged; its row is        *)
(* flushed at once and committed in batches, its text lies in a file named *)
(* after the row; rows above the cap of the workbook are evicted last.     *)
(* Users delete rows, edit the files and kill the process meanwhile.       *)
(***************************************************************************)
EXTENDS Naturals, Sequences, FiniteSetsExt

CONSTANTS Shelf,        \* what the source yields, in its order
          Unsupported,  \* files of a type that no extractor reads
          Pictures,     \* files whose words only a vision model gets
          FirstText,    \* what a file says at first
          NewText,      \* what it says after an edit
          BatchSize,    \* commit_batch_size
          RowCap,       \* evidence_retention_cap of the workbook
          MaxId,        \* bound on row ids
          MaxMishaps    \* bound on faults, deletes and edits, all together

NoText == "none"
NoFile == "no file"
Ids == 1..MaxId
OnShelf == {Shelf[i] : i \in DOMAIN Shelf}

ASSUME IngestWalkAssumption ==
    /\ BatchSize \in Nat \ {0} /\ {RowCap, MaxId, MaxMishaps} \subseteq Nat
    /\ Shelf \in Seq(OnShelf) /\ NoFile \notin OnShelf \cup Unsupported
    /\ OnShelf \subseteq DOMAIN FirstText

VARIABLES says,       \* what each file says now
          rows,       \* the committed rows
          pend,       \* rows flushed by the walk and not committed
          evicting,   \* ids of committed rows the walk has deleted, uncommitted
          texts,      \* whose words lie in the text file of an id
          unlinking,  \* ids of deleted rows whose text file is still there
          walk,       \* the ingest
          mishaps

walkVars == <<says, rows, pend, evicting, texts, unlinking, walk, mishaps>>

IdsOf(some) == {r.id : r \in some}
Visible == {r \in rows \cup pend : r.id \notin evicting}

(* SQLite reuses the ids above the highest one in use: a row is younger     *)
(* than those of lower ids.                                                *)
FreeId == Max({0} \cup IdsOf(Visible)) + 1

(* _existing_by_uri, _existing_by_hash: by the name, or else by the content.*)
Known(file, sha) ==
    \E r \in Visible : r.file = file \/ r.sha = sha

Idle == [at |-> "idle", todo |-> <<>>, file |-> NoFile, sha |-> NoText, batch |-> 0,
         unread |-> {}, gone |-> {}, steady |-> TRUE]

Mishap == mishaps < MaxMishaps /\ mishaps' = mishaps + 1

-----------------------------------------------------------------------------
(* The walk over the files *)

(* Churn under the cap draws on the ids without end: the bound. *)
IdsLast == FreeId + Len(Shelf) <= MaxId + 1

StartWalk ==
    /\ walk.at \in {"idle", "done", "failed"}
    /\ IdsLast
    /\ walk' = [Idle EXCEPT !.at = "walking", !.todo = Shelf]
    /\ UNCHANGED <<says, rows, pend, evicting, texts, unlinking, mishaps>>

Passed == [walk EXCEPT !.todo = Tail(@), !.file = NoFile]

(* A name or a content that has a row is skipped; a file that is locked or  *)
(* cannot be fetched is an error of its own.                                *)
HashFile ==
    /\ walk.at = "walking"
    /\ walk.file = NoFile
    /\ walk.todo # <<>>
    /\ LET file == Head(walk.todo)
       IN  \/ /\ walk' = IF Known(file, says[file]) THEN Passed
                         ELSE [walk EXCEPT !.file = file, !.sha = says[file]]
              /\ UNCHANGED mishaps
           \/ /\ ~Known(file, NoText)
              /\ walk' = [Passed EXCEPT !.unread = @ \cup {file}, !.steady = FALSE]
              /\ Mishap
    /\ UNCHANGED <<says, rows, pend, evicting, texts, unlinking>>

(* A file of an unknown type has no row, nothing else is left out: a text   *)
(* that cannot be extracted is an empty one, and a picture that vision did  *)
(* not describe, in three attempts, keeps the words that OCR found.         *)
SkipType ==
    /\ walk.at = "walking"
    /\ walk.file \in Unsupported
    /\ walk' = Passed
    /\ UNCHANGED <<says, rows, pend, evicting, texts, unlinking, mishaps>>

(* Mutant: the text of the former owner of an id is kept. *)
WrittenOnce(id, words) == IF words = NoText \/ texts[id] # NoText THEN texts
                          ELSE [texts EXCEPT ![id] = words]

(* An empty text is not written. *)
Written(id, words) == IF words = NoText THEN texts ELSE [texts EXCEPT ![id] = words]

(* The text of the file, as it is by now; tags make a row load-bearing, and *)
(* a tagger that fails leaves the row.                                      *)
ReadFile(whole, tagged) ==
    /\ walk.at = "walking"
    /\ walk.file \in OnShelf \ Unsupported
    /\ \E words \in IF whole THEN {says[walk.file]}
                    ELSE {NoText} \cup ({says[walk.file]} \cap {says[f] : f \in Pictures}) :
          /\ pend' = pend \cup {[id |-> FreeId, file |-> walk.file, sha |-> walk.sha,
                                  words |-> words, whole |-> whole, tagged |-> tagged]}
          /\ texts' = Written(FreeId, words)
    /\ IF whole THEN UNCHANGED mishaps ELSE Mishap
    /\ walk' = [Passed EXCEPT !.at = "counting", !.steady = @ /\ whole]
    /\ UNCHANGED <<says, rows, evicting, unlinking>>

CommitBatch ==
    /\ walk.at = "counting"
    /\ IF walk.batch + 1 >= BatchSize
       THEN /\ rows' = rows \cup pend
            /\ pend' = {}
            /\ walk' = [walk EXCEPT !.at = "walking", !.batch = 0]
       ELSE /\ walk' = [walk EXCEPT !.at = "walking", !.batch = @ + 1]
            /\ UNCHANGED <<rows, pend>>
    /\ UNCHANGED <<says, evicting, texts, unlinking, mishaps>>

(* A source that raises between two files ends the job: what was flushed    *)
(* since the last commit is rolled back, its texts stay.                    *)
BreaksOff ==
    /\ walk.at = "walking"
    /\ walk.file = NoFile
    /\ walk.todo # <<>>
    /\ Mishap
    /\ pend' = {}
    /\ walk' = [walk EXCEPT !.at = "failed", !.steady = FALSE]
    /\ UNCHANGED <<says, rows, evicting, texts, unlinking>>

EndFiles ==
    /\ walk.at = "walking"
    /\ walk.todo = <<>>
    /\ rows' = rows \cup pend
    /\ pend' = {}
    /\ walk' = [walk EXCEPT !.at = "evicting"]
    /\ UNCHANGED <<says, evicting, texts, unlinking, mishaps>>

-----------------------------------------------------------------------------
(* Retention *)

Evicts == /\ Cardinality(Visible) > RowCap
          /\ \E r \in Visible : ~r.tagged

(* The oldest row that nothing refers to: its text goes at once, its        *)
(* deletion waits for the commit of the session.                            *)
Evict ==
    /\ walk.at = "evicting"
    /\ Evicts
    /\ LET row == CHOOSE r \in Visible :
                     ~r.tagged /\ \A older \in Visible : older.id < r.id => older.tagged
       IN  /\ evicting' = evicting \cup {row.id}
           /\ texts' = IF row.words = NoText THEN texts ELSE [texts EXCEPT ![row.id] = NoText]
           /\ walk' = [walk EXCEPT !.gone = @ \cup {row.sha}]
    /\ UNCHANGED <<says, rows, pend, unlinking, mishaps>>

(* The session of the job commits what retention flushed. *)
CloseSession ==
    /\ walk.at = "evicting"
    /\ ~Evicts
    /\ rows' = {r \in rows : r.id \notin evicting}
    /\ evicting' = {}
    /\ walk' = [walk EXCEPT !.at = "done"]
    /\ UNCHANGED <<says, pend, texts, unlinking, mishaps>>

-----------------------------------------------------------------------------
(* What happens beside it *)

(* A delete waits for the write lock, commits, and then unlinks the text.   *)
Delete(row) ==
    /\ pend = {} /\ evicting = {}
    /\ Mishap
    /\ unlinking' = IF row.words = NoText THEN unlinking ELSE unlinking \cup {row.id}
    /\ walk' = [walk EXCEPT !.gone = @ \cup {row.sha}]
    /\ rows' = rows \ {row}
    /\ UNCHANGED <<says, pend, evicting, texts>>

Unlink(id) ==
    /\ id \in unlinking
    /\ unlinking' = unlinking \ {id}
    /\ texts' = [texts EXCEPT ![id] = NoText]
    /\ UNCHANGED <<says, rows, pend, evicting, walk, mishaps>>

Edit(file) ==
    /\ Mishap
    /\ says' = [says EXCEPT ![file] = NewText[file]]
    /\ UNCHANGED <<rows, pend, evicting, texts, unlinking, walk>>

Crash ==
    /\ Mishap
    /\ pend' = {}
    /\ evicting' = {}
    /\ unlinking' = {}
    /\ walk' = [Idle EXCEPT !.steady = FALSE]
    /\ UNCHANGED <<says, rows, texts>>

-----------------------------------------------------------------------------
WalkInit ==
    /\ says = FirstText
    /\ rows = {}
    /\ pend = {}
    /\ evicting = {}
    /\ texts = [id \in Ids |-> NoText]
    /\ unlinking = {}
    /\ walk = Idle
    /\ mishaps = 0

WalkStep ==
    \/ StartWalk \/ SkipType \/ CommitBatch \/ EndFiles \/ Evict \/ CloseSession
    \/ HashFile
    \/ \E whole, tagged \in BOOLEAN : ReadFile(whole, tagged)
    \/ BreaksOff

WalkNext ==
    \/ WalkStep
    \/ \E row \in rows : Delete(row)
    \/ \E id \in Ids : Unlink(id)
    \/ \E file \in OnShelf : Edit(file)
    \/ Crash

(* Ingests recur, as those of a schedule do. *)
WalkSpec == WalkInit /\ [][WalkNext]_walkVars /\ WF_walkVars(WalkStep)

-----------------------------------------------------------------------------
(* Properties *)

(* The type invariant of an ingest. *)
IngestWalkTypeOK ==
    /\ IdsOf(rows \cup pend) \cup unlinking \subseteq Ids
    /\ evicting \subseteq IdsOf(rows)
    /\ walk.at \in {"idle", "walking", "counting", "evicting", "done", "failed"}
    /\ walk.unread \subseteq OnShelf
    /\ walk.batch < BatchSize
    /\ pend # {} => walk.at \in {"walking", "counting"}
    /\ evicting # {} => walk.at = "evicting"
    /\ mishaps \in 0..MaxMishaps

(* Whatever is committed, rolled back, deleted or evicted in between, no    *)
(* file and no content has two rows in a workbook, and no two rows have one *)
(* id, so none takes the text file of another (ingest.py:776, 805, 945).    *)
OneRowPerFile ==
    \A r, other \in Visible :
        r # other => r.file # other.file /\ r.sha # other.sha /\ r.id # other.id

(* "Each row owns its text" (ingest.py:218): ids come back after a rollback *)
(* and after a delete, and still no row ever shows the words of another; at *)
(* worst its text is gone.                                                  *)
NoForeignText ==
    \A r \in Visible : r.words # NoText => texts[r.id] \in {r.words, NoText}

(* An ingest that reports success accounts for every file: it has a row, or *)
(* one of the same content has; or it is of an unknown type; or it could    *)
(* not be read; or its row was deleted or evicted since. A source that      *)
(* breaks off, and a rollback, do not pass for that.                        *)
WalkAccounts ==
    walk.at = "done" =>
        \A f \in OnShelf \ Unsupported :
            \/ f \in walk.unread
            \/ \E r \in rows : r.file = f
            \/ {FirstText[f], NewText[f]} \cap (walk.gone \cup {r.sha : r \in rows}) # {}

(* Shelf, rows and texts agree, whatever fails on the way and is run again. *)
WalkSafe == IngestWalkTypeOK /\ OneRowPerFile /\ NoForeignText /\ WalkAccounts

(* "A re-ingest can retry once the gateway calms down" (ingest.py:594): an  *)
(* ingest in which nothing failed leaves no file whose text was not read.   *)
RetryReadsTheRest ==
    walk.at = "done" /\ walk.steady => \A r \in rows : r.whole

(* As long as ingests recur, every file that can be read has a row again    *)
(* and again, whatever failed, crashed or was deleted before, within the    *)
(* bound on ids.                                                            *)
FilesGetIn ==
    \A f \in OnShelf \ Unsupported :
        walk.at = "walking" ~>
            (~IdsLast \/ \E r \in rows : r.file = f \/ r.sha = says[f])

=============================================================================

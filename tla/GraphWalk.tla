------------------------------ MODULE GraphWalk ------------------------------
(***************************************************************************)
(* Reading a SharePoint library over Microsoft Graph: the boundary sweep,   *)
(* the keyword search, the ingest walk, the browser, the cherry-picked      *)
(* files and the connection test of evidence/sources/sharepoint.py, and the *)
(* library scan of sp_boundary_sweep.py.  All go through _graph_get, which  *)
(* retries a throttled request; they differ in what a failed or refused     *)
(* page does to the walk.                                                   *)
(***************************************************************************)
EXTENDS Integers, Sequences, FiniteSets

CONSTANTS Folders, Root,     \* folders, and the one the source is scoped to
          Listing,           \* per folder, its pages: sequences of sets of entries
          Files,             \* the ingestible files among the entries
          Matching,          \* those the search terms match
          Depth,             \* max_depth of sweep and search
          MaxMatches,        \* max_matches of the search
          MaxAttempts,       \* _GRAPH_RETRY_MAX_ATTEMPTS
          FetchCap,          \* FETCH_CAP of the sweep
          Queries            \* /search phrases, empty unless SWEEP_USE_SEARCH=1

Contents(f) == UNION {Listing[f][i] : i \in DOMAIN Listing[f]}

(* No folder is within itself, so that none is deeper than there are folders. *)
Nests == LET n == Cardinality(Folders)
         IN  \A p \in [0..n -> Folders] : \E i \in 0..(n - 1) : p[i + 1] \notin Contents(p[i])

ASSUME GraphAssumption == /\ IsFiniteSet(Folders)
                          /\ Root \in Folders
                          /\ Matching \subseteq Files
                          /\ {Depth, MaxMatches, MaxAttempts} \subseteq Nat \ {0}
                          /\ FetchCap \in Nat
                          /\ \A f \in Folders : Listing[f] # <<>>
                                               /\ Listing[f] \in Seq(SUBSET Contents(f))
                          /\ Nests

VARIABLES reader,    \* which reader runs
          exists,    \* the scan root is there
          stage,     \* "walk", "search", "fetch", then how the reader ended
          unlisted,  \* queue of folders still to list, with their depth
          asked,     \* page of that folder, attempt, 401 answered
          found,     \* files collected
          partial,   \* some page was given up on
          denied,    \* Graph refused the token
          graphToken, msalCache, \* the source holds a token, the disk holds an account
          snippets   \* files with a snippet

account == <<graphToken, msalCache>>
graphVars == <<reader, exists, stage, unlisted, asked, found, partial, denied, account,
               snippets>>

Modes == {"sweep", "search", "ingest", "picks", "browse", "probe", "boundary"}
Over == {"ended", "truncated", "raised"}
FirstPage == [page |-> 1, attempt |-> 1, refreshed |-> FALSE, items |-> {}]

(* The queue goes level by level. *)
Here == CHOOSE u \in unlisted : \A v \in unlisted : u.depth <= v.depth

Walking == stage = "walk" /\ unlisted # {}

Wanted == IF reader = "search" THEN Matching ELSE Files

(* Whether a folder entry is listed later: sweep and search stop at their   *)
(* depth, the boundary scan one level below it, the ingest walk nowhere.    *)
Descends(d) == \/ reader \in {"sweep", "search"} /\ d + 1 < Depth
               \/ reader = "boundary" /\ d + 1 <= Depth
               \/ reader = "ingest"

Subfolders(items, d) == {[at |-> e, depth |-> d + 1] :
                           e \in {x \in items \cap Folders : Descends(d)}}

(* The items of this folder are gone through and the next folder is listed, *)
(* until a search has matches enough or no folder is left.                  *)
Process(items) ==
    /\ found' = found \cup (items \cap Wanted)
    /\ unlisted' = (unlisted \ {Here}) \cup Subfolders(items, Here.depth)
    /\ asked' = FirstPage
    /\ stage' = IF reader = "search" /\ Cardinality(found') >= MaxMatches THEN "truncated"
                ELSE IF unlisted' # {} THEN "walk"
                ELSE IF reader # "sweep" THEN "ended"
                ELSE IF found' = {} \/ Queries = {} THEN "fetch" ELSE "search"

-----------------------------------------------------------------------------
(* Answers of Graph *)

(* A page of the folder, or the cherry-picked file itself. *)
PageArrives ==
    LET pages == IF reader = "picks" THEN <<{Here.at}>> ELSE Listing[Here.at]
        items == asked.items \cup pages[asked.page]
    IN  /\ Walking
        /\ Here.at # Root \/ exists
        /\ IF asked.page = Len(pages) THEN Process(items)
           ELSE /\ asked' = [FirstPage EXCEPT !.page = asked.page + 1, !.items = items]
                /\ UNCHANGED <<stage, unlisted, found>>
        /\ UNCHANGED <<reader, exists, partial, denied, account, snippets>>

(* Mutant: the page after a throttled one is asked for. *)
ThrottledSkips ==
    /\ Walking
    /\ asked.attempt < MaxAttempts
    /\ asked' = [asked EXCEPT !.attempt = @ + 1,
                                  !.page = IF reader # "picks" /\ @ < Len(Listing[Here.at])
                                           THEN @ + 1 ELSE @]
    /\ UNCHANGED <<reader, exists, stage, unlisted, found, partial, denied, account, snippets>>

(* 429, 503 and 504 are asked again after a pause. *)
Throttled ==
    /\ Walking
    /\ asked.attempt < MaxAttempts
    /\ asked' = [asked EXCEPT !.attempt = @ + 1]
    /\ UNCHANGED <<reader, exists, stage, unlisted, found, partial, denied, account, snippets>>

(* Any other failure, the throttling of the last attempt and a sign-in that *)
(* failed included, leaves the folder with the pages it has: nothing is     *)
(* raised.                                                                  *)
GivesUp ==
    /\ Walking
    /\ partial' = TRUE
    /\ Process(asked.items)
    /\ UNCHANGED <<reader, exists, denied, account, snippets>>

(* 401 stops a sweep, which forgets the account ... *)
SweepDenied ==
    /\ Walking \/ stage = "search"
    /\ reader = "sweep"
    /\ denied' = TRUE
    /\ stage' = "raised"
    /\ graphToken' = FALSE
    /\ msalCache' = FALSE
    /\ UNCHANGED <<reader, exists, unlisted, asked, found, partial, snippets>>

(* ... and the browser and the probe, which keep it ... *)
CallDenied ==
    /\ Walking
    /\ reader \in {"browse", "probe"}
    /\ denied' = TRUE
    /\ stage' = "raised"
    /\ UNCHANGED <<reader, exists, unlisted, asked, found, partial, account, snippets>>

(* ... but a search, an ingest and the picks only skip the folder or file. *)
FolderDenied ==
    /\ Walking
    /\ reader \in {"search", "ingest", "picks"}
    /\ denied' = TRUE
    /\ Process({})
    /\ UNCHANGED <<reader, exists, partial, account, snippets>>

(* The boundary scan signs in again, once for a page, and asks again.       *)
ScanRefreshes ==
    /\ Walking
    /\ reader = "boundary"
    /\ ~asked.refreshed
    /\ denied' = TRUE
    /\ \/ /\ asked' = [asked EXCEPT !.refreshed = TRUE, !.attempt = 1]
          /\ UNCHANGED <<stage, unlisted, found, account>>
       \/ /\ graphToken' = FALSE
          /\ msalCache' = FALSE
          /\ Process(asked.items)
    /\ UNCHANGED <<reader, exists, partial, snippets>>

ScanDenied ==
    /\ Walking
    /\ reader = "boundary"
    /\ asked.refreshed
    /\ Process(asked.items)
    /\ UNCHANGED <<reader, exists, partial, denied, account, snippets>>

(* A scan whose token is gone signs in for its next page. *)
Reacquire == /\ Walking
             /\ ~graphToken
             /\ graphToken' = TRUE
             /\ msalCache' = TRUE
             /\ UNCHANGED <<reader, exists, stage, unlisted, asked, found, partial, denied,
                            snippets>>

(* The sweep's /search queries attach what snippets they return. *)
Search == /\ stage = "search"
          /\ \E hits \in SUBSET found : snippets' = snippets \cup hits
          /\ stage' = "fetch"
          /\ UNCHANGED <<reader, exists, unlisted, asked, found, partial, denied, account>>

(* Files without a snippet are downloaded until the cap or the deadline.    *)
Fetch == /\ stage = "fetch"
         /\ \E texts \in SUBSET (found \ snippets) :
               /\ Cardinality(texts) <= FetchCap
               /\ snippets' = snippets \cup texts
         /\ stage' = "ended"
         /\ UNCHANGED <<reader, exists, unlisted, asked, found, partial, denied, account>>

GraphInit ==
    /\ reader = "probe"
    /\ exists \in BOOLEAN
    /\ stage = "idle"
    /\ unlisted = {}
    /\ asked = FirstPage
    /\ found = {}
    /\ partial = FALSE
    /\ denied = FALSE
    /\ graphToken = FALSE
    /\ msalCache \in BOOLEAN
    /\ snippets = {}

(* A reader signs in and starts at the scan root, or at its files. *)
StartReader(r) ==
    /\ stage = "idle"
    /\ reader' = r
    /\ stage' = "walk"
    /\ unlisted' = IF r = "picks"
                   THEN {[at |-> f, depth |-> 0] : f \in Matching}
                   ELSE {[at |-> Root, depth |-> 0]}
    /\ graphToken' = TRUE
    /\ msalCache' = TRUE
    /\ UNCHANGED <<exists, asked, found, partial, denied, snippets>>

Answered == \/ PageArrives
         \/ Throttled
         \/ SweepDenied
         \/ CallDenied
         \/ FolderDenied
         \/ ScanRefreshes
         \/ ScanDenied

Read == \/ (graphToken /\ Answered)
        \/ GivesUp
        \/ Reacquire
        \/ Search
        \/ Fetch

GraphNext == Read \/ \E r \in Modes : StartReader(r)

(* A reader is a call that goes on: every request has its timeout. *)
GraphFairness == WF_graphVars(Read)

GraphSpec == GraphInit /\ [][GraphNext]_graphVars /\ GraphFairness

-----------------------------------------------------------------------------
(* The type invariant of a walk. *)
GraphTypeOK ==
    /\ reader \in Modes
    /\ stage \in {"idle", "walk", "search", "fetch"} \cup Over
    /\ \A u \in unlisted : u.at \in Folders \cup Files
    /\ asked.attempt \in 1..MaxAttempts
    /\ found \cup snippets \subseteq Files
    /\ {exists, partial, denied, graphToken, msalCache, asked.refreshed} \subseteq BOOLEAN

(* The folders a reader is to list: those it comes to from the root, going   *)
(* down as far as it goes.                                                  *)
Reached(f, d) == \E p \in [0..d -> Folders] :
                    /\ p[0] = Root /\ p[d] = f
                    /\ \A i \in 0..(d - 1) : Descends(i) /\ p[i + 1] \in Contents(p[i])

Listed == UNION {Contents(f) : f \in {g \in Folders :
                    \E d \in 0..(Cardinality(Folders) - 1) : Reached(g, d)}}

(* A walk that lost no page has every file in its reach, whatever was       *)
(* throttled and retried on the way (_graph_get, _list_children).           *)
CleanWalkIsComplete ==
    stage = "ended" /\ ~partial /\ ~denied /\ reader # "picks" => found = Listed \cap Wanted

(* A sweep Graph refused never passes for a short one: it raises, and the   *)
(* account that was refused is forgotten, so that the next one signs in.    *)
DeniedSweepRaises ==
    reader = "sweep" /\ denied => stage = "raised" /\ ~graphToken /\ ~msalCache

(* What a sweep of Graph hands back is what it claims to be.                *)
GraphReadsSafe == GraphTypeOK /\ CleanWalkIsComplete /\ DeniedSweepRaises

(* Whatever Graph answers, the reader comes to an end. *)
WalksEnd == stage \in {"walk", "search", "fetch"} ~> stage \in Over

=============================================================================

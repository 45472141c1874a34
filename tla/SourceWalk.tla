----------------------------- MODULE SourceWalk -----------------------------
(***************************************************************************)
(* The walk of a connector (evidence/sources/*.py).  It reads its units -  *)
(* queries, tables, projects, scans, archives - one after the other, a     *)
(* page at a time where the server pages by offset, and yields a file for  *)
(* each item.  What differs from connector to connector is what is asked   *)
(* again, which failure is kept to its unit and which one ends the walk,   *)
(* when a page is taken for the last one, and where a walk is capped.      *)
(***************************************************************************)
EXTENDS Naturals, Sequences, FiniteSets

CONSTANTS Connectors,   \* those a behaviour may be about
          Content,      \* the items of each unit, a sequence of sequences
          Fresh,        \* an item that may appear during the walk
          PageSize,
          ItemCap,      \* items of a unit, where the connector caps them
          Retries       \* _RETRY_MAX_ATTEMPTS

Archer == {"archer", "archerBare"}    \* with a TotalCount, and without one
AtOnce == {"gitlab", "tenable", "emass", "folder"}    \* a unit is listed in one reply

Units == DOMAIN Content
Members(s) == {s[i] : i \in 1..Len(s)}
Items == UNION {Members(Content[u]) : u \in Units}

(* A server lists no item of a unit twice. *)
Simple(s) == \A i, j \in 1..Len(s) : s[i] = s[j] => i = j

ASSUME SourceAssumption ==
    /\ Connectors \subseteq {"jira", "snow", "splunk", "confluence"} \cup Archer \cup AtOnce
    /\ Content \in Seq(Seq(Items))
    /\ \A u \in Units : Simple(Content[u])
    /\ PageSize \in Nat \ {0} /\ ItemCap \in Nat /\ Retries \in Nat \ {0}

VARIABLES conn,      \* the connector
          listing,   \* what the server holds
          cur,       \* where the walk is
          got,       \* the items yielded of each unit, in order
          lost,      \* units given up
          capped,    \* units cut off by a cap
          fate,      \* "new", "walking", "done" or "raised"
          refused,   \* history: the server refused the credentials for good
          steady     \* history: the server's lists stayed as they were

sourceVars == <<conn, listing, cur, got, lost, capped, fate, refused, steady>>

Start(unit, session) ==
    [unit |-> unit, from |-> 0, page |-> <<>>, asked |-> 0, size |-> 0, total |-> 0,
     tries |-> 0, empty |-> 0, session |-> session]

Taken == Len(got[cur.unit])

(* A failure ends the walk, or only its unit. *)
Raise == fate' = "raised" /\ UNCHANGED <<cur, got, lost, capped>>

GiveUp == /\ lost' = lost \cup {cur.unit}
          /\ cur' = Start(cur.unit + 1, cur.session)
          /\ UNCHANGED <<got, capped, fate>>

Again == cur' = [cur EXCEPT !.tries = @ + 1] /\ UNCHANGED <<got, lost, capped, fate>>

-----------------------------------------------------------------------------
(* What a connector does about a reply that is no page: "busy" stands for   *)
(* the statuses and transport errors that may pass, "broken" for any other. *)

(* One bad JQL does not end the walk, whatever it failed for. *)
JiraFails(reply) == GiveUp

SnowFails(reply) == IF reply = "refused" THEN Raise
                    ELSE IF reply = "busy" /\ cur.tries + 1 < Retries THEN Again
                    ELSE GiveUp

(* Only what resolves the project is asked again.  A refused credential ends *)
(* the walk there and on a later page of the tree, which the loop over the   *)
(* entries fetches; when the listing is opened it only gives up the tree.    *)
GitLabFails(reply) == \/ reply = "refused" /\ Raise
                      \/ reply = "busy" /\ cur.asked = 0 /\ cur.tries + 1 < Retries /\ Again
                      \/ (reply = "refused" => cur.asked = 0) /\ GiveUp

(* A session that expired is renewed, once for a call. *)
ArcherFails(reply) == IF reply = "refused" /\ cur.session # "renewed"
                      THEN cur' = [cur EXCEPT !.session = "renewed"]
                           /\ UNCHANGED <<got, lost, capped, fate>>
                      ELSE Raise

(* The listing of pages is not guarded, the reading of one is (SkipItem). *)
ConfluenceFails(reply) == Raise

(* All pages of a search make one file: one that fails loses them all. *)
SplunkFails(reply) == /\ got' = [got EXCEPT ![cur.unit] = <<>>]
                      /\ lost' = lost \cup {cur.unit}
                      /\ cur' = Start(cur.unit + 1, cur.session)
                      /\ UNCHANGED <<capped, fate>>

(* A scan whose history cannot be had is passed over. *)
TenableFails(reply) == GiveUp

(* One of the three documents that cannot be had is passed over. *)
EmassFails(reply) == GiveUp

(* An archive that is none is passed over; one that cannot be opened ends   *)
(* the walk of the folder.                                                  *)
FolderFails(reply) == IF reply = "broken" THEN GiveUp ELSE Raise

Fails(reply) == \/ conn = "jira" /\ JiraFails(reply)
                \/ conn = "snow" /\ SnowFails(reply)
                \/ conn = "gitlab" /\ GitLabFails(reply)
                \/ conn \in Archer /\ ArcherFails(reply)
                \/ conn = "confluence" /\ ConfluenceFails(reply)
                \/ conn = "splunk" /\ SplunkFails(reply)
                \/ conn = "tenable" /\ TenableFails(reply)
                \/ conn = "emass" /\ EmassFails(reply)
                \/ conn = "folder" /\ FolderFails(reply)

-----------------------------------------------------------------------------
(* Asking for a page *)

Rest == IF ItemCap - Taken < PageSize THEN ItemCap - Taken ELSE PageSize

(* What a library or a disk lists, it lists at once. *)
Limit == CASE conn \in {"snow", "splunk"} -> Rest
           [] conn \in AtOnce -> Len(listing[cur.unit]) + 1
           [] conn \in {"jira", "confluence"} \cup Archer -> PageSize

Receive == LET all == listing[cur.unit]
               end == IF cur.from + Limit < Len(all) THEN cur.from + Limit ELSE Len(all)
               page == SubSeq(all, cur.from + 1, end)
           IN  /\ cur' = [cur EXCEPT !.page = page, !.asked = Limit, !.size = Len(page),
                                     !.total = Len(all), !.tries = 0,
                                     !.empty = IF page = <<>> THEN @ + 1 ELSE 0]
               /\ UNCHANGED <<got, lost, capped, fate>>

(* These log in, connect or list their units before the first page, and     *)
(* nothing keeps a failure of that from ending the walk.                    *)
LogsIn == conn \in Archer \cup {"snow", "gitlab", "splunk", "tenable"}

Open ==
    /\ fate = "walking"
    /\ LogsIn
    /\ cur.session = "none"
    /\ \/ cur' = [cur EXCEPT !.session = "open"] /\ UNCHANGED <<got, lost, capped, fate>>
       \/ Raise
    /\ UNCHANGED <<conn, listing, refused, steady>>

Replies == {"page", "busy", "broken", "refused"}

(* A project's tree and an archive may break off in the middle, too. *)
Asks == \/ cur.asked = 0
        \/ conn \in {"gitlab", "folder"} /\ cur.page # <<>>

Ask(reply) ==
    /\ fate = "walking"
    /\ cur.unit \in Units
    /\ LogsIn => cur.session # "none"
    /\ Asks
    /\ reply = "page" => cur.asked = 0
    /\ IF reply = "page" THEN Receive ELSE Fails(reply)
    /\ refused' = (refused \/ (reply = "refused" /\ (conn \in Archer => cur.session = "renewed")))
    /\ UNCHANGED <<conn, listing, steady>>

-----------------------------------------------------------------------------
(* The items of a page, and the end of a page *)

Caps == conn \in {"jira", "snow", "splunk", "gitlab"}

NextUnit == cur' = Start(cur.unit + 1, IF cur.session = "renewed" THEN "open" ELSE cur.session)

(* An issue that several queries find is yielded once. *)
Repeated(item) == conn = "jira" /\ \E u \in Units : item \in Members(got[u])

Deliver ==
    /\ fate = "walking"
    /\ cur.page # <<>>
    /\ IF Caps /\ conn # "splunk" /\ Taken >= ItemCap
       THEN /\ capped' = capped \cup {cur.unit}
            /\ NextUnit
            /\ UNCHANGED got
       ELSE /\ cur' = [cur EXCEPT !.page = Tail(@)]
            /\ got' = IF Repeated(Head(cur.page)) THEN got
                      ELSE [got EXCEPT ![cur.unit] = Append(@, Head(cur.page))]
            /\ UNCHANGED capped
    /\ UNCHANGED <<conn, listing, lost, fate, refused, steady>>

(* A wiki page that cannot be read is left out, for a refused credential    *)
(* as for anything else.                                                    *)
SkipItem ==
    /\ fate = "walking"
    /\ conn = "confluence"
    /\ cur.page # <<>>
    /\ lost' = lost \cup {cur.unit}
    /\ cur' = [cur EXCEPT !.page = Tail(@)]
    /\ UNCHANGED <<conn, listing, got, capped, fate, refused, steady>>

Short == cur.size < cur.asked

(* Jira stops when it has fetched as many as the cap, repeated ones too. *)
JiraLast == Short \/ cur.from + cur.size >= ItemCap

SnowLast == Short \/ Taken >= ItemCap

(* As many rows as the cap look cut off even when there are no more. *)
SplunkLast == Short \/ Taken >= ItemCap

ConfluenceLast == Short

(* Mutant: the pages are counted from nought. *)
ArcherLastFromNought == IF conn = "archer"
                        THEN cur.size = 0 \/ cur.from + 2 * PageSize >= cur.total
                        ELSE cur.empty >= 2

(* With a total the pages add up to it; without one, two empty pages in a   *)
(* row are the end.                                                         *)
ArcherLast == IF conn = "archer" THEN cur.size = 0 \/ cur.from + PageSize >= cur.total
              ELSE cur.empty >= 2

LastPage == \/ conn = "jira" /\ JiraLast
            \/ conn = "snow" /\ SnowLast
            \/ conn = "splunk" /\ SplunkLast
            \/ conn = "confluence" /\ ConfluenceLast
            \/ conn \in Archer /\ ArcherLast
            \/ conn \in AtOnce

Cut == Caps /\ ~Short /\ (IF conn = "jira" THEN cur.from + cur.size ELSE Taken) >= ItemCap

TurnPage ==
    /\ fate = "walking"
    /\ cur.page = <<>>
    /\ cur.asked # 0
    /\ IF LastPage THEN NextUnit /\ capped' = IF Cut THEN capped \cup {cur.unit} ELSE capped
       ELSE /\ cur' = [cur EXCEPT !.from = @ + cur.asked, !.asked = 0,
                                  !.session = IF @ = "renewed" THEN "open" ELSE @]
            /\ UNCHANGED capped
    /\ UNCHANGED <<conn, listing, got, lost, fate, refused, steady>>

(* Three failed documents of eMASS are a failure, not an empty walk. *)
Finish ==
    /\ fate = "walking"
    /\ cur.unit \notin Units
    /\ fate' = IF conn = "emass" /\ lost = Units THEN "raised" ELSE "done"
    /\ UNCHANGED <<conn, listing, cur, got, lost, capped, refused, steady>>

-----------------------------------------------------------------------------
(* A list changes while it is read: an item comes first, or the first goes. *)
(* An index that is rebuilt may answer with an empty page.                  *)
ServerChanges ==
    /\ fate = "walking"
    /\ steady
    /\ \/ /\ \E u \in Units : \/ listing' = [listing EXCEPT ![u] = <<Fresh>> \o @]
                              \/ listing[u] # <<>> /\ listing' = [listing EXCEPT ![u] = Tail(@)]
          /\ UNCHANGED cur
       \/ /\ conn \in Archer /\ cur.asked = 0 /\ cur.session # "none" /\ cur.unit \in Units
          /\ cur' = [cur EXCEPT !.asked = PageSize, !.size = 0, !.total = Len(listing[cur.unit]),
                                !.empty = @ + 1]
          /\ UNCHANGED listing
    /\ steady' = FALSE
    /\ UNCHANGED <<conn, got, lost, capped, fate, refused>>

SourceInit ==
    /\ conn \in Connectors
    /\ listing = Content
    /\ cur = Start(1, "none")
    /\ got = [u \in Units |-> <<>>]
    /\ lost = {}
    /\ capped = {}
    /\ fate = "new"
    /\ refused = FALSE
    /\ steady = TRUE

(* The ingest asks the source for its files. *)
IterFiles ==
    /\ fate = "new"
    /\ fate' = "walking"
    /\ UNCHANGED <<conn, listing, cur, got, lost, capped, refused, steady>>

SourceStep == Open \/ Deliver \/ SkipItem \/ TurnPage \/ Finish \/ \E r \in Replies : Ask(r)

SourceNext == IterFiles \/ SourceStep \/ ServerChanges

SourceSpec == SourceInit /\ [][SourceNext]_sourceVars /\ WF_sourceVars(SourceStep)

-----------------------------------------------------------------------------
(* Properties *)

(* The type invariant of a walk. *)
SourceTypeOK ==
    /\ conn \in Connectors
    /\ cur.unit \in 1..(Len(Content) + 1)
    /\ cur.session \in {"none", "open", "renewed"}
    /\ cur.tries < Retries
    /\ lost \cup capped \subseteq Units
    /\ fate \in {"new", "walking", "done", "raised"}

(* Paging, retries, renewed sessions and failures of other units neither    *)
(* lose nor repeat an item: a unit that was neither given up nor cut off    *)
(* was read whole, if the server's lists did not move under the offsets.    *)
ReadWhole ==
    fate = "done" /\ steady =>
        \A u \in Units :
            /\ Simple(got[u])
            /\ u \notin lost \cup capped =>
                   Members(listing[u]) \subseteq UNION {Members(got[v]) : v \in Units}

(* A cap takes no item too many, and only a unit with that many is cut off:  *)
(* a search that Splunk's file does not call truncated has all its rows.    *)
CapIsExact ==
    /\ Caps => \A u \in Units : Len(got[u]) <= ItemCap
    /\ conn # "jira" => \A u \in capped : Len(got[u]) = ItemCap

(* "Surface to the orchestrator so the run fails loudly instead of silently *)
(* emitting half a corpus" (servicenow_grc.py:838): once the server refused *)
(* the credentials for good, these connectors do not end as if all was      *)
(* read; nor does eMASS when each of its documents failed.                  *)
RefusalIsLoud ==
    fate = "done" => /\ conn \in Archer \cup {"snow"} => ~refused
                     /\ conn = "emass" => lost # Units

(* A walk that ends as if all was well has read the whole of what the       *)
(* server holds up to the cap, and was not refused.                         *)
PullSafe == SourceTypeOK /\ ReadWhole /\ CapIsExact /\ RefusalIsLoud

(* A walk ends, whatever the server answers. *)
SourceEnds == fate = "walking" ~> fate \in {"done", "raised"}

=============================================================================

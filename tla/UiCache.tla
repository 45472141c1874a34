------------------------------- MODULE UiCache -------------------------------
(***************************************************************************)
(* What a page shows after a click (ui/src/lib/queries.ts with the         *)
(* defaults of main.tsx and request() of api.ts, over the query library).  *)
(*                                                                         *)
(* Every page reads through a query cache.  A mutation hook sends its      *)
(* request and, when it is answered, names the queries to fetch again, the *)
(* ones to forget and the ones to overwrite with the answer.  Pages come   *)
(* and go meanwhile, fetches are under way, requests break.  A behaviour   *)
(* is about one query and one hook.                                        *)
(***************************************************************************)
EXTENDS UiHooks

CONSTANTS Watched,    \* the queries that behaviours are about
          Clicks,     \* clicks on the hook's button, 1..n
          Repeatable, \* hooks that are clicked more than once
          Handled     \* hooks that a page gives an onSuccess of its own

\* The clicks are numbered; a hook sends one request or two, and does not name a query
\* that it overwrites.
ASSUME UiAssumption ==
    /\ Watched \subseteq Queries
    /\ IsFiniteSet(Clicks) /\ Clicks = 1..Cardinality(Clicks)
    /\ \A h \in DOMAIN Hooks :
          /\ Len(Hooks[h]) \in 1..2
          /\ \A i, j \in 1..Len(Hooks[h]), q \in Queries :
                ~(NamesQuery(Hooks[h][i], q) /\ q \in Hooks[h][j].store)

VARIABLES query,   \* the key that the behaviour is about
          hook,    \* the hook that the page calls
          server,  \* the number of changes committed at the sidecar
          entry,   \* the query in the cache: the change it shows, and two flags
          mounted, \* a page shows the query
          fetch,   \* the fetch under way: where it is and the change it has read
          failed,  \* the last fetch failed, and the page says so
          clicks,  \* each click: its request, where that is and what it changed
          due,     \* history: the last change of an answer that named the query
          missed   \* history: an answer named the query and fetched nothing

uiVars == <<query, hook, server, entry, mounted, fetch, failed, clicks, due, missed>>

focus == <<query, hook>>

Nothing == -1

MaxChanges == 2 * Cardinality(Clicks)

Changes == 0..MaxChanges

UiTypeOK == /\ server \in Changes
            /\ entry \in [shows : Changes \cup {Nothing}, stale : BOOLEAN, aged : BOOLEAN]
            /\ mounted \in BOOLEAN
            /\ fetch \in [at : {"none", "asked", "read"}, version : Changes \cup {Nothing},
                          tries : 0..1]
            /\ failed \in BOOLEAN
            /\ clicks \in [Clicks -> [at : {"idle", "sent", "committed", "done", "lost"},
                                      request : 1..2, version : Changes]]
            /\ due \in Changes
            /\ missed \in BOOLEAN

Empty == [shows |-> Nothing, stale |-> FALSE, aged |-> FALSE]
NoFetch == [at |-> "none", version |-> Nothing, tries |-> 0]
Asked == [at |-> "asked", version |-> Nothing, tries |-> 0]

\* The page of a hook that comments promise a view's update to, beside those it names.
Promised == {<<"useClearEvidence", EvidencePagedKey>>}

UiInit == /\ query \in Watched
          /\ hook \in DOMAIN Hooks
          /\ \/ \E i \in DOMAIN Hooks[hook] : Touches(Hooks[hook][i], query)
             \/ <<hook, query>> \in Promised
          /\ server = 0
          /\ entry = Empty
          /\ mounted = FALSE
          /\ fetch = NoFetch
          /\ failed = FALSE
          /\ clicks = [c \in Clicks |-> [at |-> "idle", request |-> 1, version |-> 0]]
          /\ due = 0
          /\ missed = FALSE

Enabled == mounted /\ query \notin ByHand

-----------------------------------------------------------------------------
(* The page *)

\* A page that shows the query opens; a cached answer is used while it is fresh.
Mount ==
    /\ ~mounted
    /\ mounted' = TRUE
    /\ fetch' = IF /\ query \notin ByHand /\ fetch.at = "none"
                   /\ entry.shows = Nothing \/ entry.stale \/ entry.aged
                THEN Asked ELSE fetch
    /\ UNCHANGED <<focus, server, entry, failed, clicks, due, missed>>

Unmount ==
    /\ mounted
    /\ mounted' = FALSE
    /\ UNCHANGED <<focus, server, entry, fetch, failed, clicks, due, missed>>

\* The page renders again and finds that its answer was forgotten.
Render ==
    /\ Enabled /\ entry.shows = Nothing /\ fetch.at = "none" /\ ~failed
    /\ fetch' = Asked
    /\ UNCHANGED <<focus, server, entry, mounted, failed, clicks, due, missed>>

\* refetchInterval, or the button of a query that is fetched by hand.
FetchAgain ==
    /\ mounted /\ fetch.at = "none"
    /\ query \in Polled \cup ByHand
    /\ fetch' = Asked
    /\ UNCHANGED <<focus, server, entry, mounted, failed, clicks, due, missed>>

\* staleTime passes.
Age ==
    /\ entry.shows # Nothing /\ ~entry.aged /\ query \notin Timeless
    /\ entry' = [entry EXCEPT !.aged = TRUE]
    /\ UNCHANGED <<focus, server, mounted, fetch, failed, clicks, due, missed>>

\* Nobody has shown the query for minutes.
Collect ==
    /\ ~mounted /\ fetch.at = "none" /\ entry.shows # Nothing
    /\ entry' = Empty
    /\ failed' = FALSE
    /\ UNCHANGED <<focus, server, mounted, fetch, clicks, due, missed>>

-----------------------------------------------------------------------------
(* A fetch *)

Read ==
    /\ fetch.at = "asked"
    /\ fetch' = [fetch EXCEPT !.at = "read", !.version = server]
    /\ UNCHANGED <<focus, server, entry, mounted, failed, clicks, due, missed>>

Arrive ==
    /\ fetch.at = "read"
    /\ entry' = [shows |-> fetch.version, stale |-> FALSE, aged |-> FALSE]
    /\ fetch' = NoFetch
    /\ failed' = FALSE
    /\ missed' = (missed /\ fetch.version < due)
    /\ UNCHANGED <<focus, server, mounted, clicks, due>>

Retries == IF query \in Unretried THEN 0 ELSE 1

Break ==
    /\ fetch.at # "none"
    /\ IF fetch.tries < Retries
       THEN /\ fetch' = [Asked EXCEPT !.tries = fetch.tries + 1]
            /\ UNCHANGED failed
       ELSE fetch' = NoFetch /\ failed' = TRUE
    /\ UNCHANGED <<focus, server, entry, mounted, clicks, due, missed>>

-----------------------------------------------------------------------------
(* A click *)

Underway(c) == clicks[c].at \in {"sent", "committed"}

Click(c) ==
    /\ clicks[c].at = "idle"
    /\ \A d \in 1..(c - 1) : hook \in Repeatable /\ clicks[d].at # "idle"
    /\ clicks' = [clicks EXCEPT ![c].at = "sent"]
    /\ UNCHANGED <<focus, server, entry, mounted, fetch, failed, due, missed>>

Commit(c) ==
    /\ clicks[c].at = "sent"
    /\ server' = server + 1
    /\ clicks' = [clicks EXCEPT ![c].at = "committed", ![c].version = server + 1]
    /\ UNCHANGED <<focus, entry, mounted, fetch, failed, due, missed>>

\* What the answer to the click's request does.  The page's own onSuccess runs after
\* the hook's, which was pulled out before the options were spread.
Effect(c) == Hooks[hook][clicks[c].request]

\* Mutant: "Spreading ...opts after our onSuccess was the bug that ate every refetch".
AppliedSpread(c) == IF hook \in Handled THEN Named({}, {}, {}) ELSE Effect(c)

Applied(c) == Effect(c)

\* A hook with a second request sends it; otherwise the click is over.
After(c) == IF clicks[c].request < Len(Hooks[hook])
            THEN [clicks[c] EXCEPT !.at = "sent", !.request = @ + 1]
            ELSE [clicks[c] EXCEPT !.at = "done"]

\* invalidateQueries: the answer is old from now on; a page that shows it fetches again,
\* unless the first fetch is still under way, which goes on as it is.
Invalidate ==
    /\ entry' = [entry EXCEPT !.stale = (entry.shows # Nothing)]
    /\ LET goesOn == fetch.at # "none" /\ (entry.shows = Nothing \/ ~Enabled)
       IN /\ fetch' = IF Enabled /\ ~goesOn THEN Asked ELSE fetch
          /\ missed' = (missed \/ goesOn)

\* removeQueries: the answer and a fetch under way are dropped.
DropQuery == entry' = Empty /\ fetch' = NoFetch /\ UNCHANGED missed

\* setQueryData: the answer of the request is shown; a fetch under way goes on.
Overwrite(c) ==
    /\ entry' = [shows |-> clicks[c].version, stale |-> FALSE, aged |-> FALSE]
    /\ UNCHANGED <<fetch, missed>>

Answer(c) ==
    /\ clicks[c].at = "committed"
    /\ clicks' = [clicks EXCEPT ![c] = After(c)]
    /\ LET ran == Applied(c)
       IN \/ Hit(ran.refresh, query) /\ Invalidate
          \/ Hit(ran.forget, query) /\ DropQuery
          \/ query \in ran.store /\ Overwrite(c)
          \/ ~Touches(ran, query) /\ UNCHANGED <<entry, fetch, missed>>
    /\ due' = IF NamesQuery(Effect(c), query) /\ clicks[c].version > due
              THEN clicks[c].version ELSE due
    /\ UNCHANGED <<focus, server, mounted, failed>>

\* The request breaks before or after the sidecar has committed: the page shows an
\* error and names nothing.
Lose(c) ==
    /\ Underway(c)
    /\ clicks' = [clicks EXCEPT ![c].at = "lost"]
    /\ UNCHANGED <<focus, server, entry, mounted, fetch, failed, due, missed>>

-----------------------------------------------------------------------------
UiNext == \/ Mount \/ Unmount \/ Render \/ FetchAgain \/ Age \/ Collect
          \/ Read \/ Arrive \/ Break
          \/ \E c \in Clicks : Click(c) \/ Commit(c) \/ Answer(c) \/ Lose(c)

UiSpec == UiInit /\ [][UiNext]_uiVars

-----------------------------------------------------------------------------
(* Properties *)

Behind == /\ mounted /\ query \notin ByHand
          /\ entry.shows # Nothing /\ entry.shows < due
          /\ ~failed /\ ~missed

\* A page never settles on an answer older than a change that a hook named it for:
\* whenever the click, the page and the fetches happen, it shows the change, fetches,
\* or says that it could not.  The exceptions are what the query library does with an
\* answer that finds the first fetch of the query, or one of a page that was left,
\* under way: that fetch goes on and its answer counts as fresh.  What only the second
\* request of a hook names is owed nothing when that request fails: a verdict that was
\* saved and not applied leaves the page of column L as it is (queries.ts:2063-2090).
NamedIsRefetched == Behind => fetch.at # "none"

\* The pages beside their hooks: the cache is sound and no page settles behind a hook.
UiSafe == UiTypeOK /\ NamedIsRefetched

=============================================================================

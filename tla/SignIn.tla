------------------------------- MODULE SignIn -------------------------------
(***************************************************************************)
(* Signing in to SharePoint (routes/sharepoint.py with acquire_token of    *)
(* evidence/sources/sharepoint.py).  The connection test and the boundary  *)
(* sweep each have a slot: a process-wide lock, an event and the device    *)
(* code last issued.  A request that wins the lock starts a thread for the *)
(* sign-in, waits for it a while, answers, and leaves a watchdog behind    *)
(* that gives the lock back when the thread ends or five minutes passed.   *)
(***************************************************************************)
EXTENDS Naturals

CONSTANTS Slots, Test,  \* the slots, and the one cancel and sign-out know
          Flows,        \* requests
          NoFlow

ASSUME SignInAssumption == Test \in Slots /\ NoFlow \notin Flows

VARIABLES lock,     \* _TEST_LOCK and _SWEEP_LOCK
          event,    \* _DEVICE_CODE_EVENT
          code,     \* _DEVICE_CODE_PAYLOAD with its time of issue
          flow,     \* request, thread and watchdog of every flow
          cached    \* the token cache file holds an account

signInVars == <<lock, event, code, flow, cached>>

NoCode == [of |-> NoFlow, live |-> FALSE]
Ended == {"done", "failed"}

Of(s) == {f \in Flows : flow[f].slot = s}

CodeStillValid(s) == code[s].of # NoFlow /\ code[s].live

ResetDeviceState(s) == /\ event' = [event EXCEPT ![s] = FALSE]
                       /\ code' = [code EXCEPT ![s] = NoCode]

(* The request that holds the lock clears the slot and starts its thread,  *)
(* which loads the token cache.                                            *)
Begin(f, s) ==
    /\ lock' = [lock EXCEPT ![s] = TRUE]
    /\ ResetDeviceState(s)
    /\ flow' = [flow EXCEPT ![f] = [@ EXCEPT !.slot = s, !.req = "waiting",
                                             !.thread = "silent", !.loaded = cached]]
    /\ UNCHANGED cached

SetReq(f, s, r) == flow' = [flow EXCEPT ![f] = [@ EXCEPT !.slot = s, !.req = r]]

(* A click: the first attempt at the lock. *)
Click(f, s) ==
    /\ flow[f].req = "unused"
    /\ \/ ~lock[s] /\ Begin(f, s)
       \/ /\ lock[s]
          /\ SetReq(f, s, "held")
          /\ UNCHANGED <<lock, event, code, cached>>

(* The slot is taken: its valid code is shown again. *)
Reshow(f) ==
    /\ flow[f].req = "held"
    /\ CodeStillValid(flow[f].slot)
    /\ SetReq(f, flow[f].slot, "shown")
    /\ UNCHANGED <<lock, event, code, cached>>

(* Without one the lock is broken and tried once more. *)
ForceRelease(f) ==
    /\ flow[f].req = "held"
    /\ ~CodeStillValid(flow[f].slot)
    /\ lock' = [lock EXCEPT ![flow[f].slot] = FALSE]
    /\ SetReq(f, flow[f].slot, "retry")
    /\ UNCHANGED <<event, code, cached>>

TryAgain(f) ==
    LET s == flow[f].slot
    IN  /\ flow[f].req = "retry"
        /\ \/ ~lock[s] /\ Begin(f, s)
           \/ /\ lock[s]
              /\ SetReq(f, s, "busy")
              /\ UNCHANGED <<lock, event, code, cached>>

(* acquire_token: silently from the loaded cache, else in the browser, else *)
(* with a device code, each persisting the cache when it succeeds.         *)
SetThread(f, t) == flow' = [flow EXCEPT ![f].thread = t]

Succeed(f) ==
    /\ \/ flow[f].thread = "silent" /\ flow[f].loaded
       \/ flow[f].thread \in {"browser", "polling"}
    /\ SetThread(f, "done")
    /\ cached' = TRUE
    /\ UNCHANGED <<lock, event, code>>

GoInteractive(f) ==
    /\ flow[f].thread = "silent"
    /\ SetThread(f, "browser")
    /\ UNCHANGED <<lock, event, code, cached>>

(* The code lands in the slot, whoever holds the slot by now. *)
IssueCode(f) ==
    /\ flow[f].thread \in {"silent", "browser"}
    /\ SetThread(f, "polling")
    /\ code' = [code EXCEPT ![flow[f].slot] = [of |-> f, live |-> TRUE]]
    /\ event' = [event EXCEPT ![flow[f].slot] = TRUE]
    /\ UNCHANGED <<lock, cached>>

Fail(f) ==
    /\ flow[f].thread \in {"silent", "browser", "polling"}
    /\ SetThread(f, "failed")
    /\ event' = [event EXCEPT ![flow[f].slot] = TRUE]
    /\ UNCHANGED <<lock, code, cached>>

ExpireCode(s) ==
    /\ CodeStillValid(s)
    /\ code' = [code EXCEPT ![s].live = FALSE]
    /\ UNCHANGED <<lock, event, flow, cached>>

(* Mutant: a request that ends in an error leaves no watchdog. *)
AnswerUnwatched(f) ==
    LET s == flow[f].slot
        Reply(r) == flow' = [flow EXCEPT ![f] = [@ EXCEPT !.req = r, !.watch = "armed"]]
    IN  /\ flow[f].req = "waiting"
        /\ \/ flow[f].thread = "done" /\ Reply("ok")
           \/ flow[f].thread = "failed" /\ SetReq(f, s, "error")
           \/ event[s] /\ code[s].of # NoFlow /\ Reply("shown")
           \/ Reply("timeout")
        /\ UNCHANGED <<lock, event, code, cached>>

(* The waiting request answers when its thread ended, when a code is in the *)
(* slot or after three minutes, and arms the watchdog.                     *)
Answer(f) ==
    LET s == flow[f].slot
        Reply(r) == flow' = [flow EXCEPT ![f] = [@ EXCEPT !.req = r, !.watch = "armed"]]
    IN  /\ flow[f].req = "waiting"
        /\ \/ flow[f].thread = "done" /\ Reply("ok")
           \/ flow[f].thread = "failed" /\ Reply("error")
           \/ event[s] /\ code[s].of # NoFlow /\ Reply("shown")
           \/ Reply("timeout")
        /\ UNCHANGED <<lock, event, code, cached>>

(* The join of the watchdog ends with the thread or after five minutes; it *)
(* releases the lock of the slot, its own flow's or not.                   *)
Watchdog(f) ==
    /\ flow[f].watch = "armed"
    /\ lock' = [lock EXCEPT ![flow[f].slot] = FALSE]
    /\ flow' = [flow EXCEPT ![f].watch = "fired"]
    /\ UNCHANGED <<event, code, cached>>

Cancel == /\ lock' = [lock EXCEPT ![Test] = FALSE]
          /\ ResetDeviceState(Test)
          /\ UNCHANGED <<flow, cached>>

SignOut == /\ lock' = [lock EXCEPT ![Test] = FALSE]
           /\ ResetDeviceState(Test)
           /\ cached' = FALSE
           /\ UNCHANGED flow

(* A sweep that Graph refuses with 401 drops the token cache. *)
Unauthorized == /\ cached
                /\ cached' = FALSE
                /\ UNCHANGED <<lock, event, code, flow>>

SignInInit ==
    /\ lock = [s \in Slots |-> FALSE]
    /\ event = [s \in Slots |-> FALSE]
    /\ code = [s \in Slots |-> NoCode]
    /\ flow = [f \in Flows |-> [slot |-> Test, req |-> "unused", thread |-> "none",
                                watch |-> "none", loaded |-> FALSE]]
    /\ cached \in BOOLEAN

Proceed(f) == \/ Reshow(f)
              \/ ForceRelease(f)
              \/ TryAgain(f)
              \/ Answer(f)
              \/ Watchdog(f)

SignInNext ==
    \/ \E f \in Flows, s \in Slots : Click(f, s)
    \/ \E f \in Flows : Proceed(f)
    \/ \E f \in Flows : \/ Succeed(f)
                        \/ GoInteractive(f)
                        \/ IssueCode(f)
                        \/ Fail(f)
    \/ \E s \in Slots : ExpireCode(s)
    \/ Cancel
    \/ SignOut
    \/ Unauthorized

(* Requests and watchdogs have deadlines of their own, threads do not. *)
SignInFairness == \A f \in Flows : WF_signInVars(Proceed(f))

SignInSpec == SignInInit /\ [][SignInNext]_signInVars /\ SignInFairness

-----------------------------------------------------------------------------
(* The type invariant. *)
SignInTypeOK ==
    /\ lock \in [Slots -> BOOLEAN]
    /\ event \in [Slots -> BOOLEAN]
    /\ \A s \in Slots : /\ code[s].of \in Flows \cup {NoFlow}
                        /\ code[s].live \in BOOLEAN
    /\ \A f \in Flows :
         /\ flow[f].slot \in Slots
         /\ flow[f].req \in {"unused", "held", "retry", "waiting", "shown", "busy", "ok",
                             "error", "timeout"}
         /\ flow[f].thread \in {"none", "silent", "browser", "polling"} \cup Ended
         /\ flow[f].watch \in {"none", "armed", "fired"}
         /\ flow[f].loaded \in BOOLEAN
    /\ cached \in BOOLEAN

(* A slot is never stuck: while its lock is held, some request that won it  *)
(* is still waiting or has left a watchdog, however often the lock was      *)
(* broken, cancelled or released by somebody else's watchdog.              *)
HeldSlotIsWatched ==
    \A s \in Slots : lock[s] =>
        \E f \in Of(s) : flow[f].req = "waiting" \/ flow[f].watch = "armed"

(* A code in a slot was issued by a thread of that slot, and while it is    *)
(* unanswered its thread is waiting for the user or has ended.             *)
CodeIsOfSlot ==
    \A s \in Slots : code[s].of # NoFlow =>
        code[s].of \in Of(s) /\ flow[code[s].of].thread \in {"polling"} \cup Ended

(* Whatever the order of clicks, answers, timers and steals: a held slot    *)
(* has somebody who will free it, and shows no code of a thread that is not *)
(* its own (routes/sharepoint.py:376-510).                                  *)
SignInSafe == SignInTypeOK /\ HeldSlotIsWatched /\ CodeIsOfSlot

(* Whoever holds a slot lets go of it in the end. *)
SlotsAreFreed == \A s \in Slots : lock[s] ~> ~lock[s]

(* Every click is answered, a raced one as well. *)
ClicksAreAnswered ==
    \A f \in Flows :
        flow[f].req \in {"held", "retry", "waiting"} ~>
        flow[f].req \in {"shown", "busy", "ok", "error", "timeout"}

=============================================================================

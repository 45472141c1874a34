-------------------------------- MODULE Shell -------------------------------
(***************************************************************************)
(* The desktop shell and its sidecar (ui/electron/main.cts, server.py).    *)
(* A launch kills what the PID file names, spawns a sidecar, writes its    *)
(* pid down and waits a minute for the port; then it opens the window.     *)
(* Closing kills the sidecar.  Either side may die without a word: the     *)
(* next launch reaps the sidecar, or a thread of the sidecar sees that its *)
(* parent is gone.  Nothing keeps a second launch from running beside the  *)
(* first, and the system gives the pids of the dead to strangers.          *)
(*                                                                         *)
(* From source on Windows the shell's child is cmd.exe with the sidecar    *)
(* below it; installed, the child is the sidecar.  Endpoint protection may *)
(* shield python from being killed by anyone.                              *)
(***************************************************************************)
EXTENDS Naturals, FiniteSets

CONSTANT MaxApps   \* bound on the launches of the application

ASSUME ShellAssumption == MaxApps \in Nat

Apps == 1..MaxApps   \* in the order of their launches
NoApp == 0

VARIABLES platform,   \* win32 or darwin
          wrapped,    \* cmd.exe stands between shell and sidecar
          shielded,   \* the sidecar cannot be killed from outside
          stage,      \* where main.cts of a launch stands
          victim,     \* whose pid it read from the file
          pidFile,    \* PID_FILE: whose child it names
          held,       \* launches whose variable `sidecar` is set
          python,     \* the sidecar of a launch
          shims,      \* launches whose cmd.exe lives
          address,    \* launches that know their sidecarUrl
          noticed,    \* launches that got the exit event of their child
          parentPids, childPids,  \* launches whose pid, or whose child's, a stranger has now
          met,        \* history: two launches ran side by side
          unrecorded, \* history: launches whose child never got into the file
          crashed,    \* history: launches that died without a word
          fell,       \* history: launches whose sidecar ended by itself
          struck      \* history: launches in whose child's name a stranger was killed

kinds == <<platform, wrapped, shielded>>
processes == <<python, shims>>
histories == <<met, unrecorded, crashed, fell, struck>>
shellVars == <<kinds, stage, victim, pidFile, held, processes, address, noticed,
               parentPids, childPids, histories>>

Launching == {"reap", "clear", "spawn", "record", "wait"}
Running == Launching \cup {"up", "background", "quitting"}
Alive == {"boot", "serving"}

ChildLives(a) == IF wrapped THEN a \in shims ELSE python[a] \in Alive \cup {"stopping"}

GoTo(a, s) == stage' = [stage EXCEPT ![a] = s]

-----------------------------------------------------------------------------
(* killProcessTree of a's child: the tree below cmd.exe, or the sidecar,   *)
(* unless it is shielded; on POSIX a SIGTERM that uvicorn ends on in time; *)
(* a stranger who has the pid by now; or nobody.                           *)
KillTree(a) ==
    /\ shims' = shims \ {a}
    /\ python' = [python EXCEPT ![a] =
          IF ~ChildLives(a) \/ shielded THEN @
          ELSE IF platform = "darwin" THEN "stopping" ELSE "dead"]
    /\ struck' = IF ~ChildLives(a) /\ a \in childPids THEN struck \cup {a} ELSE struck

Spare == UNCHANGED <<processes, struck>>

Forget == pidFile' = NoApp

(* reapStaleSidecar reads the file; there is no single-instance lock.      *)
Launch(a) ==
    /\ stage[a] = "off" /\ \A b \in 1..(a - 1) : stage[b] # "off"
    /\ victim' = [victim EXCEPT ![a] = pidFile]
    /\ GoTo(a, IF pidFile = NoApp THEN "spawn" ELSE "reap")
    /\ met' = (met \/ \E b \in Apps \ {a} : stage[b] \in Running)
    /\ UNCHANGED <<kinds, pidFile, held, processes, address, noticed, parentPids,
                   childPids, unrecorded, crashed, fell, struck>>

\* Mutant: the stale child's pid is dropped, the child left alone.
ReapNobody(a) ==
    /\ stage[a] = "reap" /\ GoTo(a, "clear") /\ Spare
    /\ UNCHANGED <<kinds, victim, pidFile, held, address, noticed, parentPids,
                   childPids, met, unrecorded, crashed, fell>>

Reap(a) ==
    /\ stage[a] = "reap" /\ GoTo(a, "clear")
    /\ KillTree(victim[a])
    /\ UNCHANGED <<kinds, victim, pidFile, held, address, noticed, parentPids,
                   childPids, met, unrecorded, crashed, fell>>

ClearStale(a) ==
    /\ stage[a] = "clear" /\ GoTo(a, "spawn")
    /\ victim' = [victim EXCEPT ![a] = NoApp]
    /\ Forget
    /\ UNCHANGED <<kinds, held, processes, address, noticed, parentPids,
                   childPids, histories>>

Spawn(a) ==
    /\ stage[a] = "spawn" /\ GoTo(a, "record")
    /\ python' = [python EXCEPT ![a] = "boot"]
    /\ shims' = IF wrapped THEN shims \cup {a} ELSE shims
    /\ held' = held \cup {a}
    /\ UNCHANGED <<kinds, victim, pidFile, address, noticed, parentPids, childPids,
                   histories>>

(* The error event: a message, and a window without an address.            *)
SpawnFails(a) ==
    /\ stage[a] = "spawn" /\ GoTo(a, "up")
    /\ UNCHANGED <<kinds, victim, pidFile, held, processes, address, noticed,
                   parentPids, childPids, histories>>

(* writeSidecarPid, whose failure is logged and ignored.                   *)
Record(a) ==
    /\ stage[a] = "record" /\ GoTo(a, "wait")
    /\ \/ pidFile' = a /\ UNCHANGED unrecorded
       \/ unrecorded' = unrecorded \cup {a} /\ UNCHANGED pidFile
    /\ UNCHANGED <<kinds, victim, held, processes, address, noticed, parentPids,
                   childPids, met, crashed, fell, struck>>

(* _serve_with_handshake: the listener is up, the port printed.            *)
Serve(a) ==
    /\ python[a] = "boot"
    /\ python' = [python EXCEPT ![a] = "serving"]
    /\ UNCHANGED <<kinds, stage, victim, pidFile, held, shims, address, noticed, parentPids,
                   childPids, histories>>

Hear(a) ==
    /\ stage[a] = "wait" /\ python[a] = "serving" /\ GoTo(a, "up")
    /\ address' = address \cup {a}
    /\ UNCHANGED <<kinds, victim, pidFile, held, processes, noticed, parentPids,
                   childPids, histories>>

(* A minute without a port: a message, and a window without an address.    *)
(* The sidecar stays, and what it prints later is not heard.               *)
GiveUp(a) ==
    /\ stage[a] = "wait" /\ python[a] # "serving" /\ GoTo(a, "up")
    /\ UNCHANGED <<kinds, victim, pidFile, held, processes, address, noticed,
                   parentPids, childPids, histories>>

(* The sidecar ends by itself: a failed start, a crash; and a POSIX one    *)
(* that was told to stop.                                                  *)
SidecarEnds(a) ==
    /\ python[a] \in Alive \cup {"stopping"}
    /\ python' = [python EXCEPT ![a] = "dead"]
    /\ shims' = shims \ {a}
    /\ fell' = IF python[a] \in Alive THEN fell \cup {a} ELSE fell
    /\ UNCHANGED <<kinds, stage, victim, pidFile, held, address, noticed, parentPids,
                   childPids, met, unrecorded, crashed, struck>>

(* The exit event of the child: the variable and the file are cleared,     *)
(* whatever the file names by now.                                         *)
NoticeExit(a) ==
    /\ stage[a] \in Running /\ a \notin noticed
    /\ python[a] # "none" /\ ~ChildLives(a)
    /\ stage[a] # "record"     \* the event loop is not free
    /\ noticed' = noticed \cup {a}
    /\ held' = held \ {a}
    /\ Forget
    /\ UNCHANGED <<kinds, stage, victim, processes, address, parentPids, childPids,
                   histories>>

(* killSidecar *)
KillSidecar(a) ==
    /\ IF a \in held THEN KillTree(a) ELSE Spare
    /\ held' = held \ {a}
    /\ Forget

(* window-all-closed: on darwin the application stays.                     *)
CloseWindow(a) ==
    /\ stage[a] = "up"
    /\ GoTo(a, IF platform = "darwin" THEN "background" ELSE "quitting")
    /\ KillSidecar(a)
    /\ UNCHANGED <<kinds, victim, address, noticed, parentPids, childPids, met,
                   unrecorded, crashed, fell>>

(* activate opens a window and spawns nothing.                             *)
Reopen(a) ==
    /\ stage[a] = "background" /\ GoTo(a, "up")
    /\ UNCHANGED <<kinds, victim, pidFile, held, processes, address, noticed,
                   parentPids, childPids, histories>>

(* before-quit: without a window only darwin's menu quits.                 *)
Quit(a) ==
    /\ stage[a] \in {"up"} \cup IF platform = "darwin" THEN {"background", "wait"} ELSE {}
    /\ GoTo(a, "quitting")
    /\ KillSidecar(a)
    /\ UNCHANGED <<kinds, victim, address, noticed, parentPids, childPids, met,
                   unrecorded, crashed, fell>>

(* exit: killSidecar once more, then the process is gone.                  *)
Exit(a) ==
    /\ stage[a] = "quitting" /\ GoTo(a, "gone")
    /\ KillSidecar(a)
    /\ address' = address \ {a}
    /\ noticed' = noticed \ {a}
    /\ UNCHANGED <<kinds, victim, parentPids, childPids, met,
                   unrecorded, crashed, fell>>

Crash(a) ==
    /\ stage[a] \in Running /\ GoTo(a, "gone")
    /\ crashed' = crashed \cup {a}
    /\ held' = held \ {a} /\ address' = address \ {a}
    /\ victim' = [victim EXCEPT ![a] = NoApp]
    /\ unrecorded' = IF stage[a] = "record" THEN unrecorded \cup {a} ELSE unrecorded
    /\ UNCHANGED <<kinds, pidFile, processes, noticed, parentPids, childPids, met,
                   fell, struck>>

(* The sidecar's watchdog: the parent's pid is nobody's.  It is armed      *)
(* before anything else is started.                                        *)
Watch(a) ==
    /\ python[a] \in Alive \cup {"stopping"} /\ stage[a] = "gone" /\ a \notin parentPids
    /\ python' = [python EXCEPT ![a] = "dead"]
    /\ shims' = shims \ {a}
    /\ UNCHANGED <<kinds, stage, victim, pidFile, held, address, noticed, parentPids,
                   childPids, histories>>

(* A lasting process gets the pid of a dead launch whose sidecar looks for *)
(* it, or that of a dead child which is written down; a launch keeps a     *)
(* handle on its child until it noticed the end.                           *)
PidsComeBack(a) ==
    /\ \/ /\ stage[a] = "gone" /\ python[a] \in Alive
          /\ parentPids' = parentPids \cup {a} /\ UNCHANGED childPids
       \/ /\ a = pidFile \/ \E b \in Apps : victim[b] = a
          /\ ~ChildLives(a) /\ (stage[a] = "gone" \/ a \in noticed)
          /\ childPids' = childPids \cup {a} /\ UNCHANGED parentPids
    /\ UNCHANGED <<kinds, stage, victim, pidFile, held, processes, address, noticed,
                   histories>>

-----------------------------------------------------------------------------
ShellInit ==
    /\ platform \in {"win32", "darwin"}
    /\ wrapped \in BOOLEAN /\ shielded \in BOOLEAN
    /\ platform = "darwin" => ~wrapped /\ ~shielded
    /\ stage = [a \in Apps |-> "off"]
    /\ victim = [a \in Apps |-> NoApp]
    /\ pidFile = NoApp
    /\ python = [a \in Apps |-> "none"]
    /\ held = {} /\ shims = {} /\ address = {} /\ noticed = {}
    /\ parentPids = {} /\ childPids = {}
    /\ met = FALSE
    /\ unrecorded = {} /\ crashed = {} /\ fell = {} /\ struck = {}

LaunchStep(a) ==
    Reap(a) \/ ClearStale(a) \/ Spawn(a) \/ SpawnFails(a) \/ Record(a) \/ Hear(a) \/ GiveUp(a)

ShellNext ==
    \E a \in Apps :
        \/ Launch(a) \/ LaunchStep(a) \/ Serve(a) \/ SidecarEnds(a) \/ NoticeExit(a)
        \/ CloseWindow(a) \/ Reopen(a) \/ Quit(a) \/ Exit(a) \/ Crash(a) \/ Watch(a)
        \/ PidsComeBack(a)

ShellSpec ==
    /\ ShellInit /\ [][ShellNext]_shellVars
    /\ \A a \in Apps : WF_shellVars(LaunchStep(a)) /\ WF_shellVars(Watch(a))

-----------------------------------------------------------------------------
ShellTypeOK ==
    /\ stage \in [Apps -> Running \cup {"off", "gone"}]
    /\ victim \in [Apps -> Apps \cup {NoApp}]
    /\ pidFile \in Apps \cup {NoApp}
    /\ python \in [Apps -> Alive \cup {"none", "stopping", "dead"}]
    /\ \A S \in {held, shims, address, noticed, parentPids, childPids, unrecorded,
                 crashed, fell, struck} : S \subseteq Apps
    /\ met \in BOOLEAN

(* "So we never have two sidecars fighting over the DB / ports" (main.cts  *)
(* 510-511) holds of launches one after another, if the old sidecar may be *)
(* killed and its pid was written down.                                    *)
OneSidecar ==
    ~met /\ ~shielded /\ unrecorded = {} =>
        Cardinality({a \in Apps : python[a] \in Alive}) <= 1

(* A stranger is killed only in the name of a child whose launch crashed   *)
(* before it saw the child end, or between two launches side by side.      *)
StrangersAreSafe == met \/ struck \subseteq crashed \ noticed

(* Who left through the door left no sidecar behind that could be killed.  *)
QuitLeavesNothing ==
    \A a \in Apps : stage[a] = "gone" /\ a \notin crashed /\ ~shielded => python[a] \notin Alive

(* A window whose backend is gone lost it to the sidecar's own end or to   *)
(* another launch, or is darwin's, opened again.                           *)
BackendLossIsKnown ==
    \A a \in Apps : stage[a] = "up" /\ a \in address /\ python[a] \notin Alive =>
        a \in fell \/ met \/ platform = "darwin"

(* The shell and its sidecar do not outlive each other for long, and hit   *)
(* nobody else.                                                            *)
ShellSafe ==
    /\ ShellTypeOK /\ OneSidecar /\ StrangersAreSafe /\ QuitLeavesNothing
    /\ BackendLossIsKnown

(* In the end every launch is past the wait for the port, and no sidecar   *)
(* is left of a launch that is gone, unless a stranger has its pid.        *)
ShellSettles ==
    <>[] \A a \in Apps :
            /\ stage[a] \notin Launching
            /\ stage[a] = "gone" => python[a] \in {"none", "dead"} \/ a \in parentPids
=============================================================================

------------------------------- MODULE Launcher -------------------------------
(***************************************************************************)
(* Launching Codex with Codex++: one launcher owns the guard, starts its    *)
(* helper server and Codex with a debug port, injects into Codex's page and *)
(* watches over it until Codex ends.  A second launcher brings Codex to the *)
(* front, may inject too, and ends at once.                                 *)
(*                                                                          *)
(* The guard is a lock file and a listening port; a port somebody else      *)
(* answers at may belong to a launcher that hangs, which is then killed.    *)
(* Codex is one instance at a time: launching it while it runs activates    *)
(* the instance there is, whose debug port stays what it was.  On Windows   *)
(* it is the packaged app, on macOS the app bundle.                         *)
(***************************************************************************)
EXTENDS Naturals

CONSTANTS
  Launchers,   \* the launcher processes, each started once
  Systems,     \* platforms and settings a behaviour may have
  Occupants,   \* who may have the guard's port at the start
  Requested,   \* the debug port and helper port asked for; a launcher is its own free port
  Limit,       \* bounds: acts of the user; faults and crashes
  None

System    == [platform : {"windows", "macos"}, enhancements : BOOLEAN, proxy : BOOLEAN]
Strangers == {"stale", "program", "deaf"}   \* an old launcher, a program, one that does not answer
Budgets   == {"user", "fault"}

ASSUME SystemAssumption == Systems \subseteq System
ASSUME OccupantAssumption == Occupants \subseteq Strangers \cup {None}
ASSUME LimitAssumption == Limit \in [Budgets -> Nat]
ASSUME NamesAssumption ==
  /\ None \notin Launchers \cup Strangers \cup {Requested} /\ Requested \notin Launchers
  /\ Launchers \cap Strangers = {}

VARIABLES
  system,      \* fixed by the initial state
  at,          \* where a launcher is
  lock,        \* who holds the lock file of the guard
  listener,    \* who listens at the guard's port
  debug,       \* the debug port a launcher selected
  helper,      \* its helper port
  serving,     \* the port its helper listens at
  watching,    \* does its watchdog run?
  target,      \* the instance of Codex its launch returned, 0 for none
  skip,        \* MacosCleanupPolicy
  keep,        \* keep_launched_on_error
  app,         \* Codex: the instance, its debug port, and whether that listens
  page,        \* the launchers that installed a bridge in its page
  started,     \* instances of Codex so far
  before,      \* history: the instance that ran when a launcher selected its ports
  spent        \* of each budget

guard  == <<lock, listener>>
ports  == <<debug, helper, before>>
run    == <<serving, watching>>
launch == <<target, skip, keep>>
codex  == <<app, page, started>>
vars   == <<system, at, guard, ports, run, launch, codex, spent>>

Windows == system.platform = "windows"
Listening(port) == app # None /\ app.port = port /\ app.up
Free(port) == \A l \in Launchers : serving[l] # port

Init ==
  /\ system \in Systems /\ at = [l \in Launchers |-> "away"]
  /\ lock = None /\ listener \in Occupants
  /\ debug = [l \in Launchers |-> None] /\ helper = [l \in Launchers |-> None]
  /\ before = [l \in Launchers |-> 0]
  /\ serving = [l \in Launchers |-> None] /\ watching = [l \in Launchers |-> FALSE]
  /\ target = [l \in Launchers |-> 0]
  /\ skip = [l \in Launchers |-> FALSE] /\ keep = [l \in Launchers |-> FALSE]
  /\ app = None /\ page = {} /\ started = 0
  /\ spent = [b \in Budgets |-> 0]

Go(l, place) == at' = [at EXCEPT ![l] = place]
Spend(b) == spent[b] < Limit[b] /\ spent' = [spent EXCEPT ![b] = @ + 1]

(* What the end of the processes in S takes with it. *)
Ended(S, place) ==
  /\ at' = [l \in Launchers |-> IF l \in S THEN "gone" ELSE place[l]]
  /\ lock' = IF lock \in S THEN None ELSE lock
  /\ listener' = IF listener \in S THEN None ELSE listener
  /\ serving' = [l \in Launchers |-> IF l \in S THEN None ELSE serving[l]]
  /\ watching' = [l \in Launchers |-> IF l \in S THEN FALSE ELSE watching[l]]
-----------------------------------------------------------------------------
(* The guard. *)

(* acquire_lock_guard: a second launcher activates what the first launched. *)
Lock(l) ==
  /\ at[l] \in {"away", "relock"}
  /\ IF lock = None
     THEN lock' = l /\ Go(l, IF at[l] = "away" THEN "bind" ELSE "rebind")
     ELSE Go(l, "activate") /\ UNCHANGED lock
  /\ UNCHANGED <<system, listener, ports, run, launch, codex, spent>>

(* Mutant: the lock is kept while a recovery is tried. *)
BindKeepingLock(l) ==
  /\ at[l] \in {"bind", "rebind"}
  /\ \/ listener = None /\ listener' = l /\ Go(l, "select") /\ UNCHANGED lock
     \/ listener = "deaf" /\ Go(l, "select") /\ UNCHANGED guard
     \/ /\ listener \notin {None, "deaf"}
        /\ Go(l, IF at[l] = "bind" THEN "check" ELSE "activate") /\ UNCHANGED guard
  /\ UNCHANGED <<system, ports, run, launch, codex, spent>>

(* acquire_resilient_loopback_port_guard: somebody who answers at the port   *)
(* makes the launcher drop the lock again, somebody who does not is ignored. *)
Bind(l) ==
  /\ at[l] \in {"bind", "rebind"}
  /\ \/ listener = None /\ listener' = l /\ Go(l, "select") /\ UNCHANGED lock
     \/ listener = "deaf" /\ Go(l, "select") /\ UNCHANGED guard
     \/ /\ listener \notin {None, "deaf"}
        /\ lock' = None /\ Go(l, IF at[l] = "bind" THEN "check" ELSE "activate")
        /\ UNCHANGED listener
  /\ UNCHANGED <<system, ports, run, launch, codex, spent>>

(* should_recover_stale_launcher *)
Check(l) ==
  /\ at[l] = "check"
  /\ Go(l, IF (Windows => app = None) /\ ~Listening(Requested) THEN "stop" ELSE "activate")
  /\ UNCHANGED <<system, guard, ports, run, launch, codex, spent>>

(* Mutant: the launcher does not spare itself. *)
StopEvery(l) ==
  /\ at[l] = "stop"
  /\ IF Windows
     THEN Ended({q \in Launchers : at[q] # "away"} \cup {"stale"}, at)
     ELSE Go(l, "relock") /\ UNCHANGED <<guard, run>>
  /\ UNCHANGED <<system, ports, launch, codex, spent>>

(* stop_launcher_processes: on Windows every other launcher is killed, also  *)
(* one that has become the owner since the check.                           *)
Stop(l) ==
  /\ at[l] = "stop"
  /\ IF Windows
     THEN Ended({q \in Launchers \ {l} : at[q] # "away"} \cup {"stale"},
                [at EXCEPT ![l] = "relock"])
     ELSE Go(l, "relock") /\ UNCHANGED <<guard, run>>
  /\ UNCHANGED <<system, ports, launch, codex, spent>>
-----------------------------------------------------------------------------
(* launch_and_inject_with_hooks *)

(* Mutant: the debug port asked for is taken as it is. *)
SelectRequested(l) ==
  /\ at[l] = "select" /\ Go(l, "prepare")
  /\ debug'  = [debug EXCEPT ![l] = Requested]
  /\ helper' = [helper EXCEPT ![l] = IF Windows /\ ~Free(Requested) THEN l ELSE Requested]
  /\ before' = [before EXCEPT ![l] =
                  IF app # None /\ (app.up \/ app.port = None) THEN app.id ELSE 0]
  /\ UNCHANGED <<system, guard, run, launch, codex, spent>>

(* On Windows a port that is taken is replaced by a free one. *)
Select(l) ==
  /\ at[l] = "select" /\ Go(l, "prepare")
  /\ debug'  = [debug EXCEPT ![l] = IF Windows /\ Listening(Requested) THEN l ELSE Requested]
  /\ helper' = [helper EXCEPT ![l] = IF Windows /\ ~Free(Requested) THEN l ELSE Requested]
  /\ before' = [before EXCEPT ![l] =
                  IF app # None /\ (app.up \/ app.port = None) THEN app.id ELSE 0]
  /\ UNCHANGED <<system, guard, run, launch, codex, spent>>

(* Settings, provider sync and the repairs of the configuration. *)
Prepare(l) ==
  /\ at[l] = "prepare"
  /\ \/ Spend("fault") /\ Go(l, "failing") /\ UNCHANGED helper
     \/ /\ Go(l, IF system.enhancements \/ system.proxy THEN "helper" ELSE "look")
        /\ helper' = IF system.proxy THEN [helper EXCEPT ![l] = Requested] ELSE helper
        /\ UNCHANGED spent
  /\ UNCHANGED <<system, guard, debug, before, run, launch, codex>>

StartHelper(l) ==
  /\ at[l] = "helper"
  /\ IF Free(helper[l])
     THEN serving' = [serving EXCEPT ![l] = helper[l]] /\ Go(l, "look")
     ELSE Go(l, "failing") /\ UNCHANGED serving
  /\ UNCHANGED <<system, guard, ports, watching, launch, codex, spent>>

(* The first half of launch_codex: is_macos_app_running. *)
Look(l) ==
  /\ at[l] = "look" /\ Go(l, "launch")
  /\ skip' = [skip EXCEPT ![l] = ~Windows /\ app # None]
  /\ UNCHANGED <<system, guard, ports, run, target, keep, codex, spent>>

Fresh(port) == app' = [id |-> started + 1, port |-> port, up |-> FALSE] /\ started' = started + 1
Launched(port) == IF app = None THEN Fresh(port) ELSE UNCHANGED <<app, started>>

(* The second half. *)
Launch(l) ==
  /\ at[l] = "launch"
  /\ \/ Spend("fault") /\ Go(l, "failing") /\ UNCHANGED <<target, keep, app, started>>
     \/ /\ Launched(debug[l]) /\ target' = [target EXCEPT ![l] = app'.id]
        /\ keep' = [keep EXCEPT ![l] = TRUE]
        /\ Go(l, IF system.enhancements THEN "inject" ELSE "save") /\ UNCHANGED spent
  /\ UNCHANGED <<system, guard, ports, run, skip, page>>

(* ensure_injection, and the start of the watchdog. *)
Inject(l) ==
  /\ at[l] = "inject" /\ Listening(debug[l]) /\ Go(l, "save")
  /\ page' = page \cup {l}
  /\ keep' = [keep EXCEPT ![l] = FALSE] /\ watching' = [watching EXCEPT ![l] = TRUE]
  /\ UNCHANGED <<system, guard, ports, serving, target, skip, app, started, spent>>

(* Every attempt failed, and no watchdog runs for the degraded launch. *)
GiveUp(l) ==
  /\ at[l] = "inject" /\ Go(l, "save")
  /\ UNCHANGED <<system, guard, ports, run, launch, codex, spent>>

TargetGone(l) == app # None => app.id # target[l]

(* save_latest; then the process of the launch is opened, on Windows, to    *)
(* wait for it, and one that has gone is an error.                          *)
Save(l) ==
  /\ at[l] = "save"
  /\ \/ Spend("fault") /\ Go(l, "failing")
     \/ Go(l, IF Windows /\ TargetGone(l) THEN "close" ELSE "wait") /\ UNCHANGED spent
  /\ UNCHANGED <<system, guard, ports, run, launch, codex>>

(* wait_for_codex_exit *)
Wait(l) ==
  /\ at[l] = "wait" /\ TargetGone(l) /\ (Windows => app = None)
  /\ Go(l, "close")
  /\ UNCHANGED <<system, guard, ports, run, launch, codex, spent>>

(* Mutant: a bridge that was installed is taken for one that answers. *)
Installed == page # {}

(* check_and_reinject_bridge: every bridge in the page whose launcher runs   *)
(* answers the health check; one that is installed stays with its process.  *)
Healthy == \E q \in page : at[q] # "gone"
Reinject(l) ==
  /\ watching[l] /\ Listening(debug[l]) /\ ~Healthy
  /\ page' = page \cup {l}
  /\ UNCHANGED <<system, at, guard, ports, run, launch, app, started, spent>>

(* shutdown_helper, which also ends the watchdog. *)
ShutdownHelper(l) ==
  serving' = [serving EXCEPT ![l] = None] /\ watching' = [watching EXCEPT ![l] = FALSE]

Close(l) ==
  /\ at[l] = "close" /\ Go(l, "unlock") /\ ShutdownHelper(l)
  /\ UNCHANGED <<system, guard, ports, launch, codex, spent>>

Fail(l) ==
  /\ at[l] = "failing" /\ ShutdownHelper(l)
  /\ Go(l, IF target[l] # 0 /\ ~keep[l] THEN "terminate" ELSE "unlock")
  /\ UNCHANGED <<system, guard, ports, launch, codex, spent>>

(* terminate_codex: by its process id, or by its name. *)
Terminate(l) ==
  /\ at[l] = "terminate" /\ Go(l, "unlock")
  /\ IF IF Windows THEN TargetGone(l) ELSE skip[l] THEN UNCHANGED codex
     ELSE app' = None /\ page' = {} /\ UNCHANGED started
  /\ UNCHANGED <<system, guard, ports, run, launch, spent>>

(* LoopbackPortGuard's fields are dropped in order: lock file, listener. *)
Unlock(l) ==
  /\ at[l] = "unlock" /\ lock' = None /\ Go(l, "exit")
  /\ UNCHANGED <<system, listener, ports, run, launch, codex, spent>>

Exit(l) ==
  /\ at[l] = "exit" /\ Ended({l}, at)
  /\ UNCHANGED <<system, ports, launch, codex, spent>>
-----------------------------------------------------------------------------
(* activate_existing_codex_app *)

ActivateCodex(l) ==
  /\ at[l] = "activate" /\ Go(l, IF system.enhancements THEN "assist" ELSE "exit")
  /\ \/ Launched(Requested) /\ UNCHANGED spent
     \/ Spend("fault") /\ UNCHANGED <<app, started>>
  /\ UNCHANGED <<system, guard, ports, run, launch, page>>

Assist(l) ==
  /\ at[l] = "assist"
  /\ IF Free(Requested)
     THEN serving' = [serving EXCEPT ![l] = Requested] /\ Go(l, "join")
     ELSE Go(l, "exit") /\ UNCHANGED serving
  /\ UNCHANGED <<system, guard, ports, watching, launch, codex, spent>>

(* The watchdog it starts ends with the process, which has no more to do. *)
Join(l) ==
  /\ at[l] = "join" /\ Go(l, "exit")
  /\ \/ Listening(Requested) /\ page' = page \cup {l}
     \/ UNCHANGED page
  /\ UNCHANGED <<system, guard, ports, run, launch, app, started, spent>>
-----------------------------------------------------------------------------
(* Codex, its user, and what may go wrong. *)

CodexListens ==
  /\ app # None /\ ~app.up /\ app.port # None
  /\ app' = [app EXCEPT !.up = TRUE]
  /\ UNCHANGED <<system, at, guard, ports, run, launch, page, started, spent>>

StartCodex ==
  /\ app = None /\ Spend("user") /\ Fresh(None)
  /\ UNCHANGED <<system, at, guard, ports, run, launch, page>>

QuitCodex ==
  /\ app # None /\ Spend("user")
  /\ app' = None /\ page' = {}
  /\ UNCHANGED <<system, at, guard, ports, run, launch, started>>

ClosePage ==
  /\ page # {} /\ Spend("user")
  /\ page' = {}
  /\ UNCHANGED <<system, at, guard, ports, run, launch, app, started>>

Crash(l) ==
  /\ at[l] \notin {"away", "gone"} /\ Spend("fault") /\ Ended({l}, at)
  /\ UNCHANGED <<system, ports, launch, codex>>

(* The steps of its main task, which runs until it has to wait for Codex. *)
Work(l) ==
  \/ Lock(l) \/ Bind(l) \/ Check(l) \/ Stop(l)
  \/ Select(l) \/ Prepare(l) \/ StartHelper(l) \/ Look(l) \/ Launch(l)
  \/ Inject(l) \/ GiveUp(l) \/ Save(l) \/ Wait(l)
  \/ Close(l) \/ Fail(l) \/ Terminate(l) \/ Unlock(l) \/ Exit(l)
  \/ ActivateCodex(l) \/ Assist(l) \/ Join(l)

Next ==
  \/ \E l \in Launchers : Work(l) \/ Reinject(l) \/ Crash(l)
  \/ CodexListens \/ StartCodex \/ QuitCodex \/ ClosePage

(* A launcher that was started runs on, and its watchdog ticks.  Codex and   *)
(* its user need not do anything.                                           *)
Fairness ==
  \A l \in Launchers : WF_vars(at[l] # "away" /\ Work(l)) /\ WF_vars(Reinject(l))

Spec == Init /\ [][Next]_vars /\ Fairness
-----------------------------------------------------------------------------
(* Properties. *)

Places == {"away", "relock", "bind", "rebind", "check", "stop", "select", "prepare", "helper",
           "look", "launch", "inject", "save", "wait", "close", "failing", "terminate",
           "unlock", "exit", "activate", "assist", "join", "gone"}
Owning == {"bind", "rebind", "select", "prepare", "helper", "look", "launch", "inject",
           "save", "wait", "close", "failing", "terminate", "unlock"}
Ports  == Launchers \cup {Requested}
Maybe(S) == S \cup {None}
Instance == [id : Nat, port : Maybe(Ports), up : BOOLEAN]

TypeOK ==
  /\ system \in System /\ at \in [Launchers -> Places]
  /\ lock \in Maybe(Launchers) /\ listener \in Maybe(Launchers \cup Strangers)
  /\ debug \in [Launchers -> Maybe(Ports)] /\ helper \in [Launchers -> Maybe(Ports)]
  /\ serving \in [Launchers -> Maybe(Ports)] /\ watching \in [Launchers -> BOOLEAN]
  /\ target \in [Launchers -> Nat] /\ before \in [Launchers -> Nat]
  /\ skip \in [Launchers -> BOOLEAN] /\ keep \in [Launchers -> BOOLEAN]
  /\ app \in Maybe(Instance) /\ page \subseteq Launchers /\ started \in Nat
  /\ spent \in [Budgets -> Nat]

(* One launcher at a time gets as far as the ports, though the lock is       *)
(* dropped and taken again around a recovery, and owners are killed.        *)
OneOwner == \A l \in Launchers : at[l] \in Owning <=> lock = l

(* A launcher that has launched Codex, or is about to, has its helper, at    *)
(* the port Codex's configuration names if it goes through the proxy; and   *)
(* no two helpers are at one port.                                          *)
Serving == {"look", "launch", "inject", "save", "wait", "close"}
HelperStands ==
  /\ \A l \in Launchers :
       /\ at[l] \in {"prepare", "helper"} \cup Serving => helper[l] # None
       /\ at[l] \in {"helper"} \cup Serving /\ system.proxy => helper[l] = Requested
       /\ at[l] \in Serving /\ (system.enhancements \/ system.proxy) => serving[l] = helper[l]
  /\ \A l, q \in Launchers : serving[l] = serving[q] /\ serving[l] # None => l = q

(* What a launcher has not come to is not set. *)
Early    == {"away", "relock", "bind", "rebind", "check", "stop", "select"}
Starting == {"prepare", "helper", "look", "launch"}
NothingAhead ==
  \A l \in Launchers :
    /\ debug[l] \in Maybe({l, Requested}) /\ (at[l] \in Early => debug[l] = None)
    /\ at[l] \in Early \cup Starting => target[l] = 0
    /\ app # None /\ app.port = l => debug[l] = l

(* An instance of Codex that ran when a launcher selected its ports is not   *)
(* one that the launcher could inject into on Windows, and is known to have *)
(* run on macOS.                                                            *)
Chosen == Starting \cup {"inject", "save", "failing", "terminate"}
Running(l) == before[l] # 0 /\ app # None /\ app.id = before[l]
RunningIsSpared ==
  /\ app # None => app.id \in 1..started
  /\ \A l \in Launchers :
       /\ before[l] <= started
       /\ at[l] = "terminate" => target[l] # 0 /\ ~keep[l]
       /\ at[l] \in Chosen /\ Running(l) =>
            IF Windows THEN app.port # debug[l] /\ (target[l] # 0 => keep[l])
            ELSE at[l] = "launch" \/ target[l] # 0 => skip[l]

IInv == TypeOK /\ OneOwner /\ HelperStands /\ NothingAhead /\ RunningIsSpared

(* A launch that fails ends no instance of Codex that the user had before    *)
(* the launcher came, though it activates that instance and may have        *)
(* injected into it.                                                        *)
UsersCodexSurvives ==
  [][\A l \in Launchers : Terminate(l) /\ Running(l) => app' = app]_vars

(* However many launchers are started at once, drop the guard again, end     *)
(* each other and activate what the other launches: Codex is started, unless *)
(* something fails.                                                         *)
SomebodyLaunches ==
  (\E l \in Launchers : at[l] # "away") ~> started > 0 \/ spent["fault"] > 0

(* While an owner watches, a bridge answers in the page of its Codex or will *)
(* again: after the page was closed, and after the launcher whose bridge it  *)
(* was has ended.                                                           *)
PageIsServed ==
  \A l \in Launchers :
    watching[l] /\ Listening(debug[l]) ~>
      (\E q \in page : at[q] # "gone") \/ ~watching[l] \/ ~Listening(debug[l])
=============================================================================

---------------------------- MODULE LauncherProofs ----------------------------
(* The inductive invariant of the launchers, for any number of them.  Every *)
(* action has a lemma, whose steps are the parts of the invariant.          *)
EXTENDS Launcher, TLAPS

(* What is launched is an instance, which is new or the one there is. *)
LEMMA LaunchedTyped ==
  ASSUME TypeOK, NEW port \in Maybe(Ports), Launched(port)
  PROVE  app' \in Maybe(Instance) /\ app'.id \in Nat /\ started' \in Nat
<1>1. CASE app = None
  <2>1. started + 1 \in Nat
    BY DEF TypeOK
  <2>2. app' = [id |-> started + 1, port |-> port, up |-> FALSE] /\ started' = started + 1
    BY <1>1 DEF Launched, Fresh
  <2>3. app' \in Instance /\ app'.id \in Nat
    BY <2>1, <2>2 DEF Instance
  <2> QED BY <2>1, <2>2, <2>3 DEF Maybe
<1>2. CASE app # None
  BY <1>2 DEF TypeOK, Launched, Instance, Maybe
<1> QED BY <1>1, <1>2

(* Processes that end, together with one that goes on from a recovery. *)
LEMMA EndedKeeps ==
  ASSUME IInv, NEW S, NEW place \in [Launchers -> Places], Ended(S, place),
         \A l \in Launchers \ S : place[l] = at[l] \/ (at[l] = "stop" /\ place[l] = "relock"),
         UNCHANGED <<system, ports, launch, codex>>, spent' \in [Budgets -> Nat]
  PROVE  IInv'
<1> USE NamesAssumption DEF Ended, ports, launch, codex, IInv
<1>1. TypeOK'
  <2>1. at' \in [Launchers -> Places]
    BY DEF TypeOK, Places
  <2>2. lock' \in Maybe(Launchers) /\ listener' \in Maybe(Launchers \cup Strangers)
    BY DEF TypeOK, Maybe
  <2>3. serving' \in [Launchers -> Maybe(Ports)]
    BY DEF TypeOK, Maybe
  <2>4. watching' \in [Launchers -> BOOLEAN]
    BY DEF TypeOK
  <2> QED BY <2>1, <2>2, <2>3, <2>4 DEF TypeOK
<1>2. OneOwner'
  BY DEF TypeOK, OneOwner, Owning, Places, Maybe
<1>3. HelperStands'
  BY DEF TypeOK, HelperStands, Serving, Places, System
<1>4. NothingAhead'
  BY DEF TypeOK, NothingAhead, Early, Starting, Places, Instance, Maybe
<1>5. RunningIsSpared'
  BY DEF TypeOK, RunningIsSpared, Running, Windows, Chosen, Starting, Places, Instance, Maybe, System
<1> QED BY <1>1, <1>2, <1>3, <1>4, <1>5

(* Taking the lock, or finding it taken. *)
LEMMA LockKeeps ==
  ASSUME IInv, NEW l \in Launchers, Lock(l)
  PROVE  IInv'
<1> USE NamesAssumption, LimitAssumption DEF Lock, Go, guard, ports, run, launch, codex, IInv
<1>1. TypeOK'
  BY DEF TypeOK, Places, Ports, Maybe, Instance, System, Strangers, Budgets
<1>2. OneOwner'
  BY DEF TypeOK, OneOwner, Owning, Places
<1>3. HelperStands'
  BY DEF TypeOK, HelperStands, Serving, Places, System
<1>4. NothingAhead'
  BY DEF TypeOK, NothingAhead, Early, Starting, Places, Instance, Maybe
<1>5. RunningIsSpared'
  BY DEF TypeOK, NothingAhead, RunningIsSpared, Running, Windows, Chosen, Early, Starting, Places, Instance, Maybe, System
<1> QED BY <1>1, <1>2, <1>3, <1>4, <1>5

(* Binding the port: the owner of the lock goes on, or drops it. *)
LEMMA BindKeeps ==
  ASSUME IInv, NEW l \in Launchers, Bind(l)
  PROVE  IInv'
<1> USE NamesAssumption, LimitAssumption DEF Bind, Go, guard, ports, run, launch, codex, IInv
<1>1. TypeOK'
  BY DEF TypeOK, Places, Ports, Maybe, Instance, System, Strangers, Budgets
<1>2. OneOwner'
  BY DEF TypeOK, OneOwner, Owning, Places
<1>3. HelperStands'
  BY DEF TypeOK, HelperStands, Serving, Places, System
<1>4. NothingAhead'
  BY DEF TypeOK, NothingAhead, Early, Starting, Places, Instance, Maybe
<1>5. RunningIsSpared'
  BY DEF TypeOK, NothingAhead, RunningIsSpared, Running, Windows, Chosen, Early, Starting, Places, Instance, Maybe, System
<1> QED BY <1>1, <1>2, <1>3, <1>4, <1>5

(* Looking whether the other launcher hangs. *)
LEMMA CheckKeeps ==
  ASSUME IInv, NEW l \in Launchers, Check(l)
  PROVE  IInv'
<1> USE NamesAssumption, LimitAssumption DEF Check, Listening, Windows, Go, guard, ports, run, launch, codex, IInv
<1>1. TypeOK'
  BY DEF TypeOK, Places, Ports, Maybe, Instance, System, Strangers, Budgets
<1>2. OneOwner'
  BY DEF TypeOK, OneOwner, Owning, Places
<1>3. HelperStands'
  BY DEF TypeOK, HelperStands, Serving, Places, System
<1>4. NothingAhead'
  BY DEF TypeOK, NothingAhead, Early, Starting, Places, Instance, Maybe
<1>5. RunningIsSpared'
  BY DEF TypeOK, NothingAhead, RunningIsSpared, Running, Windows, Chosen, Early, Starting, Places, Instance, Maybe, System
<1> QED BY <1>1, <1>2, <1>3, <1>4, <1>5

(* Killing the other launchers. *)
LEMMA StopKeeps ==
  ASSUME IInv, NEW l \in Launchers, Stop(l)
  PROVE  IInv'
<1>1. at \in [Launchers -> Places] /\ spent \in [Budgets -> Nat]
  BY DEF IInv, TypeOK
<1>2. CASE Windows
  <2> DEFINE S == {q \in Launchers \ {l} : at[q] # "away"} \cup {"stale"}
             place == [at EXCEPT ![l] = "relock"]
  <2>1. place \in [Launchers -> Places]
    BY <1>1 DEF Places
  <2>2. \A q \in Launchers \ S : place[q] = at[q] \/ (at[q] = "stop" /\ place[q] = "relock")
    BY <1>1 DEF Stop
  <2>3. Ended(S, place) /\ UNCHANGED <<system, ports, launch, codex>> /\ spent' \in [Budgets -> Nat]
    BY <1>1, <1>2 DEF Stop
  <2> HIDE DEF S, place
  <2> QED BY <2>1, <2>2, <2>3, EndedKeeps
<1>3. CASE ~Windows
  <2> USE DEF Stop, Go, guard, ports, run, launch, codex, IInv
  <2>1. TypeOK'
    BY <1>3 DEF TypeOK, Places
  <2>2. OneOwner'
    BY <1>3 DEF TypeOK, OneOwner, Owning, Places
  <2>3. HelperStands'
    BY <1>3 DEF TypeOK, HelperStands, Serving, Places
  <2>4. NothingAhead'
    BY <1>3 DEF TypeOK, NothingAhead, Early, Starting, Places
  <2>5. RunningIsSpared'
    BY <1>3 DEF TypeOK, RunningIsSpared, Running, Windows, Chosen, Starting, Places
  <2> QED BY <2>1, <2>2, <2>3, <2>4, <2>5
<1> QED BY <1>2, <1>3

(* Choosing the ports: on Windows the debug port is not the one of an instance that listens. *)
LEMMA SelectKeeps ==
  ASSUME IInv, NEW l \in Launchers, Select(l)
  PROVE  IInv'
<1> USE NamesAssumption, LimitAssumption DEF Select, Listening, Windows, Free, Go, guard, ports, run, launch, codex, IInv
<1>1. TypeOK'
  BY DEF TypeOK, Places, Ports, Maybe, Instance, System, Strangers, Budgets
<1>2. OneOwner'
  BY DEF TypeOK, OneOwner, Owning, Places
<1>3. HelperStands'
  BY DEF TypeOK, HelperStands, Serving, Places, System
<1>4. NothingAhead'
  BY DEF TypeOK, NothingAhead, Early, Starting, Places, Instance, Maybe
<1>5. RunningIsSpared'
  BY DEF TypeOK, NothingAhead, RunningIsSpared, Running, Windows, Chosen, Early, Starting, Places, Instance, Maybe, System
<1> QED BY <1>1, <1>2, <1>3, <1>4, <1>5

(* Preparing, and moving the helper to the proxy's port. *)
LEMMA PrepareKeeps ==
  ASSUME IInv, NEW l \in Launchers, Prepare(l)
  PROVE  IInv'
<1> USE NamesAssumption, LimitAssumption DEF Prepare, Spend, Go, guard, ports, run, launch, codex, IInv
<1>1. TypeOK'
  BY DEF TypeOK, Places, Ports, Maybe, Instance, System, Strangers, Budgets
<1>2. OneOwner'
  BY DEF TypeOK, OneOwner, Owning, Places
<1>3. HelperStands'
  BY DEF TypeOK, HelperStands, Serving, Places, System
<1>4. NothingAhead'
  BY DEF TypeOK, NothingAhead, Early, Starting, Places, Instance, Maybe
<1>5. RunningIsSpared'
  BY DEF TypeOK, NothingAhead, RunningIsSpared, Running, Windows, Chosen, Early, Starting, Places, Instance, Maybe, System
<1> QED BY <1>1, <1>2, <1>3, <1>4, <1>5

(* Starting the helper at a port nobody has. *)
LEMMA StartHelperKeeps ==
  ASSUME IInv, NEW l \in Launchers, StartHelper(l)
  PROVE  IInv'
<1> USE NamesAssumption, LimitAssumption DEF StartHelper, Free, Go, guard, ports, run, launch, codex, IInv
<1>1. TypeOK'
  BY DEF TypeOK, Places, Ports, Maybe, Instance, System, Strangers, Budgets
<1>2. OneOwner'
  BY DEF TypeOK, OneOwner, Owning, Places
<1>3. HelperStands'
  BY DEF TypeOK, HelperStands, Serving, Places, System
<1>4. NothingAhead'
  BY DEF TypeOK, NothingAhead, Early, Starting, Places, Instance, Maybe
<1>5. RunningIsSpared'
  BY DEF TypeOK, NothingAhead, RunningIsSpared, Running, Windows, Chosen, Early, Starting, Places, Instance, Maybe, System
<1> QED BY <1>1, <1>2, <1>3, <1>4, <1>5

(* Seeing whether Codex runs on macOS. *)
LEMMA LookKeeps ==
  ASSUME IInv, NEW l \in Launchers, Look(l)
  PROVE  IInv'
<1> USE NamesAssumption, LimitAssumption DEF Look, Windows, Go, guard, ports, run, launch, codex, IInv
<1>1. TypeOK'
  BY DEF TypeOK, Places, Ports, Maybe, Instance, System, Strangers, Budgets
<1>2. OneOwner'
  BY DEF TypeOK, OneOwner, Owning, Places
<1>3. HelperStands'
  BY DEF TypeOK, HelperStands, Serving, Places, System
<1>4. NothingAhead'
  BY DEF TypeOK, NothingAhead, Early, Starting, Places, Instance, Maybe
<1>5. RunningIsSpared'
  <2>1. skip'[l] = (~Windows /\ app # None) /\ \A q \in Launchers \ {l} : skip'[q] = skip[q]
    BY DEF TypeOK
  <2>2. ASSUME NEW q \in Launchers, (at[q] \in Chosen /\ Running(q))'
        PROVE  IF Windows THEN app.port # debug[q] /\ (target[q] # 0 => keep[q])
               ELSE at'[q] = "launch" \/ target[q] # 0 => skip'[q]
    <3>1. CASE q = l
      <4>1. target[l] = 0
        BY DEF NothingAhead, Starting
      <4>2. at[l] \in Chosen /\ Running(l) /\ app # None
        BY <2>2, <3>1 DEF Chosen, Starting, Running
      <4> QED BY <2>1, <3>1, <4>1, <4>2 DEF RunningIsSpared
    <3>2. CASE q # l
      BY <2>1, <2>2, <3>2 DEF TypeOK, RunningIsSpared, Running
    <3> QED BY <3>1, <3>2
  <2> QED BY <2>2 DEF TypeOK, RunningIsSpared, Windows
<1> QED BY <1>1, <1>2, <1>3, <1>4, <1>5

(* Launching Codex, or activating the instance there is. *)
LEMMA LaunchKeeps ==
  ASSUME IInv, NEW l \in Launchers, Launch(l)
  PROVE  IInv'
<1> USE NamesAssumption, LimitAssumption DEF Launch, Spend, Go, guard, ports, run, launch, codex, IInv
<1>1. TypeOK'
  <2>1. CASE Launched(debug[l])
    <3>1. app' \in Maybe(Instance) /\ app'.id \in Nat /\ started' \in Nat
      BY <2>1, LaunchedTyped DEF TypeOK, Ports, Maybe
    <3>2. at' \in [Launchers -> Places] /\ spent' \in [Budgets -> Nat]
      BY DEF TypeOK, Places, Budgets
    <3>3. target' \in [Launchers -> Nat] /\ keep' \in [Launchers -> BOOLEAN]
      BY <3>1 DEF TypeOK
    <3> QED BY <3>1, <3>2, <3>3 DEF TypeOK
  <2>2. CASE UNCHANGED <<target, keep, app, started>>
    BY <2>2 DEF TypeOK, Places, Budgets
  <2> QED BY <2>1, <2>2
<1> USE DEF Launched, Fresh
<1>2. OneOwner'
  BY DEF TypeOK, OneOwner, Owning, Places
<1>3. HelperStands'
  BY DEF TypeOK, HelperStands, Serving, Places, System
<1>4. NothingAhead'
  BY DEF TypeOK, NothingAhead, Early, Starting, Places, Instance, Maybe
<1>5. RunningIsSpared'
  BY DEF TypeOK, NothingAhead, RunningIsSpared, Running, Windows, Chosen, Early, Starting, Places, Instance, Maybe, System
<1> QED BY <1>1, <1>2, <1>3, <1>4, <1>5

(* Injecting: on Windows not into an instance that ran before. *)
LEMMA InjectKeeps ==
  ASSUME IInv, NEW l \in Launchers, Inject(l)
  PROVE  IInv'
<1> USE NamesAssumption, LimitAssumption DEF Inject, Listening, Go, guard, ports, run, launch, codex, IInv
<1>1. TypeOK'
  BY DEF TypeOK, Places, Ports, Maybe, Instance, System, Strangers, Budgets
<1>2. OneOwner'
  BY DEF TypeOK, OneOwner, Owning, Places
<1>3. HelperStands'
  BY DEF TypeOK, HelperStands, Serving, Places, System
<1>4. NothingAhead'
  BY DEF TypeOK, NothingAhead, Early, Starting, Places, Instance, Maybe
<1>5. RunningIsSpared'
  BY DEF TypeOK, NothingAhead, RunningIsSpared, Running, Windows, Chosen, Early, Starting, Places, Instance, Maybe, System
<1> QED BY <1>1, <1>2, <1>3, <1>4, <1>5

(* Giving up the injection. *)
LEMMA GiveUpKeeps ==
  ASSUME IInv, NEW l \in Launchers, GiveUp(l)
  PROVE  IInv'
<1> USE NamesAssumption, LimitAssumption DEF GiveUp, Go, guard, ports, run, launch, codex, IInv
<1>1. TypeOK'
  BY DEF TypeOK, Places, Ports, Maybe, Instance, System, Strangers, Budgets
<1>2. OneOwner'
  BY DEF TypeOK, OneOwner, Owning, Places
<1>3. HelperStands'
  BY DEF TypeOK, HelperStands, Serving, Places, System
<1>4. NothingAhead'
  BY DEF TypeOK, NothingAhead, Early, Starting, Places, Instance, Maybe
<1>5. RunningIsSpared'
  BY DEF TypeOK, NothingAhead, RunningIsSpared, Running, Windows, Chosen, Early, Starting, Places, Instance, Maybe, System
<1> QED BY <1>1, <1>2, <1>3, <1>4, <1>5

(* Writing the status, or failing to. *)
LEMMA SaveKeeps ==
  ASSUME IInv, NEW l \in Launchers, Save(l)
  PROVE  IInv'
<1> USE NamesAssumption, LimitAssumption DEF Save, Spend, TargetGone, Windows, Go, guard, ports, run, launch, codex, IInv
<1>1. TypeOK'
  BY DEF TypeOK, Places, Ports, Maybe, Instance, System, Strangers, Budgets
<1>2. OneOwner'
  BY DEF TypeOK, OneOwner, Owning, Places
<1>3. HelperStands'
  BY DEF TypeOK, HelperStands, Serving, Places, System
<1>4. NothingAhead'
  BY DEF TypeOK, NothingAhead, Early, Starting, Places, Instance, Maybe
<1>5. RunningIsSpared'
  BY DEF TypeOK, NothingAhead, RunningIsSpared, Running, Windows, Chosen, Early, Starting, Places, Instance, Maybe, System
<1> QED BY <1>1, <1>2, <1>3, <1>4, <1>5

(* Codex has gone. *)
LEMMA WaitKeeps ==
  ASSUME IInv, NEW l \in Launchers, Wait(l)
  PROVE  IInv'
<1> USE NamesAssumption, LimitAssumption DEF Wait, TargetGone, Windows, Go, guard, ports, run, launch, codex, IInv
<1>1. TypeOK'
  BY DEF TypeOK, Places, Ports, Maybe, Instance, System, Strangers, Budgets
<1>2. OneOwner'
  BY DEF TypeOK, OneOwner, Owning, Places
<1>3. HelperStands'
  BY DEF TypeOK, HelperStands, Serving, Places, System
<1>4. NothingAhead'
  BY DEF TypeOK, NothingAhead, Early, Starting, Places, Instance, Maybe
<1>5. RunningIsSpared'
  BY DEF TypeOK, NothingAhead, RunningIsSpared, Running, Windows, Chosen, Early, Starting, Places, Instance, Maybe, System
<1> QED BY <1>1, <1>2, <1>3, <1>4, <1>5

(* The watchdog. *)
LEMMA ReinjectKeeps ==
  ASSUME IInv, NEW l \in Launchers, Reinject(l)
  PROVE  IInv'
<1> USE NamesAssumption, LimitAssumption DEF Reinject, Listening, guard, ports, run, launch, codex, IInv
<1>1. TypeOK'
  BY DEF TypeOK, Places, Ports, Maybe, Instance, System, Strangers, Budgets
<1>2. OneOwner'
  BY DEF TypeOK, OneOwner, Owning, Places
<1>3. HelperStands'
  BY DEF TypeOK, HelperStands, Serving, Places, System
<1>4. NothingAhead'
  BY DEF TypeOK, NothingAhead, Early, Starting, Places, Instance, Maybe
<1>5. RunningIsSpared'
  BY DEF TypeOK, NothingAhead, RunningIsSpared, Running, Windows, Chosen, Early, Starting, Places, Instance, Maybe, System
<1> QED BY <1>1, <1>2, <1>3, <1>4, <1>5

(* Closing the helper. *)
LEMMA CloseKeeps ==
  ASSUME IInv, NEW l \in Launchers, Close(l)
  PROVE  IInv'
<1> USE NamesAssumption, LimitAssumption DEF Close, ShutdownHelper, Go, guard, ports, run, launch, codex, IInv
<1>1. TypeOK'
  BY DEF TypeOK, Places, Ports, Maybe, Instance, System, Strangers, Budgets
<1>2. OneOwner'
  BY DEF TypeOK, OneOwner, Owning, Places
<1>3. HelperStands'
  BY DEF TypeOK, HelperStands, Serving, Places, System
<1>4. NothingAhead'
  BY DEF TypeOK, NothingAhead, Early, Starting, Places, Instance, Maybe
<1>5. RunningIsSpared'
  BY DEF TypeOK, NothingAhead, RunningIsSpared, Running, Windows, Chosen, Early, Starting, Places, Instance, Maybe, System
<1> QED BY <1>1, <1>2, <1>3, <1>4, <1>5

(* A failed launch closes its helper. *)
LEMMA FailKeeps ==
  ASSUME IInv, NEW l \in Launchers, Fail(l)
  PROVE  IInv'
<1> USE NamesAssumption, LimitAssumption DEF Fail, ShutdownHelper, Go, guard, ports, run, launch, codex, IInv
<1>1. TypeOK'
  BY DEF TypeOK, Places, Ports, Maybe, Instance, System, Strangers, Budgets
<1>2. OneOwner'
  BY DEF TypeOK, OneOwner, Owning, Places
<1>3. HelperStands'
  BY DEF TypeOK, HelperStands, Serving, Places, System
<1>4. NothingAhead'
  BY DEF TypeOK, NothingAhead, Early, Starting, Places, Instance, Maybe
<1>5. RunningIsSpared'
  BY DEF TypeOK, NothingAhead, RunningIsSpared, Running, Windows, Chosen, Early, Starting, Places, Instance, Maybe, System
<1> QED BY <1>1, <1>2, <1>3, <1>4, <1>5

(* Ending the Codex of a failed launch. *)
LEMMA TerminateKeeps ==
  ASSUME IInv, NEW l \in Launchers, Terminate(l)
  PROVE  IInv'
<1> USE NamesAssumption, LimitAssumption DEF Terminate, TargetGone, Windows, Go, guard, ports, run, launch, codex, IInv
<1>1. TypeOK'
  BY DEF TypeOK, Places, Ports, Maybe, Instance, System, Strangers, Budgets
<1>2. OneOwner'
  BY DEF TypeOK, OneOwner, Owning, Places
<1>3. HelperStands'
  BY DEF TypeOK, HelperStands, Serving, Places, System
<1>4. NothingAhead'
  BY DEF TypeOK, NothingAhead, Early, Starting, Places, Instance, Maybe
<1>5. RunningIsSpared'
  BY DEF TypeOK, NothingAhead, RunningIsSpared, Running, Windows, Chosen, Early, Starting, Places, Instance, Maybe, System
<1> QED BY <1>1, <1>2, <1>3, <1>4, <1>5

(* Dropping the lock. *)
LEMMA UnlockKeeps ==
  ASSUME IInv, NEW l \in Launchers, Unlock(l)
  PROVE  IInv'
<1> USE NamesAssumption, LimitAssumption DEF Unlock, Go, guard, ports, run, launch, codex, IInv
<1>1. TypeOK'
  BY DEF TypeOK, Places, Ports, Maybe, Instance, System, Strangers, Budgets
<1>2. OneOwner'
  BY DEF TypeOK, OneOwner, Owning, Places
<1>3. HelperStands'
  BY DEF TypeOK, HelperStands, Serving, Places, System
<1>4. NothingAhead'
  BY DEF TypeOK, NothingAhead, Early, Starting, Places, Instance, Maybe
<1>5. RunningIsSpared'
  BY DEF TypeOK, NothingAhead, RunningIsSpared, Running, Windows, Chosen, Early, Starting, Places, Instance, Maybe, System
<1> QED BY <1>1, <1>2, <1>3, <1>4, <1>5

(* The end of the process. *)
LEMMA ExitKeeps ==
  ASSUME IInv, NEW l \in Launchers, Exit(l)
  PROVE  IInv'
<1>1. spent' \in [Budgets -> Nat]
  BY DEF IInv, TypeOK, Exit, Budgets
<1>2. at \in [Launchers -> Places]
  BY DEF IInv, TypeOK
<1> QED BY <1>1, <1>2, EndedKeeps DEF Exit

(* What a second launcher launches. *)
LEMMA ActivateCodexKeeps ==
  ASSUME IInv, NEW l \in Launchers, ActivateCodex(l)
  PROVE  IInv'
<1> USE NamesAssumption, LimitAssumption DEF ActivateCodex, Spend, Go, guard, ports, run, launch, codex, IInv
<1>1. TypeOK'
  <2>1. Launched(Requested) => app' \in Maybe(Instance) /\ started' \in Nat
    BY LaunchedTyped DEF TypeOK, Ports, Maybe
  <2> QED BY <2>1 DEF TypeOK, Places, Budgets
<1> USE DEF Launched, Fresh
<1>2. OneOwner'
  BY DEF TypeOK, OneOwner, Owning, Places
<1>3. HelperStands'
  BY DEF TypeOK, HelperStands, Serving, Places, System
<1>4. NothingAhead'
  BY DEF TypeOK, NothingAhead, Early, Starting, Places, Instance, Maybe
<1>5. RunningIsSpared'
  BY DEF TypeOK, NothingAhead, RunningIsSpared, Running, Windows, Chosen, Early, Starting, Places, Instance, Maybe, System
<1> QED BY <1>1, <1>2, <1>3, <1>4, <1>5

(* The helper of a second launcher. *)
LEMMA AssistKeeps ==
  ASSUME IInv, NEW l \in Launchers, Assist(l)
  PROVE  IInv'
<1> USE NamesAssumption, LimitAssumption DEF Assist, Free, Go, guard, ports, run, launch, codex, IInv
<1>1. TypeOK'
  BY DEF TypeOK, Places, Ports, Maybe, Instance, System, Strangers, Budgets
<1>2. OneOwner'
  BY DEF TypeOK, OneOwner, Owning, Places
<1>3. HelperStands'
  BY DEF TypeOK, HelperStands, Serving, Places, System
<1>4. NothingAhead'
  BY DEF TypeOK, NothingAhead, Early, Starting, Places, Instance, Maybe
<1>5. RunningIsSpared'
  BY DEF TypeOK, NothingAhead, RunningIsSpared, Running, Windows, Chosen, Early, Starting, Places, Instance, Maybe, System
<1> QED BY <1>1, <1>2, <1>3, <1>4, <1>5

(* A second launcher injects. *)
LEMMA JoinKeeps ==
  ASSUME IInv, NEW l \in Launchers, Join(l)
  PROVE  IInv'
<1> USE NamesAssumption, LimitAssumption DEF Join, Listening, Go, guard, ports, run, launch, codex, IInv
<1>1. TypeOK'
  BY DEF TypeOK, Places, Ports, Maybe, Instance, System, Strangers, Budgets
<1>2. OneOwner'
  BY DEF TypeOK, OneOwner, Owning, Places
<1>3. HelperStands'
  BY DEF TypeOK, HelperStands, Serving, Places, System
<1>4. NothingAhead'
  BY DEF TypeOK, NothingAhead, Early, Starting, Places, Instance, Maybe
<1>5. RunningIsSpared'
  BY DEF TypeOK, NothingAhead, RunningIsSpared, Running, Windows, Chosen, Early, Starting, Places, Instance, Maybe, System
<1> QED BY <1>1, <1>2, <1>3, <1>4, <1>5

(* The end of a process at any time. *)
LEMMA CrashKeeps ==
  ASSUME IInv, NEW l \in Launchers, Crash(l)
  PROVE  IInv'
<1>1. spent' \in [Budgets -> Nat]
  BY DEF IInv, TypeOK, Crash, Spend, Budgets
<1>2. at \in [Launchers -> Places]
  BY DEF IInv, TypeOK
<1> QED BY <1>1, <1>2, EndedKeeps DEF Crash

(* Codex opens its debug port. *)
LEMMA CodexListensKeeps ==
  ASSUME IInv, CodexListens
  PROVE  IInv'
<1> USE NamesAssumption, LimitAssumption DEF CodexListens, guard, ports, run, launch, codex, IInv
<1>1. TypeOK'
  BY DEF TypeOK, Places, Ports, Maybe, Instance, System, Strangers, Budgets
<1>2. OneOwner'
  BY DEF TypeOK, OneOwner, Owning, Places
<1>3. HelperStands'
  BY DEF TypeOK, HelperStands, Serving, Places, System
<1>4. NothingAhead'
  BY DEF TypeOK, NothingAhead, Early, Starting, Places, Instance, Maybe
<1>5. RunningIsSpared'
  BY DEF TypeOK, NothingAhead, RunningIsSpared, Running, Windows, Chosen, Early, Starting, Places, Instance, Maybe, System
<1> QED BY <1>1, <1>2, <1>3, <1>4, <1>5

(* The user starts Codex. *)
LEMMA StartCodexKeeps ==
  ASSUME IInv, StartCodex
  PROVE  IInv'
<1> USE NamesAssumption, LimitAssumption DEF StartCodex, Fresh, Spend, guard, ports, run, launch, codex, IInv
<1>1. TypeOK'
  BY DEF TypeOK, Places, Ports, Maybe, Instance, System, Strangers, Budgets
<1>2. OneOwner'
  BY DEF TypeOK, OneOwner, Owning, Places
<1>3. HelperStands'
  BY DEF TypeOK, HelperStands, Serving, Places, System
<1>4. NothingAhead'
  BY DEF TypeOK, NothingAhead, Early, Starting, Places, Instance, Maybe
<1>5. RunningIsSpared'
  BY DEF TypeOK, NothingAhead, RunningIsSpared, Running, Windows, Chosen, Early, Starting, Places, Instance, Maybe, System
<1> QED BY <1>1, <1>2, <1>3, <1>4, <1>5

(* The user quits Codex. *)
LEMMA QuitCodexKeeps ==
  ASSUME IInv, QuitCodex
  PROVE  IInv'
<1> USE NamesAssumption, LimitAssumption DEF QuitCodex, Spend, guard, ports, run, launch, codex, IInv
<1>1. TypeOK'
  BY DEF TypeOK, Places, Ports, Maybe, Instance, System, Strangers, Budgets
<1>2. OneOwner'
  BY DEF TypeOK, OneOwner, Owning, Places
<1>3. HelperStands'
  BY DEF TypeOK, HelperStands, Serving, Places, System
<1>4. NothingAhead'
  BY DEF TypeOK, NothingAhead, Early, Starting, Places, Instance, Maybe
<1>5. RunningIsSpared'
  BY DEF TypeOK, NothingAhead, RunningIsSpared, Running, Windows, Chosen, Early, Starting, Places, Instance, Maybe, System
<1> QED BY <1>1, <1>2, <1>3, <1>4, <1>5

(* The user closes the page. *)
LEMMA ClosePageKeeps ==
  ASSUME IInv, ClosePage
  PROVE  IInv'
<1> USE NamesAssumption, LimitAssumption DEF ClosePage, Spend, guard, ports, run, launch, codex, IInv
<1>1. TypeOK'
  BY DEF TypeOK, Places, Ports, Maybe, Instance, System, Strangers, Budgets
<1>2. OneOwner'
  BY DEF TypeOK, OneOwner, Owning, Places
<1>3. HelperStands'
  BY DEF TypeOK, HelperStands, Serving, Places, System
<1>4. NothingAhead'
  BY DEF TypeOK, NothingAhead, Early, Starting, Places, Instance, Maybe
<1>5. RunningIsSpared'
  BY DEF TypeOK, NothingAhead, RunningIsSpared, Running, Windows, Chosen, Early, Starting, Places, Instance, Maybe, System
<1> QED BY <1>1, <1>2, <1>3, <1>4, <1>5

(* Every step keeps the invariant. *)
LEMMA NextKeeps ==
  ASSUME IInv, [Next]_vars
  PROVE  IInv'
<1>1. CASE Next
  <2>1. ASSUME NEW l \in Launchers, Work(l)
        PROVE  IInv'
    BY <2>1, LockKeeps, BindKeeps, CheckKeeps, StopKeeps, SelectKeeps, PrepareKeeps,
       StartHelperKeeps, LookKeeps, LaunchKeeps, InjectKeeps, GiveUpKeeps, SaveKeeps, WaitKeeps,
       CloseKeeps, FailKeeps, TerminateKeeps, UnlockKeeps, ExitKeeps, ActivateCodexKeeps,
       AssistKeeps, JoinKeeps DEF Work
  <2>2. ASSUME NEW l \in Launchers, Reinject(l) \/ Crash(l)
        PROVE  IInv'
    BY <2>2, ReinjectKeeps, CrashKeeps
  <2>3. CASE CodexListens \/ StartCodex \/ QuitCodex \/ ClosePage
    BY <2>3, CodexListensKeeps, StartCodexKeeps, QuitCodexKeeps, ClosePageKeeps
  <2> QED BY <1>1, <2>1, <2>2, <2>3 DEF Next
<1>2. CASE UNCHANGED vars
  BY <1>2 DEF vars, guard, ports, run, launch, codex, IInv, TypeOK, OneOwner, HelperStands,
              NothingAhead, RunningIsSpared, Running, Windows
<1> QED BY <1>1, <1>2

(* The initial states. *)
LEMMA InitHolds ==
  ASSUME Init
  PROVE  IInv
<1> USE NamesAssumption, SystemAssumption, OccupantAssumption DEF Init
<1>1. TypeOK
  BY DEF TypeOK, Places, Maybe, Ports, Budgets, Strangers
<1>2. OneOwner
  BY DEF OneOwner, Owning
<1>3. HelperStands
  BY DEF HelperStands, Serving
<1>4. NothingAhead
  BY DEF NothingAhead, Early, Starting, Maybe
<1>5. RunningIsSpared
  BY DEF RunningIsSpared, Chosen, Starting
<1> QED BY <1>1, <1>2, <1>3, <1>4, <1>5 DEF IInv

(* For any number of launchers: one owner, whose helper stands, and an      *)
(* instance of Codex that ran before is known for one.                      *)
THEOREM Invariance == Spec => []IInv
<1>1. Init => IInv
  BY InitHolds
<1>2. IInv /\ [Next]_vars => IInv'
  BY NextKeeps
<1> QED BY <1>1, <1>2, PTL DEF Spec

(* No two launchers are past the guard at a time. *)
Exclusion == \A l, q \in Launchers : at[l] \in Owning /\ at[q] \in Owning => l = q
THEOREM SingleInstance == Spec => []Exclusion
<1>1. IInv => Exclusion
  BY DEF IInv, OneOwner, Exclusion
<1> QED BY <1>1, Invariance, PTL

(* A failed launch ends no instance of Codex that ran before it. *)
THEOREM CodexSurvives == Spec => UsersCodexSurvives
<1>1. IInv /\ [Next]_vars =>
        [\A l \in Launchers : Terminate(l) /\ Running(l) => app' = app]_vars
  <2>1. ASSUME IInv, NEW l \in Launchers, Terminate(l), Running(l)
        PROVE  app' = app
    <3>1. CASE Windows
      BY <2>1, <3>1 DEF IInv, RunningIsSpared, Chosen, Terminate
    <3>2. CASE ~Windows
      <4>1. skip[l]
        BY <2>1, <3>2 DEF IInv, RunningIsSpared, Chosen, Terminate
      <4> QED BY <2>1, <3>2, <4>1 DEF Terminate, codex
    <3> QED BY <3>1, <3>2
  <2> QED BY <2>1
<1> QED BY <1>1, Invariance, PTL DEF Spec, UsersCodexSurvives
===============================================================================

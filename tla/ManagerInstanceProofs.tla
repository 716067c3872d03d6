------------------------ MODULE ManagerInstanceProofs ------------------------
(* The inductive invariant of the manager instances and the pending import, *)
(* for any number of processes and links.                                   *)
EXTENDS ManagerInstance, SequenceTheorems, TLAPS

(* Spending and beginning. *)
LEMMA SpendTyped ==
  ASSUME TypeOK, NEW b \in Budgets, Spend(b)
  PROVE  spent' \in [Budgets -> Nat]
BY DEF TypeOK, HistoryTyped, Spend

(* What the window asks is a request of its kind for its link. *)
LEMMA RequestTyped ==
  ASSUME NEW o \in Operations, NEW n \in Nat, NEW link \in Maybe(Links), NEW r \in Revisions
  PROVE  /\ Request(o, n, link, r) \in Requests
         /\ Request(o, n, link, r).kind = o /\ Request(o, n, link, r).link = link
BY DEF Request, Requests

(* What the worker answers is a reply. *)
LEMMA AnswerTyped ==
  ASSUME NEW q \in Requests, NEW ok \in BOOLEAN, NEW link \in Maybe(Links), NEW r \in Revisions
  PROVE  Answer(q, ok, link, r) \in Replies
BY DEF Answer, Requests, Replies

(* No link and no revision are values of their variables. *)
LEMMA Nothing == None \in Maybe(Links) /\ None \in Revisions
BY DEF Maybe, Revisions

(* A queue of a process that gets one more element. *)
LEMMA AppendTyped ==
  ASSUME NEW S, NEW f \in [Procs -> Seq(S)], NEW p \in Procs, NEW e \in S
  PROVE  /\ [f EXCEPT ![p] = Append(@, e)] \in [Procs -> Seq(S)]
         /\ \A i \in DOMAIN Append(f[p], e) :
              (i \in DOMAIN f[p] /\ Append(f[p], e)[i] = f[p][i]) \/ Append(f[p], e)[i] = e
<1>1. f[p] \in Seq(S)
  OBVIOUS
<1>2. Append(f[p], e) \in Seq(S)
  BY <1>1
<1>3. \A i \in DOMAIN Append(f[p], e) :
              (i \in DOMAIN f[p] /\ Append(f[p], e)[i] = f[p][i]) \/ Append(f[p], e)[i] = e
  BY <1>1
<1> QED BY <1>2, <1>3

(* A request that begins keeps the types of the window and of the lane. *)
LEMMA BeginTyped ==
  ASSUME TypeOK, NEW p \in Procs, NEW o \in Operations, NEW link \in Maybe(Links),
         NEW r \in Revisions, Begin(p, o, link, r)
  PROVE  /\ op' \in [Procs -> [Operations -> [id : Nat, running : BOOLEAN]]]
         /\ lane' \in [Procs -> Seq(Requests)]
<1>1. op[p] \in [Operations -> [id : Nat, running : BOOLEAN]]
  BY DEF TypeOK, ViewTyped
<1>2. Begun(p, o) \in [id : Nat, running : BOOLEAN] /\ Begun(p, o).id \in Nat
  BY <1>1 DEF Begun
<1>3. op' \in [Procs -> [Operations -> [id : Nat, running : BOOLEAN]]]
  BY <1>1, <1>2 DEF Begin, TypeOK, ViewTyped
<1>4. Request(o, Begun(p, o).id, link, r) \in Requests
  BY <1>2, RequestTyped
<1>5. lane' \in [Procs -> Seq(Requests)]
  BY <1>4, AppendTyped DEF Begin, TypeOK, ViewTyped
<1> QED BY <1>3, <1>5

(* An answer keeps the type of the answers, if the window takes it or not. *)
LEMMA AnsweredTyped ==
  ASSUME TypeOK, NEW p \in Procs, NEW q \in Requests, NEW ok \in BOOLEAN,
         NEW link \in Maybe(Links), NEW r \in Revisions, Answered(p, Answer(q, ok, link, r))
  PROVE  answers' \in [Procs -> Seq(Replies)]
<1> DEFINE e == Answer(q, ok, link, r)
<1>1. e \in Replies
  BY AnswerTyped
<1> HIDE DEF e
<1>2. [answers EXCEPT ![p] = Append(@, e)] \in [Procs -> Seq(Replies)]
  BY <1>1, AppendTyped DEF TypeOK, ViewTyped
<1> QED BY <1>2 DEF Answered, e, TypeOK, ViewTyped

(* A queue of a process that loses its first element. *)
LEMMA TailTyped ==
  ASSUME NEW S, NEW f \in [Procs -> Seq(S)], NEW p \in Procs, f[p] # <<>>
  PROVE  /\ [f EXCEPT ![p] = Tail(@)] \in [Procs -> Seq(S)]
         /\ Head(f[p]) \in S /\ 1 \in DOMAIN f[p] /\ Head(f[p]) = f[p][1]
         /\ \A i \in DOMAIN Tail(f[p]) : i + 1 \in DOMAIN f[p] /\ Tail(f[p])[i] = f[p][i + 1]
<1>1. f[p] \in Seq(S)
  OBVIOUS
<1>2. /\ Head(f[p]) \in S /\ Tail(f[p]) \in Seq(S) /\ Len(Tail(f[p])) = Len(f[p]) - 1
      /\ \A i \in 1..Len(Tail(f[p])) : Tail(f[p])[i] = f[p][i + 1]
  BY <1>1, HeadTailProperties
<1>3. Len(f[p]) \in Nat \ {0} /\ DOMAIN f[p] = 1..Len(f[p])
      /\ DOMAIN Tail(f[p]) = 1..Len(Tail(f[p]))
  BY <1>1, <1>2, EmptySeq, LenProperties
<1> QED BY <1>2, <1>3

(* The types are kept when the window closes. *)
LEMMA ClosedTyped ==
  ASSUME TypeOK, NEW p \in Procs, WindowCloses(p)
  PROVE  /\ events' \in [Procs -> Seq(Actions)] /\ answers' \in [Procs -> Seq(Replies)]
         /\ shown' \in [Procs -> Maybe(Links)] /\ known' \in [Procs -> Revisions]
         /\ op' \in [Procs -> [Operations -> [id : Nat, running : BOOLEAN]]]
BY Nothing, EmptySeq DEF TypeOK, ViewTyped, WindowCloses, Idle

(* The types are kept when the process ends. *)
LEMMA EndedTyped ==
  ASSUME TypeOK, NEW p \in Procs, Ended(p), UNCHANGED <<action, record, pending, settings>>
  PROVE  HostTyped' /\ FilesTyped' /\ ViewTyped'
<1>1. HostTyped'
  BY EmptySeq DEF TypeOK, HostTyped, Ended, Go, Places, Maybe
<1>2. FilesTyped'
  BY DEF TypeOK, FilesTyped, Ended, Maybe
<1>3. ViewTyped'
  BY ClosedTyped, EmptySeq DEF TypeOK, ViewTyped, Ended
<1> QED BY <1>1, <1>2, <1>3

-----------------------------------------------------------------------------
(* The types, one lemma per action. *)

LEMMA PrepareTyped ==
  ASSUME TypeOK, HolderConfirms, NEW p \in Procs, Prepare(p)
  PROVE  TypeOK'
<1>1. spent' \in [Budgets -> Nat]
  BY SpendTyped DEF Prepare, Budgets, TypeOK, HistoryTyped
<1>2. pending' \in Maybe(Links)
  BY ArgAssumption DEF Prepare, Maybe, TypeOK, FilesTyped
<1>3. action' \in [Procs -> Actions]
  BY DEF Prepare, Actions, TypeOK, HostTyped
<1> QED BY <1>1, <1>2, <1>3 DEF Prepare, Go, Places, TypeOK, HostTyped, FilesTyped, ViewTyped, HistoryTyped, host, files, view

LEMMA TryLockTyped ==
  ASSUME TypeOK, HolderConfirms, NEW p \in Procs, TryLock(p)
  PROVE  TypeOK'
BY DEF TryLock, Go, Places, Maybe, TypeOK, HostTyped, FilesTyped, ViewTyped, HistoryTyped, host, files, view

LEMMA ClearRecordTyped ==
  ASSUME TypeOK, HolderConfirms, NEW p \in Procs, ClearRecord(p)
  PROVE  TypeOK'
BY DEF ClearRecord, Go, Places, Maybe, TypeOK, HostTyped, FilesTyped, ViewTyped, HistoryTyped, host, files, view

LEMMA ShutdownTyped ==
  ASSUME TypeOK, HolderConfirms, NEW p \in Procs, Shutdown(p)
  PROVE  TypeOK'
BY DEF Shutdown, Go, Places, Maybe, TypeOK, HostTyped, FilesTyped, ViewTyped, HistoryTyped, host, files, view

LEMMA UnlockTyped ==
  ASSUME TypeOK, HolderConfirms, NEW p \in Procs, Unlock(p)
  PROVE  TypeOK'
BY DEF Unlock, Go, Places, Maybe, TypeOK, HostTyped, FilesTyped, ViewTyped, HistoryTyped, host, files, view

LEMMA PublishTyped ==
  ASSUME TypeOK, HolderConfirms, NEW p \in Procs, Publish(p)
  PROVE  TypeOK'
BY DEF Publish, Go, Places, Maybe, Addresses, Records, TypeOK, HostTyped, FilesTyped, ViewTyped, HistoryTyped, host, files, view

LEMMA FindOwnerTyped ==
  ASSUME TypeOK, HolderConfirms, NEW p \in Procs, FindOwner(p)
  PROVE  TypeOK'
BY DEF FindOwner, OwnerAnswers, Go, Places, Maybe, TypeOK, HostTyped, FilesTyped, ViewTyped, HistoryTyped, host, files, view

LEMMA SendTyped ==
  ASSUME TypeOK, HolderConfirms, NEW p \in Procs, Send(p)
  PROVE  TypeOK'
<1> DEFINE e == [nonce |-> client[p].nonce, action |-> action[p]]
<1>1. client[p] \in Records
  BY DEF Send, Maybe, TypeOK, HostTyped
<1>2. e \in Frames
  BY <1>1 DEF Records, Frames, TypeOK, HostTyped
<1> HIDE DEF e
<1>3. \A q \in Procs : [backlog EXCEPT ![q] = Append(@, e)] \in [Procs -> Seq(Frames)]
  BY <1>2, AppendTyped DEF TypeOK, HostTyped
<1>4. backlog' \in [Procs -> Seq(Frames)]
  BY <1>3 DEF Send, e, TypeOK, HostTyped
<1> QED BY <1>4 DEF Send, Go, Places, Maybe, TypeOK, HostTyped, FilesTyped, ViewTyped, HistoryTyped, host, files, view

LEMMA ExitTyped ==
  ASSUME TypeOK, HolderConfirms, NEW p \in Procs, Exit(p)
  PROVE  TypeOK'
BY EndedTyped, SpendTyped DEF Exit, TypeOK, HistoryTyped, Budgets

LEMMA TimesOutTyped ==
  ASSUME TypeOK, HolderConfirms, NEW p \in Procs, TimesOut(p)
  PROVE  TypeOK'
BY EndedTyped, SpendTyped DEF TimesOut, TypeOK, HistoryTyped, Budgets

LEMMA InitFailsTyped ==
  ASSUME TypeOK, HolderConfirms, NEW p \in Procs, InitFails(p)
  PROVE  TypeOK'
BY EndedTyped, SpendTyped DEF InitFails, TypeOK, HistoryTyped, Budgets

LEMMA CrashTyped ==
  ASSUME TypeOK, HolderConfirms, NEW p \in Procs, Crash(p)
  PROVE  TypeOK'
BY EndedTyped, SpendTyped DEF Crash, TypeOK, HistoryTyped, Budgets

LEMMA StartAppTyped ==
  ASSUME TypeOK, HolderConfirms, NEW p \in Procs, StartApp(p)
  PROVE  TypeOK'
<1>1. op' \in [Procs -> [Operations -> [id : Nat, running : BOOLEAN]]] /\ lane' \in [Procs -> Seq(Requests)]
  BY BeginTyped, Nothing DEF StartApp, LoadPendingImport, Operations
<1>2. action[p] \in Actions
  BY DEF TypeOK, HostTyped
<1>3. events' \in [Procs -> Seq(Actions)]
  BY <1>2 DEF StartApp, TypeOK, ViewTyped
<1>4. known' \in [Procs -> Revisions]
  BY DEF StartApp, Revisions, Maybe, TypeOK, ViewTyped, FilesTyped
<1> QED BY <1>1, <1>3, <1>4 DEF StartApp, Go, Places, TypeOK, HostTyped, FilesTyped, ViewTyped, HistoryTyped, host, files, view

LEMMA AcceptTyped ==
  ASSUME TypeOK, HolderConfirms, NEW p \in Procs, Accept(p)
  PROVE  TypeOK'
<1>1. /\ backlog' \in [Procs -> Seq(Frames)] /\ Head(backlog[p]) \in Frames
  BY TailTyped DEF Accept, TypeOK, HostTyped
<1>2. Head(backlog[p]).action \in Actions
  BY <1>1 DEF Frames
<1>3. events' \in [Procs -> Seq(Actions)]
  <2> DEFINE e == Head(backlog[p]).action
  <2>1. [events EXCEPT ![p] = Append(@, e)] \in [Procs -> Seq(Actions)]
    BY <1>2, AppendTyped DEF TypeOK, ViewTyped
  <2> QED BY <2>1 DEF Accept, TypeOK, ViewTyped
<1>4. HistoryTyped'
  BY SpendTyped DEF Accept, TypeOK, HistoryTyped, Budgets
<1> QED BY <1>1, <1>3, <1>4 DEF Accept, TypeOK, HostTyped, FilesTyped, ViewTyped, host, files, view

LEMMA ReduceEventTyped ==
  ASSUME TypeOK, HolderConfirms, NEW p \in Procs, ReduceEvent(p)
  PROVE  TypeOK'
<1>1. events' \in [Procs -> Seq(Actions)]
  BY TailTyped DEF ReduceEvent, TypeOK, ViewTyped
<1>2. op' \in [Procs -> [Operations -> [id : Nat, running : BOOLEAN]]] /\ lane' \in [Procs -> Seq(Requests)]
  BY BeginTyped, Nothing DEF ReduceEvent, LoadPendingImport, Operations, TypeOK, ViewTyped
<1> QED BY <1>1, <1>2 DEF ReduceEvent, TypeOK, HostTyped, FilesTyped, ViewTyped, HistoryTyped, host, files, view

LEMMA ReduceAnswerTyped ==
  ASSUME TypeOK, HolderConfirms, NEW p \in Procs, ReduceAnswer(p)
  PROVE  TypeOK'
<1> DEFINE Opers == [Operations -> [id : Nat, running : BOOLEAN]]
<1>1. /\ answers' \in [Procs -> Seq(Replies)] /\ Head(answers[p]) \in Replies
  BY TailTyped DEF ReduceAnswer, TypeOK, ViewTyped
<1> DEFINE a == Head(answers[p])
<1>2. /\ a.kind \in Operations /\ a.ok \in BOOLEAN
      /\ a.link \in Maybe(Links) /\ a.known \in Revisions
  BY <1>1 DEF Replies
<1>3. shown' \in [Procs -> Maybe(Links)] /\ known' \in [Procs -> Revisions]
  BY <1>2 DEF ReduceAnswer, TypeOK, ViewTyped
<1>4. op[p] \in Opers /\ \A o \in Operations : Done(p, o) \in Opers
  <2>1. op[p] \in Opers
    BY DEF TypeOK, ViewTyped
  <2>2. \A o \in Operations : op[p][o] \in [id : Nat, running : BOOLEAN]
    BY <2>1
  <2>3. \A o \in Operations : [op[p][o] EXCEPT !.running = FALSE] \in [id : Nat, running : BOOLEAN]
    BY <2>2
  <2> QED BY <2>1, <2>3 DEF Done
<1>5. \A f \in Opers : [f EXCEPT !["confirm"] = Idle] \in Opers
                      /\ [f EXCEPT !["confirm"] = Idle, !["dismiss"] = Idle] \in Opers
  BY DEF Idle
<1>6. "load" \in Operations /\ "dismiss" \in Operations
  BY DEF Operations
<1>7. CASE a.id # op[p][a.kind].id
  BY <1>1, <1>3, <1>7 DEF ReduceAnswer, TypeOK, HostTyped, FilesTyped, ViewTyped, HistoryTyped, host, files, view
<1>8. CASE a.id = op[p][a.kind].id
  <2> DEFINE new == IF ~a.ok \/ a.kind = "confirm" THEN Done(p, a.kind)
                    ELSE IF a.kind = "load"
                         THEN [Done(p, "load") EXCEPT !["confirm"] = Idle, !["dismiss"] = Idle]
                         ELSE [Done(p, "dismiss") EXCEPT !["confirm"] = Idle]
  <2>1. new \in Opers
    BY <1>2, <1>4, <1>5, <1>6
  <2>2. op' = [op EXCEPT ![p] = new]
    BY <1>8 DEF ReduceAnswer
  <2>3. op' \in [Procs -> Opers]
    BY <2>1, <2>2 DEF TypeOK, ViewTyped
  <2> QED BY <1>1, <1>3, <2>3 DEF ReduceAnswer, TypeOK, HostTyped, FilesTyped, ViewTyped, HistoryTyped, host, files, view
<1> QED BY <1>7, <1>8

LEMMA FocusTyped ==
  ASSUME TypeOK, HolderConfirms, NEW p \in Procs, Focus(p)
  PROVE  TypeOK'
<1>1. op' \in [Procs -> [Operations -> [id : Nat, running : BOOLEAN]]] /\ lane' \in [Procs -> Seq(Requests)]
  BY BeginTyped, Nothing DEF Focus, LoadPendingImport, Operations
<1>2. spent' \in [Budgets -> Nat]
  BY SpendTyped DEF Focus, Budgets
<1> QED BY <1>1, <1>2 DEF Focus, TypeOK, HostTyped, FilesTyped, ViewTyped, HistoryTyped, host, files, view

LEMMA LoadProvidersTyped ==
  ASSUME TypeOK, HolderConfirms, NEW p \in Procs, LoadProviders(p)
  PROVE  TypeOK'
BY DEF LoadProviders, Revisions, Maybe, TypeOK, HostTyped, FilesTyped, ViewTyped, HistoryTyped, host, files, view

LEMMA ConfirmPendingImportTyped ==
  ASSUME TypeOK, HolderConfirms, NEW p \in Procs, ConfirmPendingImport(p)
  PROVE  TypeOK'
<1>1. shown[p] \in Links /\ shown[p] \in Maybe(Links) /\ known[p] \in Revisions
  BY DEF ConfirmPendingImport, TypeOK, ViewTyped, Maybe
<1>2. op' \in [Procs -> [Operations -> [id : Nat, running : BOOLEAN]]] /\ lane' \in [Procs -> Seq(Requests)]
  BY <1>1, BeginTyped, Nothing DEF ConfirmPendingImport, Operations
<1>3. HistoryTyped'
  BY <1>1, SpendTyped DEF ConfirmPendingImport, Budgets, TypeOK, HistoryTyped
<1> QED BY <1>2, <1>3 DEF ConfirmPendingImport, TypeOK, HostTyped, FilesTyped, ViewTyped, host, files, view

LEMMA DismissPendingImportTyped ==
  ASSUME TypeOK, HolderConfirms, NEW p \in Procs, DismissPendingImport(p)
  PROVE  TypeOK'
<1>1. shown[p] \in Links /\ shown[p] \in Maybe(Links) /\ known[p] \in Revisions
  BY DEF DismissPendingImport, TypeOK, ViewTyped, Maybe
<1>2. op' \in [Procs -> [Operations -> [id : Nat, running : BOOLEAN]]] /\ lane' \in [Procs -> Seq(Requests)]
  BY <1>1, BeginTyped, Nothing DEF DismissPendingImport, Operations
<1>3. HistoryTyped'
  BY <1>1, SpendTyped DEF DismissPendingImport, Budgets, TypeOK, HistoryTyped
<1> QED BY <1>2, <1>3 DEF DismissPendingImport, TypeOK, HostTyped, FilesTyped, ViewTyped, host, files, view

LEMMA ServeLoadTyped ==
  ASSUME TypeOK, HolderConfirms, NEW p \in Procs, ServeLoad(p)
  PROVE  TypeOK'
<1> PICK n \in DOMAIN lane[p] :
       /\ lane' = [lane EXCEPT ![p] = SubSeq(@, n + 1, Len(@))]
       /\ \/ /\ Answered(p, Answer(lane[p][n], TRUE, pending, None))
             /\ UNCHANGED <<missed, spent>>
          \/ /\ Spend("event") /\ missed' = TRUE
             /\ Answered(p, Answer(lane[p][n], FALSE, None, None))
  BY DEF ServeLoad
<1>1. lane[p] \in Seq(Requests) /\ lane[p][n] \in Requests /\ n \in 1..Len(lane[p])
  BY ElementOfSeq, LenProperties DEF TypeOK, ViewTyped
<1>2. SubSeq(lane[p], n + 1, Len(lane[p])) \in Seq(Requests)
  BY <1>1, ElementOfSeq, LenProperties, SubSeqProperties
<1>3. lane' \in [Procs -> Seq(Requests)]
  BY <1>2 DEF TypeOK, ViewTyped
<1>4. answers' \in [Procs -> Seq(Replies)]
  BY <1>1, AnsweredTyped, Nothing DEF TypeOK, FilesTyped
<1>5. HistoryTyped'
  BY SpendTyped DEF ServeLoad, TypeOK, HistoryTyped, Budgets
<1> QED BY <1>3, <1>4, <1>5 DEF ServeLoad, TypeOK, HostTyped, FilesTyped, ViewTyped, host, files, view

LEMMA ServeConfirmTyped ==
  ASSUME TypeOK, HolderConfirms, NEW p \in Procs, ServeConfirm(p)
  PROVE  TypeOK'
<1>1. /\ Head(lane[p]) \in Requests
      /\ [lane EXCEPT ![p] = Tail(@)] \in [Procs -> Seq(Requests)]
  BY TailTyped DEF ServeConfirm, Turn, TypeOK, ViewTyped
<1> DEFINE q == Head(lane[p])
<1>2. CASE Importable(q) /\ settings' = Imported(pending) /\ holder' = p
           /\ UNCHANGED <<lane, answers, spent>>
  <2>1. pending \in Links
    BY <1>2 DEF Importable, TypeOK, FilesTyped, Maybe
  <2>2. Imported(pending) \in Seq(Links)
    BY <2>1 DEF Imported, TypeOK, FilesTyped
  <2> QED BY <1>2, <2>2 DEF ServeConfirm, Maybe, TypeOK, HostTyped, FilesTyped, ViewTyped, HistoryTyped, host, files, view
<1>3. CASE /\ IF Importable(q) THEN Spend("event") ELSE UNCHANGED spent
           /\ Answered(p, Answer(q, FALSE, None, None)) /\ Served(p)
           /\ UNCHANGED <<settings, holder>>
  <2>1. answers' \in [Procs -> Seq(Replies)]
    BY <1>1, <1>3, AnsweredTyped, Nothing
  <2>2. spent' \in [Budgets -> Nat]
    BY <1>3, SpendTyped DEF Budgets, TypeOK, HistoryTyped
  <2> QED BY <1>1, <1>3, <2>1, <2>2 DEF ServeConfirm, Served, TypeOK, HostTyped, FilesTyped, ViewTyped, HistoryTyped, host, files, view
<1> QED BY <1>2, <1>3 DEF ServeConfirm

LEMMA ClearPendingTyped ==
  ASSUME TypeOK, HolderConfirms, NEW p \in Procs, ClearPending(p)
  PROVE  TypeOK'
<1>1. /\ Head(lane[p]) \in Requests
      /\ [lane EXCEPT ![p] = Tail(@)] \in [Procs -> Seq(Requests)]
  BY NamesAssumption, TailTyped DEF ClearPending, HolderConfirms, TypeOK, ViewTyped
<1>2. settings \in Revisions
  BY DEF Revisions, Maybe, TypeOK, FilesTyped
<1>3. answers' \in [Procs -> Seq(Replies)]
  BY <1>1, <1>2, AnsweredTyped, Nothing DEF ClearPending
<1>4. HistoryTyped'
  BY SpendTyped DEF ClearPending, Clear, Budgets, TypeOK, HistoryTyped
<1>5. FilesTyped'
  BY DEF ClearPending, Clear, Maybe, TypeOK, FilesTyped
<1> QED BY <1>1, <1>3, <1>4, <1>5 DEF ClearPending, Served, TypeOK, HostTyped, ViewTyped, host, files, view

LEMMA ServeDismissTyped ==
  ASSUME TypeOK, HolderConfirms, NEW p \in Procs, ServeDismiss(p)
  PROVE  TypeOK'
<1>1. /\ Head(lane[p]) \in Requests
      /\ [lane EXCEPT ![p] = Tail(@)] \in [Procs -> Seq(Requests)]
  BY TailTyped DEF ServeDismiss, Turn, TypeOK, ViewTyped
<1>2. answers' \in [Procs -> Seq(Replies)]
  BY <1>1, AnsweredTyped, Nothing DEF ServeDismiss
<1>3. HistoryTyped'
  BY SpendTyped DEF ServeDismiss, Clear, Budgets, TypeOK, HistoryTyped
<1>4. FilesTyped'
  BY DEF ServeDismiss, Clear, Maybe, TypeOK, FilesTyped
<1> QED BY <1>1, <1>2, <1>3, <1>4 DEF ServeDismiss, Served, TypeOK, HostTyped, ViewTyped, host, files, view

LEMMA QuitTyped ==
  ASSUME TypeOK, HolderConfirms, NEW p \in Procs, Quit(p)
  PROVE  TypeOK'
<1>1. ViewTyped'
  BY ClosedTyped, EmptySeq DEF Quit, TypeOK, ViewTyped
<1> QED BY <1>1 DEF Quit, Go, Places, TypeOK, HostTyped, FilesTyped, HistoryTyped, host, files, view

-----------------------------------------------------------------------------
(* The lock and the record. *)

(* A process that ends gives back what it owns and no other process's. *)
LEMMA EndedOwner ==
  ASSUME IInv, NEW p \in Procs, Ended(p), UNCHANGED record
  PROVE  OneOwner' /\ RecordOfOwner'
BY NamesAssumption DEF IInv, TypeOK, HostTyped, Maybe, Ended, Go, OneOwner, RecordOfOwner, Owning

(* One owner and its record, whatever starts or ends. *)
LEMMA OwnerKept ==
  ASSUME IInv, NEW p \in Procs, Lifecycle(p) \/ Prepare(p) \/ TimesOut(p) \/ InitFails(p) \/ Crash(p) \/ Quit(p)
  PROVE  OneOwner' /\ RecordOfOwner'
<1> USE NamesAssumption DEF IInv, TypeOK, HostTyped, Maybe, Go, OneOwner, RecordOfOwner, Owning
<1>1. CASE Prepare(p)
  BY <1>1 DEF Prepare
<1>2. CASE TryLock(p)
  BY <1>2 DEF TryLock
<1>3. CASE ClearRecord(p)
  BY <1>3 DEF ClearRecord
<1>4. CASE Publish(p)
  BY <1>4 DEF Publish
<1>5. CASE StartApp(p)
  BY <1>5 DEF StartApp
<1>6. CASE FindOwner(p)
  BY <1>6 DEF FindOwner
<1>7. CASE Send(p)
  BY <1>7 DEF Send
<1>8. CASE Shutdown(p)
  BY <1>8 DEF Shutdown
<1>9. CASE Unlock(p)
  BY <1>9 DEF Unlock
<1>10. CASE Quit(p)
  BY <1>10 DEF Quit, Open
<1>11. CASE Exit(p) \/ TimesOut(p) \/ InitFails(p) \/ Crash(p)
  BY <1>11, EndedOwner DEF Exit, TimesOut, InitFails, Crash
<1> QED BY <1>1, <1>2, <1>3, <1>4, <1>5, <1>6, <1>7, <1>8, <1>9, <1>10, <1>11 DEF Lifecycle

-----------------------------------------------------------------------------
(* The lane of the import worker. *)

(* A request that begins is the only one added; a confirmation asks for what was approved. *)
LEMMA BegunLane ==
  ASSUME IInv, NEW p \in Procs, NEW o \in Operations, NEW link \in Maybe(Links),
         NEW r \in Revisions, Begin(p, o, link, r), UNCHANGED holder,
         approved \subseteq approved', o = "confirm" => link \in approved'
  PROVE  HolderConfirms' /\ AskedForApproved'
<1> DEFINE q == Request(o, Begun(p, o).id, link, r)
<1>1. Begun(p, o).id \in Nat
  BY DEF Begun, IInv, TypeOK, ViewTyped
<1>2. q \in Requests /\ q.kind = o /\ q.link = link
  BY <1>1, RequestTyped
<1>3. lane' = [lane EXCEPT ![p] = Append(@, q)]
  BY DEF Begin
<1> HIDE DEF q
<1>4. lane \in [Procs -> Seq(Requests)] /\ lane[p] \in Seq(Requests)
  BY DEF IInv, TypeOK, ViewTyped
<1>5. \A i \in DOMAIN Append(lane[p], q) :
        (i \in DOMAIN lane[p] /\ Append(lane[p], q)[i] = lane[p][i]) \/ Append(lane[p], q)[i] = q
  BY <1>2, <1>4, AppendTyped
<1>6. lane[p] # <<>> => Append(lane[p], q) # <<>> /\ Append(lane[p], q)[1] = lane[p][1]
  BY <1>2, <1>4, EmptySeq
<1>7. lane'[p] = Append(lane[p], q) /\ \A o2 \in Procs : o2 # p => lane'[o2] = lane[o2]
  BY <1>3, <1>4
<1>8. HolderConfirms'
  BY <1>6, <1>7 DEF IInv, HolderConfirms, TypeOK, FilesTyped, Maybe
<1>9. AskedForApproved'
  BY <1>2, <1>5, <1>7 DEF IInv, AskedForApproved
<1> QED BY <1>8, <1>9

(* Requests that are served or dropped leave the others where they were. *)
LEMMA FewerRequests ==
  ASSUME IInv, holder' = None, approved' = approved,
         \A p \in Procs : \A i \in DOMAIN lane'[p] :
           \E j \in DOMAIN lane[p] : lane'[p][i] = lane[p][j]
  PROVE  HolderConfirms' /\ AskedForApproved'
<1>1. HolderConfirms'
  BY DEF HolderConfirms
<1>2. AskedForApproved'
  BY DEF IInv, AskedForApproved
<1> QED BY <1>1, <1>2

(* Serving the head leaves only requests that were there. *)
LEMMA ServedLane ==
  ASSUME IInv, NEW p \in Procs, Served(p), lane[p] # <<>>
  PROVE  \A o \in Procs : \A i \in DOMAIN lane'[o] :
           \E j \in DOMAIN lane[o] : lane'[o][i] = lane[o][j]
<1>1. lane \in [Procs -> Seq(Requests)]
  BY DEF IInv, TypeOK, ViewTyped
<1>2. \A i \in DOMAIN Tail(lane[p]) : i + 1 \in DOMAIN lane[p] /\ Tail(lane[p])[i] = lane[p][i + 1]
  BY <1>1, TailTyped
<1>3. lane'[p] = Tail(lane[p]) /\ \A o \in Procs : o # p => lane'[o] = lane[o]
  BY <1>1 DEF Served
<1> QED BY <1>2, <1>3

(* A process that ends or quits keeps none or all of its requests. *)
LEMMA EndedLane ==
  ASSUME IInv, NEW p \in Procs, Ended(p), UNCHANGED approved
  PROVE  HolderConfirms' /\ AskedForApproved'
<1>1. lane'[p] = <<>> /\ \A o \in Procs : o # p => lane'[o] = lane[o]
  BY DEF IInv, TypeOK, ViewTyped, Ended
<1>2. holder' = IF holder = p THEN None ELSE holder
  BY DEF Ended
<1>3. HolderConfirms'
  BY <1>1, <1>2 DEF IInv, TypeOK, FilesTyped, Maybe, HolderConfirms
<1>4. DOMAIN lane'[p] = {}
  BY <1>1
<1>5. AskedForApproved'
  BY <1>1, <1>4 DEF IInv, AskedForApproved
<1> QED BY <1>3, <1>5

(* The window asks only for what was approved. *)
LEMMA WindowLane ==
  ASSUME IInv, NEW p \in Procs,
         StartApp(p) \/ ReduceEvent(p) \/ Focus(p) \/ ConfirmPendingImport(p)
           \/ DismissPendingImport(p) \/ Quit(p)
  PROVE  HolderConfirms' /\ AskedForApproved'
<1> USE DEF host, files, Operations
<1>1. CASE StartApp(p)
  BY <1>1, BegunLane, Nothing DEF StartApp, LoadPendingImport
<1>2. CASE ReduceEvent(p) /\ Head(events[p]) = "reload"
  BY <1>2, BegunLane, Nothing DEF ReduceEvent, LoadPendingImport
<1>3. CASE ReduceEvent(p) /\ Head(events[p]) # "reload"
  BY <1>3 DEF ReduceEvent, IInv, HolderConfirms, AskedForApproved
<1>4. CASE Focus(p)
  BY <1>4, BegunLane, Nothing DEF Focus, LoadPendingImport
<1>5. CASE ConfirmPendingImport(p)
  <2>1. shown[p] \in Maybe(Links) /\ known[p] \in Revisions
    BY DEF IInv, TypeOK, ViewTyped
  <2> QED BY <1>5, <2>1, BegunLane DEF ConfirmPendingImport
<1>6. CASE DismissPendingImport(p)
  <2>1. shown[p] \in Maybe(Links)
    BY DEF IInv, TypeOK, ViewTyped
  <2> QED BY <1>6, <2>1, BegunLane, Nothing DEF DismissPendingImport
<1>7. CASE Quit(p) /\ UNCHANGED lane
  BY <1>7 DEF Quit, IInv, HolderConfirms, AskedForApproved
<1>8. CASE Quit(p) /\ ~UNCHANGED lane
  <2>1. /\ \A i \in DOMAIN lane[p] : lane[p][i].kind = "load"
        /\ lane' = [lane EXCEPT ![p] = <<>>]
    BY <1>8 DEF Quit
  <2>2. lane'[p] = <<>> /\ \A o \in Procs : o # p => lane'[o] = lane[o]
    BY <2>1 DEF IInv, TypeOK, ViewTyped
  <2>3. lane[p] # <<>> => 1 \in DOMAIN lane[p]
    BY EmptySeq, LenProperties DEF IInv, TypeOK, ViewTyped
  <2>4. holder # p
    BY <2>1, <2>3, NamesAssumption DEF IInv, HolderConfirms
  <2>5. DOMAIN lane'[p] = {}
    BY <2>2
  <2> QED BY <1>8, <2>2, <2>4, <2>5 DEF Quit, IInv, HolderConfirms, AskedForApproved, TypeOK, FilesTyped, Maybe
<1> QED BY <1>1, <1>2, <1>3, <1>4, <1>5, <1>6, <1>7, <1>8

(* The worker serves in order, and keeps the confirmation it is at the end of. *)
LEMMA WorkerLane ==
  ASSUME IInv, NEW p \in Procs, Worker(p)
  PROVE  HolderConfirms' /\ AskedForApproved'
<1> USE DEF host, files
<1>1. CASE ServeLoad(p)
  <2> PICK n \in DOMAIN lane[p] : lane' = [lane EXCEPT ![p] = SubSeq(@, n + 1, Len(@))]
    BY <1>1 DEF ServeLoad
  <2>1. lane[p] \in Seq(Requests) /\ n \in 1..Len(lane[p]) /\ Len(lane[p]) \in Nat
        /\ DOMAIN lane[p] = 1..Len(lane[p])
    BY LenProperties DEF IInv, TypeOK, ViewTyped
  <2> DEFINE s == SubSeq(lane[p], n + 1, Len(lane[p]))
  <2>2. \A i \in (n + 1)..Len(lane[p]) : lane[p][i] \in Requests
    BY <2>1, ElementOfSeq
  <2>3. /\ s \in Seq(Requests)
        /\ Len(s) = IF n + 1 <= Len(lane[p]) THEN Len(lane[p]) - (n + 1) + 1 ELSE 0
        /\ \A i \in 1..(Len(lane[p]) - (n + 1) + 1) : s[i] = lane[p][n + 1 + i - 1]
    BY <2>1, <2>2, SubSeqProperties
  <2>4. DOMAIN s = 1..Len(s)
    BY <2>3, LenProperties
  <2>5. \A i \in DOMAIN s : n + i \in DOMAIN lane[p] /\ s[i] = lane[p][n + i]
    BY <2>1, <2>3, <2>4
  <2>6. lane'[p] = s /\ \A o \in Procs : o # p => lane'[o] = lane[o]
    BY DEF IInv, TypeOK, ViewTyped
  <2>7. holder' = None /\ approved' = approved
    BY <1>1 DEF ServeLoad, Turn
  <2>8. \A o \in Procs : \A i \in DOMAIN lane'[o] : \E j \in DOMAIN lane[o] : lane'[o][i] = lane[o][j]
    BY <2>5, <2>6
  <2> QED BY <2>7, <2>8, FewerRequests
<1>2. CASE ServeConfirm(p) /\ Served(p) /\ UNCHANGED holder
  BY <1>2, ServedLane, FewerRequests DEF ServeConfirm, Turn
<1>3. CASE ServeConfirm(p) /\ holder' = p /\ UNCHANGED lane
  <2>1. lane[p] # <<>> /\ Head(lane[p]) = lane[p][1] /\ Head(lane[p]).kind = "confirm"
    BY <1>3, TailTyped DEF ServeConfirm, Turn, IInv, TypeOK, ViewTyped
  <2> QED BY <1>3, <2>1 DEF ServeConfirm, IInv, HolderConfirms, AskedForApproved
<1>4. CASE ClearPending(p)
  BY <1>4, ServedLane, FewerRequests, NamesAssumption DEF ClearPending, IInv, HolderConfirms
<1>5. CASE ServeDismiss(p)
  BY <1>5, ServedLane, FewerRequests DEF ServeDismiss, Turn
<1> QED BY <1>1, <1>2, <1>3, <1>4, <1>5 DEF Worker, ServeConfirm

-----------------------------------------------------------------------------
(* What is imported. *)

(* What is imported was asked for, and is new. *)
LEMMA ConfirmKeepsImports ==
  ASSUME IInv, NEW p \in Procs, ServeConfirm(p)
  PROVE  OnlyApproved' /\ ImportedOnce'
<1>1. CASE settings' = settings
  BY <1>1 DEF ServeConfirm, IInv, OnlyApproved, ImportedOnce
<1>2. CASE settings' # settings
  <2>1. /\ lane[p] # <<>> /\ Head(lane[p]).kind = "confirm"
        /\ pending # None /\ pending = Head(lane[p]).link
        /\ settings' = Imported(pending) /\ approved' = approved
    BY <1>2 DEF ServeConfirm, Turn, Importable
  <2>2. Head(lane[p]) = lane[p][1] /\ 1 \in DOMAIN lane[p]
    BY <2>1, TailTyped DEF IInv, TypeOK, ViewTyped
  <2>3. pending \in approved /\ pending \in Links
    BY <2>1, <2>2 DEF IInv, AskedForApproved, TypeOK, FilesTyped, Maybe
  <2>4. /\ \A i \in DOMAIN settings : Identity[settings[i]] # Identity[pending]
        /\ settings' = Append(settings, pending)
    BY <1>2, <2>1 DEF Imported
  <2>5. settings \in Seq(Links)
    BY DEF IInv, TypeOK, FilesTyped
  <2>6. /\ DOMAIN settings = 1..Len(settings) /\ Len(settings) \in Nat
        /\ DOMAIN settings' = 1..(Len(settings) + 1)
        /\ \A i \in 1..Len(settings) : settings'[i] = settings[i]
        /\ settings'[Len(settings) + 1] = pending
    BY <2>3, <2>4, <2>5
  <2>7. OnlyApproved'
    BY <2>1, <2>3, <2>6 DEF IInv, OnlyApproved
  <2>8. ImportedOnce'
    BY <2>4, <2>6 DEF IInv, ImportedOnce
  <2> QED BY <2>7, <2>8
<1> QED BY <1>1, <1>2

-----------------------------------------------------------------------------
(* The invariant. *)

(* The initial state satisfies the invariant. *)
LEMMA Initial == Init => IInv
<1> SUFFICES ASSUME Init PROVE IInv
  OBVIOUS
<1> USE NamesAssumption DEF Init
<1>1. HostTyped
  BY EmptySeq DEF HostTyped, Places, Actions, Maybe
<1>2. FilesTyped /\ HistoryTyped
  BY EmptySeq DEF FilesTyped, HistoryTyped, Maybe
<1>3. ViewTyped
  BY EmptySeq, Nothing DEF ViewTyped, Idle
<1>4. OneOwner /\ RecordOfOwner /\ HolderConfirms
  BY DEF OneOwner, RecordOfOwner, HolderConfirms, Owning
<1>5. AskedForApproved /\ OnlyApproved /\ ImportedOnce
  BY DEF AskedForApproved, OnlyApproved, ImportedOnce
<1> QED BY <1>1, <1>2, <1>3, <1>4, <1>5 DEF IInv, TypeOK

(* What a step leaves alone stays as it was. *)
LEMMA HostUnchanged ==
  ASSUME IInv, UNCHANGED <<at, lock, record>> PROVE OneOwner' /\ RecordOfOwner'
BY DEF IInv, OneOwner, RecordOfOwner
(* The lanes and approvals, when no step touches them. *)
LEMMA LaneUnchanged ==
  ASSUME IInv, UNCHANGED <<holder, lane, approved>> PROVE HolderConfirms' /\ AskedForApproved'
BY DEF IInv, HolderConfirms, AskedForApproved
(* The imports, when no step touches them. *)
LEMMA SettingsUnchanged ==
  ASSUME IInv, settings' = settings, approved \subseteq approved' PROVE OnlyApproved' /\ ImportedOnce'
BY DEF IInv, OnlyApproved, ImportedOnce

(* Every step keeps the types. *)
LEMMA TypesKept ==
  ASSUME IInv, NEW p \in Procs,
         \/ Prepare(p) \/ Lifecycle(p) \/ TimesOut(p) \/ InitFails(p) \/ Crash(p)
         \/ Window(p) \/ Worker(p) \/ User(p)
  PROVE  TypeOK'
BY PrepareTyped, TryLockTyped, ClearRecordTyped, PublishTyped, StartAppTyped, FindOwnerTyped,
   SendTyped, ShutdownTyped, UnlockTyped, ExitTyped, TimesOutTyped, InitFailsTyped, CrashTyped,
   AcceptTyped, ReduceEventTyped, ReduceAnswerTyped, ServeLoadTyped, ServeConfirmTyped,
   ClearPendingTyped, ServeDismissTyped, FocusTyped, LoadProvidersTyped,
   ConfirmPendingImportTyped, DismissPendingImportTyped, QuitTyped
   DEF IInv, Lifecycle, Window, Worker, User

(* Every step keeps what the lanes ask for. *)
LEMMA LanesKept ==
  ASSUME IInv, NEW p \in Procs,
         \/ Prepare(p) \/ Lifecycle(p) \/ TimesOut(p) \/ InitFails(p) \/ Crash(p)
         \/ Window(p) \/ Worker(p) \/ User(p)
  PROVE  HolderConfirms' /\ AskedForApproved'
<1> USE DEF host, files, view
<1>1. CASE \/ Prepare(p) \/ TryLock(p) \/ ClearRecord(p) \/ Publish(p) \/ FindOwner(p) \/ Send(p)
           \/ Shutdown(p) \/ Unlock(p) \/ Accept(p) \/ ReduceAnswer(p) \/ LoadProviders(p)
  BY <1>1, LaneUnchanged DEF Prepare, TryLock, ClearRecord, Publish, FindOwner, Send, Shutdown,
     Unlock, Accept, ReduceAnswer, LoadProviders
<1>2. CASE Exit(p) \/ TimesOut(p) \/ InitFails(p) \/ Crash(p)
  BY <1>2, EndedLane DEF Exit, TimesOut, InitFails, Crash
<1> QED BY <1>1, <1>2, WindowLane, WorkerLane DEF Lifecycle, Window, User

(* Every step keeps the owner. *)
LEMMA OwnersKept ==
  ASSUME IInv, NEW p \in Procs,
         \/ Prepare(p) \/ Lifecycle(p) \/ TimesOut(p) \/ InitFails(p) \/ Crash(p)
         \/ Window(p) \/ Worker(p) \/ User(p)
  PROVE  OneOwner' /\ RecordOfOwner'
<1>1. CASE Window(p) \/ Worker(p) \/ Focus(p) \/ LoadProviders(p) \/ ConfirmPendingImport(p)
           \/ DismissPendingImport(p)
  BY <1>1, HostUnchanged DEF host, Window, Worker, Accept, ReduceEvent, ReduceAnswer, ServeLoad,
     ServeConfirm, ClearPending, ServeDismiss, Focus, LoadProviders, ConfirmPendingImport,
     DismissPendingImport
<1> QED BY <1>1, OwnerKept DEF User

(* Every step keeps what was imported. *)
LEMMA ImportsKept ==
  ASSUME IInv, NEW p \in Procs,
         \/ Prepare(p) \/ Lifecycle(p) \/ TimesOut(p) \/ InitFails(p) \/ Crash(p)
         \/ Window(p) \/ Worker(p) \/ User(p)
  PROVE  OnlyApproved' /\ ImportedOnce'
<1> USE DEF host, files
<1>1. CASE Prepare(p) \/ Lifecycle(p) \/ TimesOut(p) \/ InitFails(p) \/ Crash(p)
  BY <1>1, SettingsUnchanged DEF Prepare, Lifecycle, TryLock, ClearRecord, Publish, StartApp,
     FindOwner, Send, Shutdown, Unlock, Exit, TimesOut, InitFails, Crash
<1>2. CASE Window(p) \/ User(p)
  BY <1>2, SettingsUnchanged DEF Window, User, Accept, ReduceEvent, ReduceAnswer, Focus,
     LoadProviders, ConfirmPendingImport, DismissPendingImport, Quit
<1>3. CASE ServeLoad(p) \/ ClearPending(p) \/ ServeDismiss(p)
  BY <1>3, SettingsUnchanged DEF ServeLoad, ClearPending, ServeDismiss
<1> QED BY <1>1, <1>2, <1>3, ConfirmKeepsImports DEF Worker

(* In every reachable state of any number of processes, the types are kept,  *)
(* the lock has one owner and the record is its own, and the user confirmed *)
(* whatever is imported, which happens once.                                *)
THEOREM Invariance == Spec => []IInv
<1>1. Init => IInv
  BY Initial
<1>2. IInv /\ [Next]_vars => IInv'
  <2> SUFFICES ASSUME IInv, [Next]_vars PROVE IInv'
    OBVIOUS
  <2>1. CASE UNCHANGED vars
    BY <2>1 DEF vars, host, files, view, IInv, TypeOK, HostTyped, FilesTyped, ViewTyped,
       HistoryTyped, OneOwner, RecordOfOwner, HolderConfirms, AskedForApproved, OnlyApproved,
       ImportedOnce
  <2>2. CASE Next
    BY <2>2, TypesKept, OwnersKept, LanesKept, ImportsKept DEF Next, IInv
  <2> QED BY <2>1, <2>2
<1> QED BY <1>1, <1>2, PTL DEF Spec

(* The record of manager-instance-endpoint.json is never a former owner's    *)
(* while another process holds the lock and listens.                        *)
THEOREM RecordNamesOwner == Spec => []RecordOfOwner
<1>1. IInv => RecordOfOwner
  BY DEF IInv
<1> QED BY <1>1, Invariance, PTL

(* confirm_pending imports nothing the user did not confirm. *)
THEOREM ImportsAreApproved == Spec => []OnlyApproved
<1>1. IInv => OnlyApproved
  BY DEF IInv
<1> QED BY <1>1, Invariance, PTL

(* A provider that was imported is not imported again, whoever dies or fails *)
(* between storing it and clearing the pending file.                        *)
THEOREM ImportsAreSingle == Spec => []ImportedOnce
<1>1. IInv => ImportedOnce
  BY DEF IInv
<1> QED BY <1>1, Invariance, PTL

-----------------------------------------------------------------------------
(* Where a record leads. *)

(* A step that publishes nothing leaves every record leading to its owner.   *)
LEMMA RecordsStay ==
  ASSUME IInv, RecordsLead, NEW p \in Procs,
         \A q \in Procs \ {p} : at'[q] = at[q] /\ bound'[q] = bound[q] /\ client'[q] = client[q],
         at[p] \in Published => at'[p] \in Published,
         at'[p] \in Listening => at[p] \in Listening,
         at'[p] \in Listening \cup {"quitting"} =>
           at[p] \in Listening \cup {"quitting"} /\ bound'[p] = bound[p],
         bound'[p] \in {bound[p], None}, client'[p] \in {client[p], None, record},
         record' = record \/ (record' = None /\ (record = None \/ lock = p)
                              /\ at'[p] \notin Listening \cup {"quitting"})
  PROVE  RecordsLead'
<1>0. record \in Maybe(Records) /\ client \in [Procs -> Maybe(Records)] /\ Preferred # None
      /\ \A q \in Procs : q # None
  BY NamesAssumption DEF IInv, TypeOK, HostTyped
<1>1. \A r \in Records : Leads(r) => Leads(r)'
  <2> SUFFICES ASSUME NEW r \in Records, Leads(r) PROVE Leads(r)'
    OBVIOUS
  <2>1. r.nonce \in Procs
    BY DEF Records
  <2> QED BY <2>1 DEF Leads, Listening, Published
<1>2. \A q \in Procs : bound'[q] \in {None, Preferred, q}
  BY DEF RecordsLead
<1>3. \A q, o \in Procs : bound'[q] = Preferred /\ bound'[o] = Preferred => q = o
  BY <1>0 DEF RecordsLead
<1>4. ASSUME NEW q \in Procs, at'[q] \in Listening \cup {"quitting"}
      PROVE  record' # None /\ bound'[q] # None
  <2>1. at[q] \in Listening \cup {"quitting"} /\ bound'[q] = bound[q]
    BY <1>4
  <2>2. record # None /\ bound[q] # None /\ lock = q
    BY <2>1 DEF RecordsLead, IInv, OneOwner, Owning, Listening
  <2>3. record' = record
    BY <1>4, <2>2
  <2> QED BY <2>1, <2>2, <2>3
<1>5. record' # None => Leads(record)'
  <2> SUFFICES ASSUME record' # None PROVE Leads(record)'
    OBVIOUS
  <2>1. record' = record /\ record \in Records /\ Leads(record)
    BY <1>0 DEF RecordsLead, Maybe
  <2>2. record'.nonce \in Procs /\ record'.nonce = record.nonce /\ record'.address = record.address
    BY <2>1 DEF Records
  <2> QED BY <1>1, <2>1, <2>2 DEF Leads
<1>6. ASSUME NEW q \in Procs, client'[q] # None PROVE Leads(client[q])'
  <2>1. client'[q] \in Records /\ Leads(client'[q])
    BY <1>0, <1>6 DEF RecordsLead, Maybe
  <2> DEFINE r == client'[q]
  <2>2. \A s \in Records : s = r /\ Leads(s) => at'[r.nonce] \in Published
            /\ (at'[r.nonce] \in Listening => r.address = bound'[r.nonce])
    BY <1>1 DEF Leads
  <2> QED BY <2>1, <2>2 DEF Leads
<1> QED BY <1>2, <1>3, <1>4, <1>5, <1>6 DEF RecordsLead

(* A record that is published leads to who publishes it, and none did before. *)
LEMMA PublishLeads ==
  ASSUME IInv, RecordsLead, NEW p \in Procs, Publish(p)
  PROVE  RecordsLead'
<1> DEFINE address == IF \E q \in Procs : bound[q] = Preferred THEN p ELSE Preferred
<1>0. /\ record \in Maybe(Records) /\ client \in [Procs -> Maybe(Records)] /\ Preferred # None
      /\ Preferred \notin Procs /\ \A q \in Procs : q # None
  BY NamesAssumption DEF IInv, TypeOK, HostTyped
<1>1. /\ at[p] = "publish" /\ at' = [at EXCEPT ![p] = "start"]
      /\ bound' = [bound EXCEPT ![p] = address]
      /\ record' = [address |-> address, nonce |-> p] /\ client' = client
  BY DEF Publish, Go
<1>2. /\ at'[p] = "start" /\ bound'[p] = address /\ record'.nonce = p /\ record'.address = address
      /\ \A q \in Procs \ {p} : at'[q] = at[q] /\ bound'[q] = bound[q]
  BY <1>1 DEF IInv, TypeOK, HostTyped
<1>3. \A q \in Procs : bound'[q] \in {None, Preferred, q}
  BY <1>2 DEF RecordsLead
<1>4. \A q, o \in Procs : bound'[q] = Preferred /\ bound'[o] = Preferred => q = o
  BY <1>0, <1>2 DEF RecordsLead
<1>5. record' # None
  <2>1. address \in Procs \cup {Preferred} /\ p \in Procs
    OBVIOUS
  <2> HIDE DEF address
  <2>2. record' \in [address : Procs \cup {Preferred}, nonce : Procs]
    BY <1>1, <2>1
  <2> QED BY <2>2, NamesAssumption
<1>6. ASSUME NEW q \in Procs, at'[q] \in Listening \cup {"quitting"} PROVE bound'[q] # None
  BY <1>0, <1>2, <1>6 DEF RecordsLead
<1>7. Leads(record)'
  BY <1>2 DEF Leads, Published, Listening
<1>8. ASSUME NEW q \in Procs, client'[q] # None PROVE Leads(client[q])'
  <2>1. client[q] \in Records /\ Leads(client[q])
    BY <1>0, <1>1, <1>8 DEF RecordsLead, Maybe
  <2>2. client[q].nonce \in Procs /\ client[q].nonce # p
    BY <1>1, <2>1 DEF Records, Leads, Published, Listening
  <2> QED BY <1>1, <1>2, <2>1, <2>2 DEF Leads
<1> QED BY <1>3, <1>4, <1>5, <1>6, <1>7, <1>8 DEF RecordsLead

LEMMA RecordsKept ==
  ASSUME IInv, RecordsLead, NEW p \in Procs,
         \/ Prepare(p) \/ Lifecycle(p) \/ TimesOut(p) \/ InitFails(p) \/ Crash(p)
         \/ Window(p) \/ Worker(p) \/ User(p)
  PROVE  RecordsLead'
<1> USE DEF host
<1>0. at \in [Procs -> Places] /\ bound \in [Procs -> Maybe(Addresses)]
      /\ client \in [Procs -> Maybe(Records)] /\ (at[p] \in Owning => lock = p)
  BY DEF IInv, TypeOK, HostTyped, OneOwner
<1>1. CASE Window(p) \/ Worker(p) \/ Focus(p) \/ LoadProviders(p) \/ ConfirmPendingImport(p)
           \/ DismissPendingImport(p)
  <2>1. UNCHANGED <<at, lock, record, bound, client>>
    <3>1. CASE Window(p)
      BY <3>1 DEF Window, Accept, ReduceEvent, ReduceAnswer
    <3>2. CASE Worker(p)
      BY <3>2 DEF Worker, ServeLoad, ServeConfirm, ClearPending, ServeDismiss
    <3> QED BY <1>1, <3>1, <3>2 DEF Focus, LoadProviders, ConfirmPendingImport, DismissPendingImport
  <2> QED BY <2>1, RecordsStay
<1>2. CASE Prepare(p) \/ TryLock(p) \/ StartApp(p) \/ FindOwner(p) \/ Send(p) \/ Unlock(p) \/ Quit(p)
  <2>1. CASE Prepare(p) \/ TryLock(p)
    BY <1>0, <2>1, RecordsStay DEF Prepare, TryLock, Go, Published, Listening
  <2>2. CASE StartApp(p) \/ Unlock(p) \/ Quit(p)
    BY <1>0, <2>2, RecordsStay DEF StartApp, Unlock, Quit, Open, Go, Published, Listening
  <2>3. CASE FindOwner(p) \/ Send(p)
    BY <1>0, <2>3, RecordsStay DEF FindOwner, Send, Go, Published, Listening
  <2> QED BY <1>2, <2>1, <2>2, <2>3
<1>3. CASE ClearRecord(p) \/ Shutdown(p)
  BY <1>0, <1>3, RecordsStay DEF ClearRecord, Shutdown, Go, Published, Listening, Owning
<1>4. CASE TimesOut(p) \/ InitFails(p) \/ Crash(p) \/ Exit(p)
  <2>1. Ended(p) /\ record' = record
    BY <1>4 DEF TimesOut, InitFails, Crash, Exit
  <2> QED BY <1>0, <2>1, RecordsStay DEF Ended, Go, Published, Listening
<1> QED BY <1>1, <1>2, <1>3, <1>4, PublishLeads DEF Lifecycle, User

-----------------------------------------------------------------------------
(* The order of requests and answers. *)

(* Queues that a step leaves alone. *)
LEMMA QueuesStay ==
  ASSUME NEW q \in Procs, QueuesOK(q), lane'[q] = lane[q], answers'[q] = answers[q],
         op'[q] = op[q], at'[q] = "running" <=> at[q] = "running",
         at'[q] \in Starting => at[q] \in Starting
  PROVE  QueuesOK(q)'
<1>1. \A r : Awaited(q, r) <=> op'[q][r.kind] = [id |-> r.id, running |-> TRUE]
  BY DEF Awaited
<1>2. InOrder(q) => InOrder(q)'
  <2> SUFFICES ASSUME InOrder(q) PROVE InOrder(q)'
    OBVIOUS
  <2>1. \A i \in DOMAIN lane'[q] :
          IF lane'[q][i].kind = "load"
          THEN /\ lane'[q][i].id <= op'[q]["load"].id
               /\ IF i = Len(lane'[q]) THEN Awaited(q, lane[q][i])'
                  ELSE lane'[q][i].id # op'[q]["load"].id
          ELSE i = 1 /\ answers'[q] = <<>> /\ Awaited(q, lane[q][i])'
    <3> TAKE i \in DOMAIN lane'[q]
    <3>1. i \in DOMAIN lane[q] /\ (Awaited(q, lane[q][i])' <=> Awaited(q, lane[q][i]))
      BY <1>1 DEF Awaited
    <3> QED BY <3>1 DEF InOrder
  <2>2. \A i \in DOMAIN answers'[q] :
          IF answers'[q][i].kind = "load"
          THEN /\ answers'[q][i].id <= op'[q]["load"].id
               /\ IF i = Len(answers'[q]) /\ lane'[q] = <<>>
                  THEN Awaited(q, answers[q][i])' ELSE answers'[q][i].id # op'[q]["load"].id
          ELSE i = 1 /\ Awaited(q, answers[q][i])'
    BY <1>1 DEF InOrder, Awaited
  <2> QED BY <2>1, <2>2 DEF InOrder
<1> QED BY <1>2 DEF QueuesOK

(* Queues of a process that has no window any more. *)
LEMMA QueuesClosed ==
  ASSUME NEW q \in Procs, at'[q] # "running", at'[q] \notin Starting, answers'[q] = <<>>
  PROVE  QueuesOK(q)'
BY DEF QueuesOK

(* A window that waits for nothing has no request and no answer on its way.  *)
LEMMA QuietIsEmpty ==
  ASSUME TypeOK, NEW p \in Procs, InOrder(p), Quiet(p)
  PROVE  lane[p] = <<>> /\ answers[p] = <<>>
<1>1. lane[p] \in Seq(Requests) /\ answers[p] \in Seq(Replies)
  BY DEF TypeOK, ViewTyped
<1>2. \A r : r.kind \in Operations => ~Awaited(p, r)
  BY DEF Awaited, Quiet
<1>3. lane[p] = <<>>
  <2> SUFFICES ASSUME lane[p] # <<>> PROVE FALSE
    OBVIOUS
  <2> DEFINE n == Len(lane[p])
  <2>1. n \in DOMAIN lane[p] /\ lane[p][n] \in Requests
    BY <1>1, EmptySeq, LenProperties, ElementOfSeq
  <2>2. lane[p][n].kind \in Operations
    BY <2>1 DEF Requests
  <2> QED BY <1>2, <2>1, <2>2 DEF InOrder
<1>4. answers[p] = <<>>
  <2> SUFFICES ASSUME answers[p] # <<>> PROVE FALSE
    OBVIOUS
  <2> DEFINE n == Len(answers[p])
  <2>1. n \in DOMAIN answers[p] /\ answers[p][n] \in Replies
    BY <1>1, EmptySeq, LenProperties, ElementOfSeq
  <2>2. answers[p][n].kind \in Operations
    BY <2>1 DEF Replies
  <2> QED BY <1>2, <1>3, <2>1, <2>2 DEF InOrder
<1> QED BY <1>3, <1>4

(* What a request asks. *)
LEMMA WhatBegins ==
  ASSUME TypeOK, NEW p \in Procs, NEW o \in Operations, NEW link \in Maybe(Links),
         NEW r \in Revisions, Begin(p, o, link, r)
  PROVE  /\ Len(lane[p]) \in Nat /\ DOMAIN lane[p] = 1..Len(lane[p])
         /\ DOMAIN lane'[p] = 1..(Len(lane[p]) + 1) /\ Len(lane'[p]) = Len(lane[p]) + 1
         /\ \A i \in DOMAIN lane[p] : lane'[p][i] = lane[p][i]
         /\ lane'[p][Len(lane[p]) + 1].kind = o
         /\ lane'[p][Len(lane[p]) + 1].id = op[p][o].id + 1
         /\ op'[p][o] = [id |-> op[p][o].id + 1, running |-> TRUE]
         /\ \A k \in Operations \ {o} : op'[p][k] = op[p][k]
         /\ \A k \in Operations : op[p][k].id \in Nat
         /\ \A q \in Procs \ {p} : lane'[q] = lane[q] /\ op'[q] = op[q]
<1> DEFINE e == Request(o, Begun(p, o).id, link, r)
<1>1. /\ lane[p] \in Seq(Requests) /\ op[p] \in [Operations -> [id : Nat, running : BOOLEAN]]
      /\ lane \in [Procs -> Seq(Requests)] /\ DOMAIN op = Procs
  BY DEF TypeOK, ViewTyped
<1>2. Begun(p, o).id = op[p][o].id + 1 /\ Begun(p, o).id \in Nat
  BY <1>1 DEF Begun
<1>3. e \in Requests /\ e.kind = o /\ e.id = op[p][o].id + 1
  BY <1>2, RequestTyped DEF Request
<1>4. /\ lane' = [lane EXCEPT ![p] = Append(@, e)]
      /\ op' = [op EXCEPT ![p][o] = Begun(p, o)]
  BY DEF Begin
<1> HIDE DEF e
<1>5. lane'[p] = Append(lane[p], e) /\ \A q \in Procs \ {p} : lane'[q] = lane[q] /\ op'[q] = op[q]
  BY <1>1, <1>4
<1>6. /\ op'[p][o] = [id |-> op[p][o].id + 1, running |-> TRUE]
      /\ \A k \in Operations \ {o} : op'[p][k] = op[p][k]
      /\ \A k \in Operations : op[p][k].id \in Nat
  BY <1>1, <1>4 DEF Begun
<1> QED BY <1>1, <1>3, <1>5, <1>6, AppendProperties, LenProperties

(* A load may begin at any time, the others only when nothing is awaited.    *)
LEMMA BeginKeepsOrder ==
  ASSUME TypeOK, NEW p \in Procs, NEW o \in Operations, NEW link \in Maybe(Links),
         NEW r \in Revisions, Begin(p, o, link, r), answers' = answers, InOrder(p),
         o # "load" => lane[p] = <<>> /\ answers[p] = <<>>
  PROVE  InOrder(p)'
<1> DEFINE n == Len(lane[p])
<1>1. /\ n \in Nat /\ DOMAIN lane[p] = 1..n /\ DOMAIN lane'[p] = 1..(n + 1)
      /\ Len(lane'[p]) = n + 1 /\ \A i \in DOMAIN lane[p] : lane'[p][i] = lane[p][i]
      /\ lane'[p][n + 1].kind = o /\ lane'[p][n + 1].id = op[p][o].id + 1
      /\ op'[p][o] = [id |-> op[p][o].id + 1, running |-> TRUE]
      /\ \A k \in Operations \ {o} : op'[p][k] = op[p][k]
      /\ \A k \in Operations : op[p][k].id \in Nat
  BY WhatBegins
<1>2. lane[p] \in Seq(Requests) /\ answers[p] \in Seq(Replies)
  BY DEF TypeOK, ViewTyped
<1>3. /\ \A i \in DOMAIN lane[p] : lane[p][i].kind \in Operations /\ lane[p][i].id \in Nat
      /\ \A i \in DOMAIN answers[p] : answers[p][i].kind \in Operations /\ answers[p][i].id \in Nat
  <2>1. /\ \A i \in DOMAIN lane[p] : lane[p][i] \in Requests
        /\ \A i \in DOMAIN answers[p] : answers[p][i] \in Replies
    BY <1>2, ElementOfSeq, LenProperties
  <2> QED BY <2>1 DEF Requests, Replies
<1>4. "load" \in Operations /\ "load" # "confirm" /\ "load" # "dismiss"
  BY DEF Operations
<1>5. CASE o = "load"
  <2>1. /\ op'[p]["load"].id = op[p]["load"].id + 1
        /\ \A k \in Operations : k # "load" => op'[p][k] = op[p][k]
    BY <1>1, <1>5
  <2>2. ASSUME NEW i \in DOMAIN lane'[p]
        PROVE  IF lane'[p][i].kind = "load"
               THEN /\ lane'[p][i].id <= op'[p]["load"].id
                    /\ IF i = Len(lane'[p]) THEN Awaited(p, lane[p][i])'
                       ELSE lane'[p][i].id # op'[p]["load"].id
               ELSE i = 1 /\ answers'[p] = <<>> /\ Awaited(p, lane[p][i])'
    <3>1. CASE i = n + 1
      <4>1. /\ lane'[p][i].kind = "load" /\ lane'[p][i].id = op'[p]["load"].id
            /\ op'[p]["load"].id \in Nat /\ i = Len(lane'[p])
            /\ op'[p]["load"] = [id |-> lane'[p][i].id, running |-> TRUE]
        <5>1. lane'[p][i].kind = "load" /\ lane'[p][i].id = op[p]["load"].id + 1 /\ i = Len(lane'[p])
          BY <1>1, <1>5, <3>1
        <5>2. op'[p]["load"] = [id |-> op[p]["load"].id + 1, running |-> TRUE]
              /\ op[p]["load"].id \in Nat
          BY <1>1, <1>4, <1>5
        <5> QED BY <5>1, <5>2
      <4>2. Awaited(p, lane[p][i])'
        BY <4>1 DEF Awaited
      <4> QED BY <4>1, <4>2
    <3>2. CASE i \in DOMAIN lane[p]
      <4>1. lane'[p][i] = lane[p][i] /\ i # Len(lane'[p])
        BY <1>1, <3>2
      <4>2. CASE lane[p][i].kind = "load"
        BY <1>1, <1>3, <1>4, <2>1, <3>2, <4>1, <4>2 DEF InOrder
      <4>3. CASE lane[p][i].kind # "load"
        <5>1. i = 1 /\ answers[p] = <<>> /\ Awaited(p, lane[p][i])
          BY <3>2, <4>3 DEF InOrder
        <5>2. op'[p][lane[p][i].kind] = op[p][lane[p][i].kind]
          BY <1>3, <2>1, <3>2, <4>3
        <5>3. Awaited(p, lane[p][i])'
          BY <4>1, <5>1, <5>2 DEF Awaited
        <5> QED BY <4>1, <4>3, <5>1, <5>3
      <4> QED BY <4>2, <4>3
    <3> QED BY <1>1, <2>2, <3>1, <3>2
  <2>3. ASSUME NEW i \in DOMAIN answers[p]
        PROVE  IF answers[p][i].kind = "load"
               THEN /\ answers[p][i].id <= op'[p]["load"].id
                    /\ answers[p][i].id # op'[p]["load"].id
               ELSE i = 1 /\ Awaited(p, answers[p][i])'
    <3>1. CASE answers[p][i].kind = "load"
      BY <1>1, <1>3, <1>4, <2>1, <3>1 DEF InOrder
    <3>2. CASE answers[p][i].kind # "load"
      BY <1>3, <2>1, <3>2 DEF InOrder, Awaited
    <3> QED BY <3>1, <3>2
  <2>4. lane'[p] # <<>>
    BY <1>1
  <2> QED BY <2>2, <2>3, <2>4 DEF InOrder
<1>6. CASE o # "load"
  <2>1. n = 0 /\ answers'[p] = <<>>
    BY <1>6
  <2>2. DOMAIN lane'[p] = {1} /\ DOMAIN answers'[p] = {}
    BY <1>1, <2>1
  <2>3. lane'[p][1].kind = o /\ lane'[p][1].id = op[p][o].id + 1
    BY <1>1, <2>1
  <2>4. Awaited(p, lane[p][1])'
    BY <1>1, <2>3 DEF Awaited
  <2> QED BY <1>6, <2>1, <2>2, <2>3, <2>4 DEF InOrder
<1> QED BY <1>5, <1>6

(* What an answer says. *)
LEMMA WhatIsAnswered ==
  ASSUME TypeOK, NEW p \in Procs, NEW req \in Requests, NEW ok \in BOOLEAN,
         NEW link \in Maybe(Links), NEW r \in Revisions, at[p] = "running",
         Answered(p, Answer(req, ok, link, r))
  PROVE  /\ Len(answers[p]) \in Nat /\ DOMAIN answers[p] = 1..Len(answers[p])
         /\ DOMAIN answers'[p] = 1..(Len(answers[p]) + 1)
         /\ Len(answers'[p]) = Len(answers[p]) + 1 /\ answers'[p] # <<>>
         /\ \A i \in DOMAIN answers[p] : answers'[p][i] = answers[p][i]
         /\ LET a == answers'[p][Len(answers[p]) + 1]
            IN a.kind = req.kind /\ a.id = req.id /\ a.ok = ok /\ a.link = link
         /\ \A q \in Procs \ {p} : answers'[q] = answers[q]
<1> DEFINE e == Answer(req, ok, link, r)
<1>1. e \in Replies /\ e.kind = req.kind /\ e.id = req.id /\ e.ok = ok /\ e.link = link
  BY AnswerTyped DEF Answer
<1>2. answers' = [answers EXCEPT ![p] = Append(@, e)]
  BY DEF Answered, Open
<1> HIDE DEF e
<1>3. answers[p] \in Seq(Replies) /\ answers \in [Procs -> Seq(Replies)]
  BY DEF TypeOK, ViewTyped
<1>4. answers'[p] = Append(answers[p], e) /\ \A q \in Procs \ {p} : answers'[q] = answers[q]
  BY <1>2, <1>3
<1> QED BY <1>1, <1>3, <1>4, AppendProperties, LenProperties

(* Nobody else's answers change, whether the window takes them or not.       *)
LEMMA AnsweredAlone ==
  ASSUME TypeOK, NEW p \in Procs, NEW answer, Answered(p, answer)
  PROVE  /\ \A q \in Procs \ {p} : answers'[q] = answers[q]
         /\ at[p] # "running" => answers' = answers
BY DEF Answered, Open, TypeOK, ViewTyped

(* Only loads follow the head of a lane. *)
LEMMA LoadsFollow ==
  ASSUME TypeOK, NEW p \in Procs, InOrder(p)
  PROVE  /\ \A i \in DOMAIN lane[p] : i # 1 => lane[p][i].kind = "load"
         /\ \A i \in DOMAIN answers[p] : i # 1 => answers[p][i].kind = "load"
         /\ answers[p] # <<>> => \A i \in DOMAIN lane[p] : lane[p][i].kind = "load"
BY DEF InOrder

(* The loads that are served as one are all there are. *)
LEMMA LoadsAreServed ==
  ASSUME TypeOK, HolderConfirms, NEW p \in Procs, InOrder(p), ServeLoad(p), at[p] = "running"
  PROVE  /\ lane'[p] = <<>> /\ \A q \in Procs \ {p} : lane'[q] = lane[q]
         /\ \A q \in Procs \ {p} : answers'[q] = answers[q]
         /\ DOMAIN answers'[p] = 1..(Len(answers[p]) + 1)
         /\ Len(answers'[p]) = Len(answers[p]) + 1 /\ answers'[p] # <<>>
         /\ \A i \in DOMAIN answers[p] : answers'[p][i] = answers[p][i]
         /\ LET a == LastAnswer(p)'
            IN /\ a.kind = "load" /\ a.id = op[p]["load"].id /\ Awaited(p, a)
               /\ (a.ok /\ a.link = pending) \/ missed'
         /\ lane[p] # <<>>
<1> PICK n \in DOMAIN lane[p] :
       /\ \A i \in 1..n : lane[p][i].kind = "load"
       /\ n < Len(lane[p]) => lane[p][n + 1].kind # "load"
       /\ lane' = [lane EXCEPT ![p] = SubSeq(@, n + 1, Len(@))]
       /\ \/ /\ Answered(p, Answer(lane[p][n], TRUE, pending, None))
             /\ UNCHANGED <<missed, spent>>
          \/ /\ Spend("event") /\ missed' = TRUE
             /\ Answered(p, Answer(lane[p][n], FALSE, None, None))
  BY DEF ServeLoad
<1>1. lane[p] \in Seq(Requests) /\ lane \in [Procs -> Seq(Requests)] /\ pending \in Maybe(Links)
      /\ DOMAIN lane[p] = 1..Len(lane[p]) /\ Len(lane[p]) \in Nat
  BY LenProperties DEF TypeOK, ViewTyped, FilesTyped
<1>2. n = Len(lane[p])
  <2> SUFFICES ASSUME n < Len(lane[p]) PROVE FALSE
    BY <1>1
  <2>1. n + 1 \in DOMAIN lane[p] /\ n + 1 # 1
    BY <1>1
  <2> QED BY <2>1, LoadsFollow
<1>3. lane'[p] = <<>> /\ \A q \in Procs \ {p} : lane'[q] = lane[q]
  <2>1. lane'[p] = SubSeq(lane[p], Len(lane[p]) + 1, Len(lane[p]))
    BY <1>1, <1>2
  <2>2. SubSeq(lane[p], Len(lane[p]) + 1, Len(lane[p])) = <<>>
    BY <1>1
  <2> QED BY <1>1, <2>1, <2>2
<1> DEFINE r == lane[p][n]
<1>4. r \in Requests /\ n \in 1..n
  BY <1>1, <1>2, ElementOfSeq
<1>5. r.kind = "load" /\ Awaited(p, r) /\ r.id \in Nat
  BY <1>1, <1>2, <1>4 DEF InOrder, Requests
<1>6. op[p]["load"].id = r.id
  BY <1>5 DEF Awaited
<1> HIDE DEF r
<1>7. PICK ok \in BOOLEAN, link \in Maybe(Links) :
        /\ Answered(p, Answer(r, ok, link, None))
        /\ (ok /\ link = pending) \/ missed'
  BY <1>1, Nothing DEF r
<1>8. /\ DOMAIN answers'[p] = 1..(Len(answers[p]) + 1)
      /\ Len(answers'[p]) = Len(answers[p]) + 1 /\ answers'[p] # <<>>
      /\ \A i \in DOMAIN answers[p] : answers'[p][i] = answers[p][i]
      /\ LET a == answers'[p][Len(answers[p]) + 1]
         IN a.kind = r.kind /\ a.id = r.id /\ a.ok = ok /\ a.link = link
      /\ \A q \in Procs \ {p} : answers'[q] = answers[q]
  BY <1>4, <1>7, WhatIsAnswered, Nothing
<1>9. LastAnswer(p)' = answers'[p][Len(answers[p]) + 1]
  BY <1>8 DEF LastAnswer
<1>10. lane[p] # <<>>
  BY <1>1, <1>4
<1> QED BY <1>3, <1>5, <1>6, <1>7, <1>8, <1>9, <1>10 DEF Awaited

LEMMA ServeLoadKeepsOrder ==
  ASSUME TypeOK, HolderConfirms, NEW p \in Procs, InOrder(p), ServeLoad(p), at[p] = "running"
  PROVE  InOrder(p)'
<1> DEFINE n == Len(answers[p])
<1>1. /\ lane'[p] = <<>> /\ lane[p] # <<>>
      /\ DOMAIN answers'[p] = 1..(n + 1) /\ Len(answers'[p]) = n + 1
      /\ \A i \in DOMAIN answers[p] : answers'[p][i] = answers[p][i]
      /\ LastAnswer(p)'.kind = "load" /\ LastAnswer(p)'.id = op[p]["load"].id
      /\ Awaited(p, LastAnswer(p)')
  BY LoadsAreServed
<1>2. op' = op /\ n \in Nat /\ DOMAIN answers[p] = 1..n /\ op[p]["load"].id \in Nat
  BY LenProperties DEF ServeLoad, TypeOK, ViewTyped, Operations
<1>3. LastAnswer(p)' = answers'[p][n + 1]
  BY <1>1 DEF LastAnswer
<1>4. ASSUME NEW i \in DOMAIN answers'[p]
      PROVE  IF answers'[p][i].kind = "load"
             THEN /\ answers'[p][i].id <= op[p]["load"].id
                  /\ IF i = n + 1 THEN Awaited(p, answers'[p][i])
                     ELSE answers'[p][i].id # op[p]["load"].id
             ELSE i = 1 /\ Awaited(p, answers'[p][i])
  <2>1. CASE i = n + 1
    BY <1>1, <1>2, <1>3, <2>1
  <2>2. CASE i \in DOMAIN answers[p]
    <3>1. answers'[p][i] = answers[p][i] /\ i # n + 1
      BY <1>1, <1>2, <2>2
    <3> QED BY <1>1, <2>2, <3>1 DEF InOrder
  <2> QED BY <1>1, <1>2, <2>1, <2>2
<1>5. DOMAIN lane'[p] = {}
  BY <1>1
<1> QED BY <1>1, <1>2, <1>4, <1>5 DEF InOrder, Awaited

(* A confirmation or dismissal that is answered was all that was asked.      *)
LEMMA ServedKeepsOrder ==
  ASSUME TypeOK, NEW p \in Procs, InOrder(p), at[p] = "running", lane[p] # <<>>,
         Head(lane[p]).kind # "load", Served(p), op' = op,
         NEW ok \in BOOLEAN, NEW link \in Maybe(Links), NEW r \in Revisions,
         Answered(p, Answer(Head(lane[p]), ok, link, r))
  PROVE  /\ InOrder(p)' /\ answers[p] = <<>> /\ answers'[p] # <<>>
         /\ Len(answers'[p]) = 1 /\ DOMAIN answers'[p] = {1}
         /\ answers'[p][1].ok = ok /\ answers'[p][1].link = link
         /\ answers'[p][1].kind = Head(lane[p]).kind
         /\ \A i \in DOMAIN lane[p] :
              lane[p][i].kind = "load" => \E j \in DOMAIN lane'[p] : lane'[p][j].kind = "load"
<1> DEFINE s == Tail(lane[p])
           h == Head(lane[p])
<1>1. lane[p] \in Seq(Requests) /\ lane \in [Procs -> Seq(Requests)]
  BY DEF TypeOK, ViewTyped
<1>2. /\ h \in Requests /\ 1 \in DOMAIN lane[p] /\ h = lane[p][1]
      /\ \A i \in DOMAIN s : i + 1 \in DOMAIN lane[p] /\ s[i] = lane[p][i + 1]
  BY <1>1, TailTyped
<1>3. /\ Len(s) \in Nat /\ Len(lane[p]) = Len(s) + 1 /\ DOMAIN s = 1..Len(s)
      /\ DOMAIN lane[p] = 1..(Len(s) + 1)
  BY <1>1, HeadTailProperties, LenProperties
<1>4. lane'[p] = s
  BY <1>1 DEF Served
<1> HIDE DEF s, h
<1>5. answers[p] = <<>> /\ Awaited(p, h)
  BY <1>2 DEF InOrder, h
<1>6. /\ DOMAIN answers'[p] = {1} /\ Len(answers'[p]) = 1 /\ answers'[p] # <<>>
      /\ answers'[p][1].kind = h.kind /\ answers'[p][1].id = h.id
      /\ answers'[p][1].ok = ok /\ answers'[p][1].link = link
  <2>1. /\ DOMAIN answers'[p] = 1..(Len(answers[p]) + 1)
        /\ Len(answers'[p]) = Len(answers[p]) + 1 /\ answers'[p] # <<>>
        /\ LET a == answers'[p][Len(answers[p]) + 1]
           IN a.kind = h.kind /\ a.id = h.id /\ a.ok = ok /\ a.link = link
    BY <1>2, WhatIsAnswered DEF h
  <2>2. Len(answers[p]) = 0
    BY <1>5
  <2> QED BY <2>1, <2>2
<1>7. \A i \in DOMAIN s :
        /\ s[i].kind = "load" /\ s[i].id <= op[p]["load"].id
        /\ IF i = Len(s) THEN Awaited(p, s[i]) ELSE s[i].id # op[p]["load"].id
  <2> TAKE i \in DOMAIN s
  <2>1. i + 1 \in DOMAIN lane[p] /\ s[i] = lane[p][i + 1] /\ i + 1 # 1
        /\ (i + 1 = Len(lane[p]) <=> i = Len(s))
    BY <1>2, <1>3
  <2> QED BY <2>1 DEF InOrder
<1>8. answers'[p][1].kind # "load" /\ Awaited(p, answers'[p][1])
  BY <1>5, <1>6 DEF Awaited, h
<1>9. InOrder(p)'
  BY <1>4, <1>6, <1>7, <1>8 DEF InOrder, Awaited
<1>10. ASSUME NEW i \in DOMAIN lane[p], lane[p][i].kind = "load"
       PROVE  \E j \in DOMAIN lane'[p] : lane'[p][j].kind = "load"
  <2>1. i # 1
    BY <1>2, <1>10 DEF h
  <2>2. i - 1 \in DOMAIN s
    BY <1>3, <2>1
  <2> QED BY <1>4, <1>7, <2>2
<1> QED BY <1>5, <1>6, <1>9, <1>10 DEF h

(* An answer that is installed or ignored leaves only loads, in order.       *)
LEMMA ReduceKeepsOrder ==
  ASSUME TypeOK, NEW p \in Procs, InOrder(p), ReduceAnswer(p)
  PROVE  InOrder(p)'
<1> DEFINE s == Tail(answers[p])
           a == Head(answers[p])
<1>0. answers[p] \in Seq(Replies) /\ answers \in [Procs -> Seq(Replies)] /\ answers[p] # <<>>
      /\ answers' = [answers EXCEPT ![p] = s] /\ lane' = lane
  BY DEF ReduceAnswer, TypeOK, ViewTyped
<1>1. /\ a \in Replies /\ 1 \in DOMAIN answers[p] /\ a = answers[p][1]
      /\ \A i \in DOMAIN s : i + 1 \in DOMAIN answers[p] /\ s[i] = answers[p][i + 1]
  BY <1>0, TailTyped
<1>2. /\ Len(s) \in Nat /\ Len(answers[p]) = Len(s) + 1 /\ DOMAIN s = 1..Len(s)
      /\ answers'[p] = s
  BY <1>0, HeadTailProperties, LenProperties
<1>3. a.kind \in Operations /\ op[p] \in [Operations -> [id : Nat, running : BOOLEAN]]
      /\ op \in [Procs -> [Operations -> [id : Nat, running : BOOLEAN]]]
      /\ "load" \in Operations
  BY <1>1 DEF Replies, TypeOK, ViewTyped, Operations
<1>4. a.id # op[p][a.kind].id => op' = op
  BY DEF ReduceAnswer
<1>5. a.id = op[p][a.kind].id /\ a.kind # "load" => op'[p]["load"] = op[p]["load"]
  <2> SUFFICES ASSUME a.id = op[p][a.kind].id, a.kind # "load" PROVE op'[p]["load"] = op[p]["load"]
    OBVIOUS
  <2>1. op' = [op EXCEPT ![p] = IF ~a.ok \/ a.kind = "confirm" THEN Done(p, a.kind)
                                ELSE [Done(p, "dismiss") EXCEPT !["confirm"] = Idle]]
    BY DEF ReduceAnswer
  <2>2. \A k \in Operations : k # "load" => Done(p, k)["load"] = op[p]["load"]
    BY <1>3 DEF Done
  <2>3. "dismiss" \in Operations /\ [Done(p, "dismiss") EXCEPT !["confirm"] = Idle]["load"] = Done(p, "dismiss")["load"]
    BY <1>3 DEF Done, Operations
  <2>4. op'[p] = IF ~a.ok \/ a.kind = "confirm" THEN Done(p, a.kind)
                 ELSE [Done(p, "dismiss") EXCEPT !["confirm"] = Idle]
    BY <1>3, <2>1
  <2> QED BY <1>3, <2>2, <2>3, <2>4
<1> HIDE DEF s, a
<1>6. \A i \in DOMAIN lane[p] : lane[p][i].kind = "load"
  BY <1>0 DEF InOrder
<1>7. ASSUME NEW i \in DOMAIN s
      PROVE  /\ s[i].kind = "load" /\ s[i].id <= op[p]["load"].id
             /\ IF i = Len(s) /\ lane[p] = <<>> THEN Awaited(p, s[i]) ELSE s[i].id # op[p]["load"].id
  <2>1. i + 1 \in DOMAIN answers[p] /\ s[i] = answers[p][i + 1] /\ i + 1 # 1
        /\ (i + 1 = Len(answers[p]) <=> i = Len(s))
    BY <1>1, <1>2
  <2> QED BY <2>1 DEF InOrder
<1>8. CASE op'[p]["load"] = op[p]["load"]
  <2>1. \A i \in DOMAIN lane[p] :
          /\ lane[p][i].id <= op'[p]["load"].id
          /\ IF i = Len(lane[p]) THEN op'[p]["load"] = [id |-> lane[p][i].id, running |-> TRUE]
             ELSE lane[p][i].id # op'[p]["load"].id
    BY <1>6, <1>8 DEF InOrder, Awaited
  <2>2. \A i \in DOMAIN s :
          /\ s[i].kind = "load" /\ s[i].id <= op'[p]["load"].id
          /\ IF i = Len(s) /\ lane[p] = <<>>
             THEN op'[p]["load"] = [id |-> s[i].id, running |-> TRUE]
             ELSE s[i].id # op'[p]["load"].id
    BY <1>7, <1>8 DEF Awaited
  <2> QED BY <1>0, <1>2, <1>6, <2>1, <2>2 DEF InOrder, Awaited
<1>9. CASE a.kind = "load" /\ a.id = op[p]["load"].id
  <2>1. 1 = Len(answers[p]) /\ lane[p] = <<>>
    BY <1>1, <1>9 DEF InOrder
  <2>2. DOMAIN answers'[p] = {} /\ DOMAIN lane'[p] = {}
    BY <1>0, <1>2, <2>1
  <2> QED BY <2>2 DEF InOrder
<1> QED BY <1>4, <1>5, <1>8, <1>9

-----------------------------------------------------------------------------
(* Every step keeps the order of the queues. *)

LEMMA HostKeepsQueues ==
  ASSUME IInv, \A q \in Procs : QueuesOK(q), NEW p \in Procs,
         \/ Prepare(p) \/ TryLock(p) \/ ClearRecord(p) \/ Publish(p) \/ FindOwner(p) \/ Send(p)
         \/ Shutdown(p) \/ Unlock(p) \/ Accept(p) \/ LoadProviders(p)
  PROVE  \A q \in Procs : QueuesOK(q)'
<1>0. at \in [Procs -> Places]
  BY DEF IInv, TypeOK, HostTyped
<1>1. UNCHANGED <<op, lane, answers>>
  BY DEF view, Prepare, TryLock, ClearRecord, Publish, FindOwner, Send, Shutdown, Unlock, Accept,
     LoadProviders
<1>2. \A q \in Procs : /\ at'[q] = "running" <=> at[q] = "running"
                       /\ at'[q] \in Starting => at[q] \in Starting
  <2>1. CASE Prepare(p) \/ TryLock(p) \/ ClearRecord(p) \/ Publish(p)
    BY <1>0, <2>1 DEF Prepare, TryLock, ClearRecord, Publish, Go, Starting
  <2>2. CASE FindOwner(p) \/ Send(p) \/ Shutdown(p) \/ Unlock(p)
    BY <1>0, <2>2 DEF FindOwner, Send, Shutdown, Unlock, Go, Starting
  <2>3. CASE Accept(p) \/ LoadProviders(p)
    BY <2>3 DEF Accept, LoadProviders, host
  <2> QED BY <2>1, <2>2, <2>3
<1> QED BY <1>1, <1>2, QueuesStay

LEMMA EndKeepsQueues ==
  ASSUME IInv, \A q \in Procs : QueuesOK(q), NEW p \in Procs,
         Exit(p) \/ TimesOut(p) \/ InitFails(p) \/ Crash(p) \/ Quit(p)
  PROVE  \A q \in Procs : QueuesOK(q)'
<1>1. /\ at'[p] \in {"gone", "quitting"} /\ answers'[p] = <<>>
      /\ \A q \in Procs \ {p} : /\ at'[q] = at[q] /\ lane'[q] = lane[q]
                                /\ answers'[q] = answers[q] /\ op'[q] = op[q]
  <2>1. CASE Quit(p)
    BY <2>1 DEF Quit, Go, WindowCloses, IInv, TypeOK, HostTyped, ViewTyped
  <2>2. CASE Ended(p)
    BY <2>2 DEF Ended, Go, WindowCloses, IInv, TypeOK, HostTyped, ViewTyped
  <2> QED BY <2>1, <2>2 DEF Exit, TimesOut, InitFails, Crash
<1> QED BY <1>1, QueuesStay, QueuesClosed DEF Starting

LEMMA AskingKeepsQueues ==
  ASSUME IInv, \A q \in Procs : QueuesOK(q), NEW p \in Procs,
         \/ StartApp(p) \/ ReduceEvent(p) \/ Focus(p)
         \/ ConfirmPendingImport(p) \/ DismissPendingImport(p)
  PROVE  \A q \in Procs : QueuesOK(q)'
<1>0. TypeOK /\ at \in [Procs -> Places]
  BY DEF IInv, TypeOK, HostTyped
<1>1. answers' = answers /\ at'[p] = "running" /\ \A q \in Procs \ {p} : at'[q] = at[q]
  <2>1. CASE StartApp(p)
    BY <1>0, <2>1 DEF StartApp, Go
  <2> QED BY <2>1 DEF ReduceEvent, Focus, ConfirmPendingImport, DismissPendingImport, Open, host
<1>2. InOrder(p)
  <2>1. CASE StartApp(p)
    <3>1. lane[p] = <<>> /\ answers[p] = <<>>
      BY <2>1 DEF StartApp, QueuesOK, Starting
    <3> QED BY <3>1 DEF InOrder
  <2> QED BY <2>1 DEF QueuesOK, Open, ReduceEvent, Focus, ConfirmPendingImport, DismissPendingImport
<1>3. \/ LoadPendingImport(p) \/ UNCHANGED <<op, lane>>
      \/ Quiet(p) /\ shown[p] # None /\ Begin(p, "confirm", shown[p], known[p])
      \/ Quiet(p) /\ shown[p] # None /\ Begin(p, "dismiss", shown[p], None)
  BY DEF StartApp, ReduceEvent, Focus, ConfirmPendingImport, DismissPendingImport
<1>4. CASE UNCHANGED <<op, lane>>
  <2>1. InOrder(p)'
    BY <1>1, <1>2, <1>4 DEF InOrder, Awaited
  <2>2. \A q \in Procs \ {p} : QueuesOK(q)'
    BY <1>1, <1>4, QueuesStay
  <2> QED BY <1>1, <2>1, <2>2 DEF QueuesOK, Starting
<1>5. ASSUME NEW o \in Operations, NEW link \in Maybe(Links), NEW r \in Revisions,
             Begin(p, o, link, r), o # "load" => Quiet(p)
      PROVE  \A q \in Procs : QueuesOK(q)'
  <2>1. o # "load" => lane[p] = <<>> /\ answers[p] = <<>>
    BY <1>0, <1>2, <1>5, QuietIsEmpty
  <2>2. InOrder(p)'
    BY <1>0, <1>1, <1>2, <1>5, <2>1, BeginKeepsOrder
  <2>3. \A q \in Procs \ {p} : lane'[q] = lane[q] /\ op'[q] = op[q]
    BY <1>0, <1>5, WhatBegins
  <2>4. \A q \in Procs \ {p} : QueuesOK(q)'
    BY <1>1, <2>3, QueuesStay
  <2> QED BY <1>1, <2>2, <2>4 DEF QueuesOK, Starting
<1>6. /\ shown[p] \in Maybe(Links) /\ known[p] \in Revisions
      /\ "load" \in Operations /\ "confirm" \in Operations /\ "dismiss" \in Operations
  BY <1>0 DEF TypeOK, ViewTyped, Operations
<1> QED BY <1>3, <1>4, <1>5, <1>6, Nothing DEF LoadPendingImport

(* What the worker of a running window answers, and what it does otherwise.  *)
LEMMA WhatWorkerDoes ==
  ASSUME IInv, NEW p \in Procs, ServeConfirm(p) \/ ClearPending(p) \/ ServeDismiss(p)
  PROVE  /\ lane[p] # <<>> /\ Head(lane[p]).kind # "load"
         /\ UNCHANGED <<host, events, shown, known, op, approved>>
         /\ \/ UNCHANGED <<lane, answers, pending, missed>> /\ ServeConfirm(p)
            \/ /\ Served(p)
               /\ \/ /\ pending' = None /\ missed' = (missed \/ (pending # None /\ lock # p))
                     /\ \E r \in Revisions : Answered(p, Answer(Head(lane[p]), TRUE, None, r))
                  \/ /\ UNCHANGED <<pending, missed>>
                     /\ Answered(p, Answer(Head(lane[p]), FALSE, None, None))
<1>1. CASE ServeConfirm(p)
  BY <1>1 DEF ServeConfirm, Turn
<1>2. CASE ClearPending(p)
  <2>1. holder = p /\ p # None
    BY <1>2, NamesAssumption DEF ClearPending
  <2>2. lane[p] # <<>> /\ Head(lane[p]).kind = "confirm"
    BY <2>1, TailTyped DEF IInv, HolderConfirms, TypeOK, ViewTyped
  <2>3. settings \in Revisions
    BY DEF IInv, TypeOK, FilesTyped, Revisions, Maybe
  <2> QED BY <1>2, <2>2, <2>3 DEF ClearPending, Clear
<1>3. CASE ServeDismiss(p)
  BY <1>3, Nothing DEF ServeDismiss, Turn, Clear
<1> QED BY <1>1, <1>2, <1>3

LEMMA WorkerKeepsQueues ==
  ASSUME IInv, \A q \in Procs : QueuesOK(q), NEW p \in Procs, Worker(p)
  PROVE  \A q \in Procs : QueuesOK(q)'
<1>0. TypeOK /\ HolderConfirms
  BY DEF IInv
<1>1. op' = op /\ at' = at
  BY DEF Worker, ServeLoad, ServeConfirm, ClearPending, ServeDismiss, host
<1>2. CASE ServeLoad(p)
  <2> PICK n \in DOMAIN lane[p] :
       /\ lane' = [lane EXCEPT ![p] = SubSeq(@, n + 1, Len(@))]
       /\ \E answer : Answered(p, answer)
    BY <1>2 DEF ServeLoad
  <2>1. \A q \in Procs \ {p} : lane'[q] = lane[q]
    BY <1>0 DEF TypeOK, ViewTyped
  <2>2. (\A q \in Procs \ {p} : answers'[q] = answers[q]) /\ (at[p] # "running" => answers' = answers)
    BY <1>0, AnsweredAlone
  <2>3. \A q \in Procs \ {p} : QueuesOK(q)'
    BY <1>1, <2>1, <2>2, QueuesStay
  <2>4. QueuesOK(p)'
    <3>1. CASE at[p] = "running"
      BY <1>0, <1>1, <1>2, <3>1, ServeLoadKeepsOrder DEF QueuesOK, Starting
    <3>2. CASE at[p] # "running"
      BY <1>1, <1>2, <2>2, <3>2 DEF QueuesOK, ServeLoad, Turn, Working, Starting
    <3> QED BY <3>1, <3>2
  <2> QED BY <2>3, <2>4
<1>3. CASE ServeConfirm(p) \/ ClearPending(p) \/ ServeDismiss(p)
  <2>1. /\ lane[p] # <<>> /\ Head(lane[p]).kind # "load"
        /\ \/ UNCHANGED <<lane, answers, pending, missed>> /\ ServeConfirm(p)
           \/ /\ Served(p)
              /\ \E r \in Revisions, ok \in BOOLEAN : Answered(p, Answer(Head(lane[p]), ok, None, r))
    BY <1>3, WhatWorkerDoes, Nothing
  <2>2. CASE UNCHANGED <<lane, answers>>
    BY <1>1, <2>2, QueuesStay
  <2>3. CASE /\ Served(p)
             /\ \E r \in Revisions, ok \in BOOLEAN : Answered(p, Answer(Head(lane[p]), ok, None, r))
    <3> PICK r \in Revisions, ok \in BOOLEAN : Answered(p, Answer(Head(lane[p]), ok, None, r))
      BY <2>3
    <3>1. \A q \in Procs \ {p} : lane'[q] = lane[q]
      BY <1>0, <2>3 DEF TypeOK, ViewTyped, Served
    <3>2. (\A q \in Procs \ {p} : answers'[q] = answers[q]) /\ (at[p] # "running" => answers' = answers)
      BY <1>0, AnsweredAlone
    <3>3. \A q \in Procs \ {p} : QueuesOK(q)'
      BY <1>1, <3>1, <3>2, QueuesStay
    <3>4. QueuesOK(p)'
      <4>1. CASE at[p] = "running"
        <5>1. InOrder(p)
          BY <4>1 DEF QueuesOK
        <5>2. InOrder(p)'
          BY <1>0, <1>1, <2>1, <2>3, <4>1, <5>1, ServedKeepsOrder, Nothing
        <5> QED BY <1>1, <4>1, <5>2 DEF QueuesOK, Starting
      <4>2. CASE at[p] # "running"
        BY <1>1, <2>1, <3>2, <4>2 DEF QueuesOK
      <4> QED BY <4>1, <4>2
    <3> QED BY <3>3, <3>4
  <2> QED BY <2>1, <2>2, <2>3
<1> QED BY <1>2, <1>3 DEF Worker

LEMMA ReduceKeepsQueues ==
  ASSUME IInv, \A q \in Procs : QueuesOK(q), NEW p \in Procs, ReduceAnswer(p)
  PROVE  \A q \in Procs : QueuesOK(q)'
<1>0. TypeOK
  BY DEF IInv
<1>1. /\ at' = at /\ at[p] = "running" /\ lane' = lane
      /\ \A q \in Procs \ {p} : answers'[q] = answers[q] /\ op'[q] = op[q]
  BY <1>0 DEF ReduceAnswer, Open, host, TypeOK, ViewTyped
<1>2. \A q \in Procs \ {p} : QueuesOK(q)'
  BY <1>1, QueuesStay
<1>3. InOrder(p)'
  BY <1>0, <1>1, ReduceKeepsOrder DEF QueuesOK
<1> QED BY <1>1, <1>2, <1>3 DEF QueuesOK, Starting

LEMMA QueuesKept ==
  ASSUME IInv, \A q \in Procs : QueuesOK(q), NEW p \in Procs,
         \/ Prepare(p) \/ Lifecycle(p) \/ TimesOut(p) \/ InitFails(p) \/ Crash(p)
         \/ Window(p) \/ Worker(p) \/ User(p)
  PROVE  \A q \in Procs : QueuesOK(q)'
BY HostKeepsQueues, EndKeepsQueues, AskingKeepsQueues, WorkerKeepsQueues, ReduceKeepsQueues
   DEF Lifecycle, Window, User

-----------------------------------------------------------------------------
(* What is pending is shown, or somebody is about to tell. *)

LEMMA ShownStays ==
  ASSUME NEW q \in Procs, WillShow(q), lane'[q] = lane[q], answers'[q] = answers[q],
         shown'[q] = shown[q], pending' = pending
  PROVE  WillShow(q)'
BY DEF WillShow, LastAnswer

LEMMA ToldStays ==
  ASSUME NEW p \in Procs, NEW q \in Procs, WillBeTold(q),
         (\E i \in DOMAIN events[q] : events[q][i] = "reload") => WillBeTold(q)' \/ missed',
         (\E i \in DOMAIN backlog[q] : backlog[q][i] = [nonce |-> q, action |-> "reload"])
           => WillBeTold(q)' \/ missed',
         \A r \in Procs \ {p} : at'[r] = at[r] /\ action'[r] = action[r] /\ client'[r] = client[r],
         p # q /\ action[p] = "reload"
           /\ (at[p] \in {"lock", "wait"} \/ (at[p] = "send" /\ client[p].nonce = q))
           => WillBeTold(q)' \/ missed'
  PROVE  WillBeTold(q)' \/ missed'
BY DEF WillBeTold

(* A process that has just the record leads to the one that runs. *)
LEMMA OwnerIsFound ==
  ASSUME IInv, RecordsLead, NEW q \in Procs, at[q] = "running"
  PROVE  /\ record # None /\ record.nonce = q /\ record.address = bound[q] /\ OwnerAnswers
         /\ \A r \in Procs : bound[r] = bound[q] => r = q
<1>1. lock = q /\ q # None
  BY NamesAssumption DEF IInv, OneOwner, Owning
<1>2. record # None /\ bound[q] # None /\ Leads(record)
  BY DEF RecordsLead, Listening
<1>3. record.nonce = q
  BY <1>1, <1>2 DEF IInv, RecordOfOwner
<1>4. record.address = bound[q]
  BY <1>2, <1>3 DEF Leads, Listening
<1>5. \A r \in Procs : bound[r] = bound[q] => r = q
  BY <1>2, NamesAssumption DEF RecordsLead
<1> QED BY <1>2, <1>3, <1>4, <1>5 DEF OwnerAnswers, Answers

(* A step of another process that is not the owner. *)
LEMMA OthersKept ==
  ASSUME IInv, RecordsLead, NEW p \in Procs, NEW q \in Procs, p # q, NotForgotten(q),
         at'[q] = at[q], lane'[q] = lane[q], answers'[q] = answers[q],
         shown'[q] = shown[q], events'[q] = events[q],
         \A i \in DOMAIN backlog[q] : i \in DOMAIN backlog'[q] /\ backlog'[q][i] = backlog[q][i],
         \A r \in Procs \ {p} : at'[r] = at[r] /\ action'[r] = action[r] /\ client'[r] = client[r],
         missed => missed',
         at[q] = "running" /\ pending' # pending => WillBeTold(q)' \/ missed',
         at[q] = "running" /\ action[p] = "reload"
           /\ (at[p] \in {"lock", "wait"} \/ (at[p] = "send" /\ client[p].nonce = q))
           => WillBeTold(q)' \/ missed'
  PROVE  NotForgotten(q)'
<1> SUFFICES ASSUME at[q] = "running" PROVE WillShow(q)' \/ WillBeTold(q)' \/ missed'
  BY DEF NotForgotten
<1>1. WillShow(q) => WillShow(q)' \/ WillBeTold(q)' \/ missed'
  BY ShownStays
<1>2. (\E i \in DOMAIN events[q] : events[q][i] = "reload") => WillBeTold(q)'
  BY DEF WillBeTold
<1>3. (\E i \in DOMAIN backlog[q] : backlog[q][i] = [nonce |-> q, action |-> "reload"])
        => WillBeTold(q)'
  BY DEF WillBeTold
<1>4. WillBeTold(q) => WillBeTold(q)' \/ missed'
  BY <1>2, <1>3, ToldStays
<1> QED BY <1>1, <1>4 DEF NotForgotten

(* The steps of a process towards or from the owner, for who owns now. *)
LEMMA ComingAndGoing ==
  ASSUME IInv, RecordsLead, NEW p \in Procs, NEW q \in Procs, p # q, NotForgotten(q),
         at[q] = "running",
         \/ Prepare(p) \/ TryLock(p) \/ FindOwner(p) \/ Send(p) \/ TimesOut(p)
         \/ Crash(p) \/ Exit(p)
  PROVE  NotForgotten(q)'
<1>0. TypeOK /\ lock = q /\ q # None /\ at[p] \notin Owning
  BY NamesAssumption DEF IInv, OneOwner, Owning
<1>1. /\ record # None /\ record.nonce = q /\ record.address = bound[q] /\ OwnerAnswers
      /\ \A r \in Procs : bound[r] = bound[q] => r = q
  BY OwnerIsFound
<1>2. /\ at \in [Procs -> Places] /\ action \in [Procs -> Actions]
      /\ client \in [Procs -> Maybe(Records)] /\ backlog \in [Procs -> Seq(Frames)]
      /\ lane \in [Procs -> Seq(Requests)]
  BY <1>0 DEF TypeOK, HostTyped, ViewTyped
<1>3. CASE Prepare(p)
  <2>1. /\ at[p] = "away" /\ at' = [at EXCEPT ![p] = "lock"]
        /\ UNCHANGED <<client, backlog, events, lane, answers, shown, missed>>
        /\ \/ action' = [action EXCEPT ![p] = "reload"]
           \/ UNCHANGED <<action, pending>>
    BY <1>3 DEF Prepare, Go, view
  <2>2. pending' # pending => WillBeTold(q)'
    BY <1>2, <2>1 DEF WillBeTold
  <2> QED BY <1>2, <2>1, <2>2, OthersKept
<1>4. CASE TryLock(p)
  <2>1. /\ at' = [at EXCEPT ![p] = "wait"]
        /\ UNCHANGED <<action, client, pending, backlog, events, lane, answers, shown, missed>>
    BY <1>0, <1>4 DEF TryLock, Go, view, files
  <2>2. action[p] = "reload" => WillBeTold(q)'
    BY <1>2, <2>1 DEF WillBeTold
  <2> QED BY <1>2, <2>1, <2>2, OthersKept
<1>5. CASE FindOwner(p)
  <2>1. /\ at' = [at EXCEPT ![p] = "send"] /\ client' = [client EXCEPT ![p] = record]
        /\ UNCHANGED <<action, pending, backlog, events, lane, answers, shown, missed>>
    BY <1>5 DEF FindOwner, Go, view, files
  <2>2. action[p] = "reload" => WillBeTold(q)'
    BY <1>1, <1>2, <2>1 DEF WillBeTold
  <2> QED BY <1>2, <2>1, <2>2, OthersKept
<1>6. CASE Send(p)
  <2> DEFINE e == [nonce |-> client[p].nonce, action |-> action[p]]
  <2>1. /\ at[p] = "send" /\ at' = [at EXCEPT ![p] = "gone"]
        /\ client' = [client EXCEPT ![p] = None]
        /\ UNCHANGED <<action, pending, events, lane, answers, shown, missed>>
        /\ \/ \E r \in Procs : /\ bound[r] = client[p].address
                               /\ backlog' = [backlog EXCEPT ![r] = Append(@, e)]
           \/ ~Answers(client[p].address) /\ UNCHANGED backlog
    BY <1>6 DEF Send, Go, view, files
  <2>2. client[p] # None /\ client[p] \in Records /\ Leads(client[p])
    BY <1>0, <1>2, <2>1 DEF TypeOK, HostTyped, RecordsLead, Maybe
  <2>3. e \in Frames
    BY <1>2, <2>2 DEF Records, Frames
  <2> HIDE DEF e
  <2>4. backlog[q] \in Seq(Frames) /\ backlog'[q] \in {backlog[q], Append(backlog[q], e)}
    BY <1>2, <2>1
  <2>5. \A i \in DOMAIN backlog[q] : i \in DOMAIN backlog'[q] /\ backlog'[q][i] = backlog[q][i]
    <3> DEFINE s == backlog[q]
    <3>1. /\ Len(s) \in Nat /\ DOMAIN s = 1..Len(s) /\ DOMAIN Append(s, e) = 1..(Len(s) + 1)
          /\ \A i \in 1..Len(s) : Append(s, e)[i] = s[i]
      BY <2>3, <2>4, AppendProperties, LenProperties
    <3> HIDE DEF s
    <3>2. backlog'[q] \in {s, Append(s, e)}
      BY <2>4 DEF s
    <3> QED BY <3>1, <3>2 DEF s
  <2>6. action[p] = "reload" /\ client[p].nonce = q => WillBeTold(q)'
    <3> SUFFICES ASSUME action[p] = "reload", client[p].nonce = q PROVE WillBeTold(q)'
      OBVIOUS
    <3>1. client[p].address = bound[q]
      BY <2>2 DEF Leads, Listening
    <3>2. Answers(client[p].address)
      BY <3>1 DEF Answers
    <3>3. backlog' = [backlog EXCEPT ![q] = Append(@, e)]
      BY <1>1, <2>1, <3>1, <3>2
    <3>4. backlog'[q] = Append(backlog[q], e)
      BY <1>2, <3>3
    <3>5. Len(backlog[q]) + 1 \in DOMAIN backlog'[q] /\ backlog'[q][Len(backlog[q]) + 1] = e
      BY <2>3, <2>4, <3>4, AppendProperties, LenProperties
    <3>6. e = [nonce |-> q, action |-> "reload"]
      BY DEF e
    <3> QED BY <3>5, <3>6 DEF WillBeTold
  <2> QED BY <1>2, <2>1, <2>5, <2>6, OthersKept
<1>7. CASE TimesOut(p) \/ Crash(p) \/ Exit(p)
  <2>1. /\ Ended(p) /\ UNCHANGED <<action, pending>>
        /\ missed => missed'
    <3>1. CASE TimesOut(p) \/ Exit(p)
      BY <3>1 DEF TimesOut, Exit
    <3>2. CASE Crash(p)
      BY <3>2, Zenon DEF Crash
    <3> QED BY <1>7, <3>1, <3>2
  <2>2. action[p] = "reload" /\ at[p] \in {"lock", "wait", "send"} => missed'
    BY <1>1, <1>7 DEF TimesOut, Crash, Exit
  <2>3. /\ \A r \in Procs \ {p} : at'[r] = at[r] /\ client'[r] = client[r]
        /\ lane'[q] = lane[q] /\ backlog'[q] = backlog[q] /\ answers'[q] = answers[q]
        /\ shown'[q] = shown[q] /\ events'[q] = events[q]
    BY <1>0, <2>1 DEF Ended, Go, WindowCloses, TypeOK, HostTyped, ViewTyped
  <2> QED BY <2>1, <2>2, <2>3, OthersKept
<1> QED BY <1>3, <1>4, <1>5, <1>6, <1>7

(* A worker that outlived its window clears the file of who owns now. *)
LEMMA OldWorker ==
  ASSUME IInv, RecordsLead, NEW p \in Procs, NEW q \in Procs, p # q, NotForgotten(q),
         at[q] = "running", Worker(p)
  PROVE  NotForgotten(q)'
<1>0. TypeOK /\ lock = q /\ at[p] \notin Owning /\ at[p] # "running"
  BY DEF IInv, OneOwner, Owning
<1>1. /\ UNCHANGED <<host, events, shown>> /\ (missed => missed')
      /\ pending' # pending => missed'
      /\ lane' = [lane EXCEPT ![p] = lane'[p]] /\ answers' = answers
  <2>1. CASE ServeLoad(p)
    <3> PICK n \in DOMAIN lane[p] :
       /\ lane' = [lane EXCEPT ![p] = SubSeq(@, n + 1, Len(@))]
       /\ \E answer : Answered(p, answer)
       /\ missed' = missed \/ missed' = TRUE
      BY <2>1 DEF ServeLoad
    <3>1. answers' = answers
      BY <1>0, AnsweredAlone
    <3>2. lane' = [lane EXCEPT ![p] = lane'[p]]
      BY <1>0 DEF TypeOK, ViewTyped
    <3> QED BY <2>1, <3>1, <3>2 DEF ServeLoad, files
  <2>2. CASE ServeConfirm(p) \/ ClearPending(p) \/ ServeDismiss(p)
    <3>1. /\ UNCHANGED <<host, events, shown, known, op, approved>>
          /\ \/ UNCHANGED <<lane, answers, pending, missed>>
             \/ /\ Served(p)
                /\ \/ /\ pending' = None /\ missed' = (missed \/ (pending # None /\ lock # p))
                      /\ \E r \in Revisions : Answered(p, Answer(Head(lane[p]), TRUE, None, r))
                   \/ /\ UNCHANGED <<pending, missed>>
                      /\ Answered(p, Answer(Head(lane[p]), FALSE, None, None))
      BY <2>2, WhatWorkerDoes
    <3>2. answers' = answers
      BY <1>0, <3>1, AnsweredAlone
    <3>3. lane' = [lane EXCEPT ![p] = lane'[p]]
      BY <1>0, <3>1 DEF TypeOK, ViewTyped, Served
    <3>4. (missed => missed') /\ (pending' # pending => missed')
      <4>1. CASE UNCHANGED <<pending, missed>>
        BY <4>1
      <4>2. CASE pending' = None /\ missed' = (missed \/ (pending # None /\ lock # p))
        <5>1. missed' = (missed \/ pending # None)
          BY <1>0, <4>2
        <5> QED BY <4>2, <5>1, Zenon
      <4> QED BY <3>1, <4>1, <4>2
    <3> QED BY <3>1, <3>2, <3>3, <3>4
  <2> QED BY <2>1, <2>2 DEF Worker
<1>2. lane'[q] = lane[q]
  BY <1>0, <1>1 DEF TypeOK, ViewTyped
<1>3. WillBeTold(q) => WillBeTold(q)'
  BY <1>1 DEF WillBeTold, host
<1>4. WillShow(q) => WillShow(q)' \/ missed'
  BY <1>1, <1>2, ShownStays
<1> QED BY <1>1, <1>3, <1>4 DEF NotForgotten

(* The window's own steps, and its worker's. *)

LEMMA AskingShows ==
  ASSUME IInv, NEW p \in Procs, LoadPendingImport(p)
  PROVE  WillShow(p)'
<1>1. Begin(p, "load", None, None) /\ "load" \in Operations /\ TypeOK
  BY DEF LoadPendingImport, Operations, IInv
<1>2. /\ DOMAIN lane'[p] = 1..(Len(lane[p]) + 1) /\ Len(lane[p]) \in Nat
      /\ lane'[p][Len(lane[p]) + 1].kind = "load"
  BY <1>1, WhatBegins, Nothing
<1>3. Len(lane[p]) + 1 \in DOMAIN lane'[p]
  BY <1>2
<1> QED BY <1>2, <1>3 DEF WillShow

LEMMA AcceptTells ==
  ASSUME IInv, NEW p \in Procs, NotForgotten(p), Accept(p)
  PROVE  NotForgotten(p)'
<1> DEFINE f == Head(backlog[p])
           s == Tail(backlog[p])
<1>0. /\ backlog[p] \in Seq(Frames) /\ events[p] \in Seq(Actions) /\ f \in Frames
      /\ \A i \in DOMAIN backlog[p] : i = 1 \/ (i - 1 \in DOMAIN s /\ s[i - 1] = backlog[p][i])
      /\ f = backlog[p][1]
  <2>1. backlog[p] \in Seq(Frames) /\ events[p] \in Seq(Actions) /\ backlog[p] # <<>>
    BY DEF IInv, TypeOK, HostTyped, ViewTyped, Accept
  <2>2. /\ f \in Frames /\ f = backlog[p][1] /\ Len(s) = Len(backlog[p]) - 1
        /\ s \in Seq(Frames) /\ \A i \in 1..Len(s) : s[i] = backlog[p][i + 1]
    BY <2>1, HeadTailProperties
  <2>3. DOMAIN s = 1..Len(s) /\ DOMAIN backlog[p] = 1..Len(backlog[p]) /\ Len(backlog[p]) \in Nat
    BY <2>1, <2>2, LenProperties
  <2> HIDE DEF s, f
  <2>4. ASSUME NEW i \in DOMAIN backlog[p], i # 1
        PROVE  i - 1 \in DOMAIN s /\ s[i - 1] = backlog[p][i]
    <3>1. i \in Nat /\ i - 1 \in 1..Len(s) /\ (i - 1) + 1 = i
      BY <2>2, <2>3, <2>4
    <3>2. s[i - 1] = backlog[p][(i - 1) + 1]
      BY <2>2, <3>1
    <3> QED BY <2>3, <3>1, <3>2
  <2> QED BY <2>1, <2>2, <2>4
<1>1. /\ at[p] = "running" /\ at'[p] = "running" /\ backlog'[p] = s
      /\ UNCHANGED <<at, action, client, lane, answers, shown, pending>>
  BY DEF Accept, Open, view, files, IInv, TypeOK, HostTyped
<1>2. WillShow(p) => WillShow(p)'
  BY <1>1, ShownStays
<1>3. \/ f.nonce = p /\ events'[p] = Append(events[p], f.action) /\ missed' = missed
      \/ f.nonce # p /\ events'[p] = events[p] /\ missed' = missed
      \/ f.nonce = p /\ missed' = TRUE
  BY DEF Accept, IInv, TypeOK, ViewTyped
<1>4. f.action \in Actions
  BY <1>0 DEF Frames
<1> HIDE DEF s, f
<1>5. /\ \A i \in DOMAIN events[p] : i \in DOMAIN Append(events[p], f.action)
                                     /\ Append(events[p], f.action)[i] = events[p][i]
      /\ Len(events[p]) + 1 \in DOMAIN Append(events[p], f.action)
      /\ Append(events[p], f.action)[Len(events[p]) + 1] = f.action
  <2> DEFINE t == events[p]
             u == Append(t, f.action)
  <2>1. /\ Len(t) \in Nat /\ DOMAIN t = 1..Len(t) /\ DOMAIN u = 1..(Len(t) + 1)
        /\ u[Len(t) + 1] = f.action /\ \A i \in 1..Len(t) : u[i] = t[i]
    BY <1>0, <1>4, AppendProperties, LenProperties
  <2> HIDE DEF t, u
  <2>2. (\A i \in DOMAIN t : i \in DOMAIN u /\ u[i] = t[i]) /\ Len(t) + 1 \in DOMAIN u
    BY <2>1
  <2> QED BY <2>1, <2>2 DEF t, u
<1>6. (\E i \in DOMAIN events[p] : events[p][i] = "reload") => WillBeTold(p)' \/ missed'
  BY <1>3, <1>5 DEF WillBeTold
<1>7. (\E i \in DOMAIN backlog[p] : backlog[p][i] = [nonce |-> p, action |-> "reload"])
        => WillBeTold(p)' \/ missed'
  <2> SUFFICES ASSUME NEW i \in DOMAIN backlog[p],
                      backlog[p][i] = [nonce |-> p, action |-> "reload"]
               PROVE  WillBeTold(p)' \/ missed'
    OBVIOUS
  <2>1. CASE i = 1
    <3>1. f.nonce = p /\ f.action = "reload"
      BY <1>0, <2>1
    <3> QED BY <1>3, <1>5, <3>1 DEF WillBeTold
  <2>2. CASE i # 1
    <3>1. i - 1 \in DOMAIN backlog'[p] /\ backlog'[p][i - 1] = [nonce |-> p, action |-> "reload"]
      BY <1>0, <1>1, <2>2
    <3> QED BY <3>1 DEF WillBeTold
  <2> QED BY <2>1, <2>2
<1>8. WillBeTold(p) => WillBeTold(p)' \/ missed'
  BY <1>1, <1>6, <1>7, ToldStays
<1>9. missed => missed'
  BY <1>3
<1> QED BY <1>1, <1>2, <1>8, <1>9 DEF NotForgotten

LEMMA EventAsks ==
  ASSUME IInv, NEW p \in Procs, NotForgotten(p), ReduceEvent(p)
  PROVE  NotForgotten(p)'
<1> DEFINE s == Tail(events[p])
<1>1. /\ at[p] = "running" /\ events'[p] = s
      /\ UNCHANGED <<at, action, client, backlog, answers, shown, pending, missed>>
  BY DEF ReduceEvent, Open, host, files, IInv, TypeOK, ViewTyped
<1>2. CASE Head(events[p]) = "reload"
  <2>1. WillShow(p)'
    BY <1>2, AskingShows DEF ReduceEvent
  <2> QED BY <2>1 DEF NotForgotten
<1>3. CASE Head(events[p]) # "reload"
  <2>1. WillShow(p) => WillShow(p)'
    BY <1>1, <1>3, ShownStays DEF ReduceEvent
  <2>2. events[p] \in Seq(Actions) /\ events[p] # <<>>
    BY DEF ReduceEvent, IInv, TypeOK, ViewTyped
  <2>3. /\ Head(events[p]) = events[p][1] /\ Len(s) = Len(events[p]) - 1
        /\ s \in Seq(Actions) /\ \A i \in 1..Len(s) : s[i] = events[p][i + 1]
    BY <2>2, HeadTailProperties
  <2>4. DOMAIN s = 1..Len(s) /\ DOMAIN events[p] = 1..Len(events[p]) /\ Len(events[p]) \in Nat
    BY <2>2, <2>3, LenProperties
  <2> HIDE DEF s
  <2>5. (\E i \in DOMAIN events[p] : events[p][i] = "reload") => WillBeTold(p)'
    <3> SUFFICES ASSUME NEW i \in DOMAIN events[p], events[p][i] = "reload" PROVE WillBeTold(p)'
      OBVIOUS
    <3>1. i # 1
      BY <1>3, <2>3
    <3>2. i - 1 \in DOMAIN s /\ s[i - 1] = "reload"
      BY <2>3, <2>4, <3>1
    <3> QED BY <1>1, <3>2 DEF WillBeTold
  <2>6. (\E i \in DOMAIN backlog[p] : backlog[p][i] = [nonce |-> p, action |-> "reload"])
          => WillBeTold(p)'
    BY <1>1 DEF WillBeTold
  <2>7. WillBeTold(p) => WillBeTold(p)' \/ missed'
    BY <1>1, <2>5, <2>6, ToldStays
  <2> QED BY <1>1, <2>1, <2>7 DEF NotForgotten
<1> QED BY <1>2, <1>3

(* A window that asks nothing but for what it shows. *)
LEMMA ClickShows ==
  ASSUME IInv, NEW p \in Procs, QueuesOK(p), NotForgotten(p),
         LoadProviders(p) \/ ConfirmPendingImport(p) \/ DismissPendingImport(p)
  PROVE  NotForgotten(p)'
<1>1. /\ at[p] = "running"
      /\ UNCHANGED <<at, action, client, backlog, events, answers, shown, pending, missed>>
  BY DEF LoadProviders, ConfirmPendingImport, DismissPendingImport, Open, host, files
<1>2. WillShow(p) => WillShow(p)'
  <2>1. CASE LoadProviders(p)
    BY <1>1, <2>1, ShownStays DEF LoadProviders
  <2>2. CASE Quiet(p)
    <3>1. lane[p] = <<>> /\ answers[p] = <<>>
      BY <1>1, <2>2, QuietIsEmpty DEF QueuesOK, IInv
    <3> QED BY <1>1, <3>1 DEF WillShow
  <2> QED BY <2>1, <2>2 DEF ConfirmPendingImport, DismissPendingImport
<1>3. WillBeTold(p) => WillBeTold(p)'
  BY <1>1 DEF WillBeTold
<1> QED BY <1>1, <1>2, <1>3 DEF NotForgotten

LEMMA WorkerShows ==
  ASSUME IInv, NEW p \in Procs, QueuesOK(p), NotForgotten(p), Worker(p)
  PROVE  NotForgotten(p)'
<1> SUFFICES ASSUME at'[p] = "running" PROVE NotForgotten(p)'
  BY DEF NotForgotten
<1>0. TypeOK /\ HolderConfirms
  BY DEF IInv
<1>1. /\ UNCHANGED <<at, action, client, backlog, events, shown>> /\ at[p] = "running"
      /\ InOrder(p)
  BY DEF Worker, ServeLoad, ServeConfirm, ClearPending, ServeDismiss, host, QueuesOK
<1>2. WillBeTold(p) => WillBeTold(p)'
  BY <1>1 DEF WillBeTold
<1>3. CASE ServeLoad(p)
  <2>1. /\ answers'[p] # <<>>
        /\ (LastAnswer(p)'.ok /\ LastAnswer(p)'.link = pending) \/ missed'
    BY <1>0, <1>1, <1>3, LoadsAreServed
  <2>2. pending' = pending
    BY <1>3 DEF ServeLoad, files
  <2> QED BY <2>1, <2>2 DEF NotForgotten, WillShow
<1>4. CASE ServeConfirm(p) \/ ClearPending(p) \/ ServeDismiss(p)
  <2>1. /\ lane[p] # <<>> /\ Head(lane[p]).kind # "load" /\ op' = op
        /\ \/ UNCHANGED <<lane, answers, pending, missed>>
           \/ /\ Served(p)
              /\ \/ /\ pending' = None /\ missed' = (missed \/ (pending # None /\ lock # p))
                    /\ \E r \in Revisions : Answered(p, Answer(Head(lane[p]), TRUE, None, r))
                 \/ /\ UNCHANGED <<pending, missed>>
                    /\ Answered(p, Answer(Head(lane[p]), FALSE, None, None))
    BY <1>4, WhatWorkerDoes
  <2>2. CASE UNCHANGED <<lane, answers, pending, missed>>
    BY <1>1, <1>2, <2>2, ShownStays DEF NotForgotten
  <2>3. CASE /\ Served(p) /\ pending' = None
             /\ \E r \in Revisions : Answered(p, Answer(Head(lane[p]), TRUE, None, r))
    <3> PICK r \in Revisions : Answered(p, Answer(Head(lane[p]), TRUE, None, r))
      BY <2>3
    <3>1. /\ answers'[p] # <<>> /\ Len(answers'[p]) = 1
          /\ answers'[p][1].ok = TRUE /\ answers'[p][1].link = None
      BY <1>0, <1>1, <2>1, <2>3, ServedKeepsOrder, Nothing
    <3> QED BY <2>3, <3>1 DEF NotForgotten, WillShow, LastAnswer
  <2>4. CASE /\ Served(p) /\ UNCHANGED <<pending, missed>>
             /\ Answered(p, Answer(Head(lane[p]), FALSE, None, None))
    <3>1. /\ answers[p] = <<>> /\ answers'[p] # <<>> /\ Len(answers'[p]) = 1
          /\ answers'[p][1].ok = FALSE /\ answers'[p][1].kind # "load"
          /\ \A i \in DOMAIN lane[p] :
               lane[p][i].kind = "load" => \E j \in DOMAIN lane'[p] : lane'[p][j].kind = "load"
      <4>1. FALSE \in BOOLEAN
        OBVIOUS
      <4> QED BY <1>0, <1>1, <2>1, <2>4, <4>1, ServedKeepsOrder, Nothing
    <3>2. WillShow(p) => WillShow(p)'
      BY <1>1, <2>4, <3>1 DEF WillShow, LastAnswer
    <3> QED BY <1>1, <1>2, <2>4, <3>2 DEF NotForgotten
  <2> QED BY <2>1, <2>2, <2>3, <2>4
<1> QED BY <1>3, <1>4 DEF Worker

LEMMA AnswerShows ==
  ASSUME IInv, NEW p \in Procs, QueuesOK(p), NotForgotten(p), ReduceAnswer(p)
  PROVE  NotForgotten(p)'
<1> DEFINE s == Tail(answers[p])
           a == Head(answers[p])
           n == Len(answers[p])
<1>0. TypeOK
  BY DEF IInv
<1>1. /\ UNCHANGED <<at, action, client, backlog, events, lane, pending, missed>>
      /\ at[p] = "running" /\ InOrder(p) /\ answers[p] # <<>> /\ answers'[p] = s
      /\ answers[p] \in Seq(Replies)
  BY <1>0 DEF ReduceAnswer, Open, host, files, QueuesOK, TypeOK, ViewTyped
<1>2. /\ a = answers[p][1] /\ n \in Nat /\ n # 0 /\ Len(s) = n - 1 /\ s \in Seq(Replies)
      /\ \A i \in 1..Len(s) : s[i] = answers[p][i + 1]
      /\ DOMAIN answers[p] = 1..n /\ (n = 1 => s = <<>>) /\ (n # 1 => s # <<>>)
  <2>1. /\ s \in Seq(Replies) /\ Len(s) = n - 1
        /\ \A i \in 1..Len(s) : s[i] = answers[p][i + 1]
    BY <1>1, HeadTailProperties
  <2>2. n \in Nat /\ DOMAIN answers[p] = 1..n
    BY <1>1, LenProperties
  <2>3. n # 0
    BY <1>1, EmptySeq
  <2>4. (s # <<>> => Len(s) \in Nat \ {0}) /\ Len(<<>>) = 0
    BY <2>1, EmptySeq
  <2>5. a = answers[p][1]
    BY <1>1
  <2> HIDE DEF s, a, n
  <2>6. (n = 1 => s = <<>>) /\ (n # 1 => s # <<>>)
    BY <2>1, <2>2, <2>4
  <2> QED BY <2>1, <2>2, <2>3, <2>5, <2>6
<1> HIDE DEF s, a, n
<1>3. LastAnswer(p) = answers[p][n]
  BY DEF LastAnswer, n
<1>4. WillBeTold(p) => WillBeTold(p)'
  BY <1>1 DEF WillBeTold
<1>5. ASSUME WillShow(p) PROVE WillShow(p)'
  <2>1. CASE \E i \in DOMAIN lane[p] : lane[p][i].kind = "load"
    BY <1>1, <2>1 DEF WillShow
  <2>2. CASE ~\E i \in DOMAIN lane[p] : lane[p][i].kind = "load"
    <3>1. lane[p] = <<>>
      <4>1. \A i \in DOMAIN lane[p] : FALSE
        BY <1>0, <1>1, <2>2, LoadsFollow
      <4>2. lane[p] \in Seq(Requests)
        BY <1>0 DEF TypeOK, ViewTyped
      <4>3. Len(lane[p]) \in Nat /\ DOMAIN lane[p] = 1..Len(lane[p])
        BY <4>2, LenProperties
      <4>4. Len(lane[p]) = 0
        BY <4>1, <4>3
      <4> QED BY <4>2, <4>4, EmptySeq
    <3>2. \/ answers[p][n].ok /\ answers[p][n].link = pending
          \/ ~answers[p][n].ok /\ answers[p][n].kind # "load" /\ shown[p] = pending
      BY <1>1, <1>3, <1>5, <2>2 DEF WillShow
    <3>3. CASE n # 1
      <4>1. s # <<>> /\ s[Len(s)] = answers[p][n]
        BY <1>2, <3>3
      <4>2. answers[p][n].kind = "load"
        BY <1>0, <1>1, <1>2, <3>3, LoadsFollow
      <4>3. answers'[p] # <<>> /\ LastAnswer(p)' = answers[p][n]
        BY <1>1, <4>1 DEF LastAnswer
      <4> QED BY <1>1, <3>2, <4>2, <4>3 DEF WillShow
    <3>4. CASE n = 1
      <4>1. answers'[p] = <<>> /\ a = answers[p][n]
        BY <1>1, <1>2, <3>4
      <4>2. Awaited(p, a)
        BY <1>1, <1>2, <3>1, <3>4 DEF InOrder, n
      <4>3. a.id = op[p][a.kind].id
        BY <4>2 DEF Awaited
      <4>4. shown' = IF a.ok THEN [shown EXCEPT ![p] = a.link] ELSE shown
        BY <4>3 DEF ReduceAnswer, a
      <4>5. shown'[p] = pending
        BY <1>0, <3>2, <4>1, <4>4 DEF TypeOK, ViewTyped
      <4> QED BY <1>1, <4>1, <4>5 DEF WillShow
    <3> QED BY <3>3, <3>4
  <2> QED BY <2>1, <2>2
<1> QED BY <1>1, <1>4, <1>5 DEF NotForgotten

(* Every step keeps every window from forgetting. *)
LEMMA NothingForgotten ==
  ASSUME IInv, RecordsLead, \A q \in Procs : QueuesOK(q) /\ NotForgotten(q), NEW p \in Procs,
         \/ Prepare(p) \/ Lifecycle(p) \/ TimesOut(p) \/ InitFails(p) \/ Crash(p)
         \/ Window(p) \/ Worker(p) \/ User(p),
         NEW q \in Procs
  PROVE  NotForgotten(q)'
<1>0. at \in [Procs -> Places] /\ \A o \in Procs : at[o] \in Owning <=> lock = o
  BY DEF IInv, TypeOK, HostTyped, OneOwner
<1>1. CASE p = q
  <2>1. CASE StartApp(p) \/ Focus(p)
    <3>1. LoadPendingImport(p)
      BY <2>1 DEF StartApp, Focus
    <3> QED BY <1>1, <3>1, AskingShows DEF NotForgotten
  <2>2. CASE \/ Prepare(p) \/ TryLock(p) \/ ClearRecord(p) \/ Publish(p) \/ FindOwner(p) \/ Send(p)
             \/ Shutdown(p) \/ Unlock(p) \/ Quit(p)
    <3>1. at'[p] # "running"
      BY <1>0, <2>2 DEF Prepare, TryLock, ClearRecord, Publish, FindOwner, Send, Shutdown, Unlock,
         Quit, Go
    <3> QED BY <1>1, <3>1 DEF NotForgotten
  <2>3. CASE TimesOut(p) \/ InitFails(p) \/ Crash(p) \/ Exit(p)
    <3>1. Ended(p)
      BY <2>3 DEF TimesOut, InitFails, Crash, Exit
    <3>2. at'[p] # "running"
      BY <1>0, <3>1 DEF Ended, Go
    <3> QED BY <1>1, <3>2 DEF NotForgotten
  <2> QED BY <1>1, <2>1, <2>2, <2>3, AcceptTells, EventAsks, ClickShows, WorkerShows, AnswerShows
          DEF Lifecycle, Window, User
<1>2. CASE p # q
  <2>1. at'[q] = at[q]
    <3>1. CASE Window(p) \/ Worker(p) \/ Focus(p) \/ LoadProviders(p) \/ ConfirmPendingImport(p)
               \/ DismissPendingImport(p)
      <4>1. at' = at
        <5>1. CASE Window(p)
          BY <5>1 DEF Window, Accept, ReduceEvent, ReduceAnswer, host
        <5>2. CASE Worker(p)
          BY <5>2 DEF Worker, ServeLoad, ServeConfirm, ClearPending, ServeDismiss, host
        <5> QED BY <3>1, <5>1, <5>2
                DEF Focus, LoadProviders, ConfirmPendingImport, DismissPendingImport, host
      <4> QED BY <4>1
    <3>2. CASE \E place : Go(p, place)
      BY <1>0, <1>2, <3>2 DEF Go
    <3>3. Ended(p) => Go(p, "gone")
      BY DEF Ended
    <3> QED BY <3>1, <3>2, <3>3 DEF Lifecycle, User, Prepare, TryLock, ClearRecord, Publish,
         StartApp, FindOwner, Send, Shutdown, Unlock, Exit, TimesOut, InitFails, Crash, Quit
  <2>2. CASE at[q] # "running"
    BY <2>1, <2>2 DEF NotForgotten
  <2>3. CASE at[q] = "running"
    <3>1. at[p] \notin Owning
      BY <1>0, <1>2, <2>3 DEF Owning
    <3>2. \/ Prepare(p) \/ TryLock(p) \/ FindOwner(p) \/ Send(p) \/ TimesOut(p)
          \/ Crash(p) \/ Exit(p) \/ Worker(p)
      BY <3>1 DEF Lifecycle, Window, User, ClearRecord, Publish, StartApp, Shutdown, Unlock,
         InitFails, Accept, ReduceEvent, ReduceAnswer, Focus, LoadProviders,
         ConfirmPendingImport, DismissPendingImport, Quit, Open, Owning
    <3> QED BY <1>2, <2>3, <3>2, ComingAndGoing, OldWorker
  <2> QED BY <2>2, <2>3
<1> QED BY <1>1, <1>2

(* In every reachable state records lead to their owners, the window's        *)
(* requests are answered in order, and what is pending will be shown.        *)
THEOREM HandoverInvariance == Spec => []HandoverInv
<1>1. Init => HandoverInv
  <2> SUFFICES ASSUME Init PROVE HandoverInv
    OBVIOUS
  <2>1. IInv
    BY Initial
  <2>2. RecordsLead
    BY NamesAssumption DEF Init, RecordsLead, Listening
  <2>3. \A p \in Procs : QueuesOK(p) /\ NotForgotten(p)
    BY DEF Init, QueuesOK, NotForgotten, Starting
  <2> QED BY <2>1, <2>2, <2>3 DEF HandoverInv
<1>2. HandoverInv /\ [Next]_vars => HandoverInv'
  <2> SUFFICES ASSUME HandoverInv, [Next]_vars PROVE HandoverInv'
    OBVIOUS
  <2>1. CASE UNCHANGED vars
    <3>1. UNCHANGED <<host, files, events, view, approved, missed, spent>>
      BY <2>1 DEF vars
    <3>2. IInv'
      BY <3>1 DEF host, files, view, HandoverInv, IInv, TypeOK, HostTyped, FilesTyped, ViewTyped,
         HistoryTyped, OneOwner, RecordOfOwner, HolderConfirms, AskedForApproved, OnlyApproved,
         ImportedOnce
    <3>3. RecordsLead'
      BY <3>1 DEF HandoverInv, RecordsLead, Leads, host
    <3>4. ASSUME NEW p \in Procs PROVE QueuesOK(p)' /\ NotForgotten(p)'
      <4>1. QueuesOK(p)'
        BY <3>1, QueuesStay DEF HandoverInv, host, view
      <4>2. WillShow(p) => WillShow(p)'
        BY <3>1, ShownStays DEF view, files
      <4>3. WillBeTold(p) => WillBeTold(p)'
        BY <3>1 DEF WillBeTold, host
      <4> QED BY <3>1, <4>1, <4>2, <4>3 DEF HandoverInv, NotForgotten, host
    <3> QED BY <3>2, <3>3, <3>4 DEF HandoverInv
  <2>2. CASE Next
    <3> PICK p \in Procs :
           \/ Prepare(p) \/ Lifecycle(p) \/ TimesOut(p) \/ InitFails(p) \/ Crash(p)
           \/ Window(p) \/ Worker(p) \/ User(p)
      BY <2>2 DEF Next
    <3>1. IInv /\ RecordsLead /\ \A q \in Procs : QueuesOK(q) /\ NotForgotten(q)
      BY DEF HandoverInv
    <3>2. IInv'
      BY <3>1, TypesKept, OwnersKept, LanesKept, ImportsKept DEF IInv
    <3>3. RecordsLead'
      BY <3>1, RecordsKept
    <3>4. \A q \in Procs : QueuesOK(q)'
      BY <3>1, QueuesKept
    <3>5. \A q \in Procs : NotForgotten(q)'
      BY <3>1, NothingForgotten
    <3> QED BY <3>2, <3>3, <3>4, <3>5 DEF HandoverInv
  <2> QED BY <2>1, <2>2
<1> QED BY <1>1, <1>2, PTL DEF Spec

(* The running window shows what is pending, or is loading it, or will be    *)
(* told, whoever starts, quits and dies in which order, unless something     *)
(* was lost that a change of focus mends.                                    *)
THEOREM LinksAreNotForgotten == Spec => []ShownIsPending
<1>1. HandoverInv => ShownIsPending
  <2> SUFFICES ASSUME HandoverInv, NEW p \in Procs, at[p] = "running", Quiet(p), ~OnItsWay(p), ~missed
               PROVE  shown[p] = pending
    BY DEF ShownIsPending
  <2>1. TypeOK /\ InOrder(p)
    BY DEF HandoverInv, IInv, QueuesOK
  <2>2. lane[p] = <<>> /\ answers[p] = <<>>
    BY <2>1, QuietIsEmpty
  <2>3. ~WillBeTold(p)
    BY DEF WillBeTold, OnItsWay
  <2>4. WillShow(p)
    BY <2>3 DEF HandoverInv, NotForgotten
  <2> QED BY <2>2, <2>4 DEF WillShow
<1> QED BY <1>1, HandoverInvariance, PTL
====

--------------------------- MODULE ManagerInstance ---------------------------
(***************************************************************************)
(* One manager runs at a time, and a link that is opened while it runs is   *)
(* handed to it.                                                            *)
(*                                                                          *)
(* A process that starts saves the provider import of its argument to the   *)
(* pending file, and tries the owner lock.  With the lock it listens on a   *)
(* port, publishes a record with address and nonce, and opens the window,   *)
(* which loads the pending file.  Without it, it reads the record, probes   *)
(* the address, sends what it was started for and ends.  Window and import  *)
(* worker of the owner talk over two channels; the user confirms or         *)
(* dismisses what the window shows.                                         *)
(***************************************************************************)
EXTENDS Naturals, Sequences, FiniteSets

CONSTANTS
  Procs,       \* the manager processes, each started once
  Links,       \* the provider imports a link may carry
  Arg,         \* the link a process is started with, or None
  Identity,    \* name and base URL of a link: what makes two of them the same
  Preferred,   \* the port of the guard; a process is its own fallback port
  Limit,       \* bounds: clicks of the user; changes of focus, crashes and faults
  None

Budgets == {"click", "event"}

ASSUME ArgAssumption == Arg \in [Procs -> Links \cup {None}]
ASSUME LimitAssumption == Limit \in [Budgets -> Nat]
ASSUME NamesAssumption ==
  /\ None \notin Links \cup Procs \cup {Preferred} /\ Preferred \notin Procs
  /\ None \notin [address : Procs \cup {Preferred}, nonce : Procs]

VARIABLES
  at,        \* where a process is
  action,    \* what it was started for: "show" or "reload"
  lock,      \* who holds manager-instance.lock
  record,    \* manager-instance-endpoint.json
  bound,     \* the address a process listens on
  backlog,   \* the connections waiting at its listener
  client,    \* the record a second process has read
  pending,   \* the link in the pending file
  holder,    \* who holds the lock of the pending file
  settings,  \* the profiles that came from links, in order
  events,    \* the channel from activation worker to window
  shown,     \* ImportViewState.pending
  known,     \* revision of the provider workspace the window has
  op,        \* pending_load, pending_confirm, pending_dismiss
  lane,      \* requests to the import worker
  answers,   \* its answers
  approved,  \* history: the links the user confirmed
  missed,    \* history: something was lost that a change of focus mends
  spent      \* of each budget

host  == <<at, action, lock, record, bound, backlog, client>>
files == <<pending, holder, settings>>
view  == <<shown, known, op, lane, answers>>
vars  == <<host, files, events, view, approved, missed, spent>>

Operations == {"load", "confirm", "dismiss"}
Idle       == [id |-> 0, running |-> FALSE]

Init ==
  /\ at = [p \in Procs |-> "away"] /\ action = [p \in Procs |-> "show"]
  /\ lock = None /\ record = None
  /\ bound = [p \in Procs |-> None] /\ backlog = [p \in Procs |-> <<>>]
  /\ client = [p \in Procs |-> None]
  /\ pending = None /\ holder = None /\ settings = <<>>
  /\ events = [p \in Procs |-> <<>>]
  /\ shown = [p \in Procs |-> None] /\ known = [p \in Procs |-> None]
  /\ op = [p \in Procs |-> [o \in Operations |-> Idle]]
  /\ lane = [p \in Procs |-> <<>>] /\ answers = [p \in Procs |-> <<>>]
  /\ approved = {} /\ missed = FALSE /\ spent = [b \in Budgets |-> 0]

Spend(b) == spent[b] < Limit[b] /\ spent' = [spent EXCEPT ![b] = @ + 1]
Go(p, place) == at' = [at EXCEPT ![p] = place]
-----------------------------------------------------------------------------
(* Starting. *)

(* prepare: a link that cannot be saved leaves only Show to do. *)
Prepare(p) ==
  /\ at[p] = "away" /\ Go(p, "lock")
  /\ \/ /\ Arg[p] # None /\ holder = None
        /\ pending' = Arg[p] /\ action' = [action EXCEPT ![p] = "reload"]
        /\ UNCHANGED spent
     \/ /\ IF Arg[p] = None THEN UNCHANGED spent ELSE Spend("event")
        /\ UNCHANGED <<action, pending>>
  /\ UNCHANGED <<lock, record, bound, backlog, client, holder, settings, events, view, approved, missed>>

(* acquire_manager_instance *)
TryLock(p) ==
  /\ at[p] = "lock"
  /\ IF lock = None THEN lock' = p /\ Go(p, "clear") ELSE Go(p, "wait") /\ UNCHANGED lock
  /\ UNCHANGED <<action, record, bound, backlog, client, files, events, view, approved, missed, spent>>

(* Mutant: a record that stands is left. *)
ClearRecordNot(p) ==
  /\ at[p] = "clear" /\ Go(p, "publish")
  /\ UNCHANGED <<action, lock, record, bound, backlog, client, files, events, view, approved, missed, spent>>

(* acquire_primary, up to the removal of the record of an owner that crashed. *)
ClearRecord(p) ==
  /\ at[p] = "clear" /\ Go(p, "publish")
  /\ record' = None
  /\ UNCHANGED <<action, lock, bound, backlog, client, files, events, view, approved, missed, spent>>

(* The end of acquire_primary: the preferred port is still taken while the  *)
(* last owner closes, and the record is published with the listener bound.  *)
Publish(p) ==
  /\ at[p] = "publish" /\ Go(p, "start")
  /\ LET address == IF \E q \in Procs : bound[q] = Preferred THEN p ELSE Preferred IN
     /\ bound'  = [bound EXCEPT ![p] = address]
     /\ record' = [address |-> address, nonce |-> p]
  /\ UNCHANGED <<action, lock, backlog, client, files, events, view, approved, missed, spent>>

(* What a window knows that nobody looks at any more. *)
WindowCloses(p) ==
  /\ events' = [events EXCEPT ![p] = <<>>] /\ answers' = [answers EXCEPT ![p] = <<>>]
  /\ shown' = [shown EXCEPT ![p] = None] /\ known' = [known EXCEPT ![p] = None]
  /\ op' = [op EXCEPT ![p] = [o \in Operations |-> Idle]]

(* What ends a process: its locks, listener and channels go with it. *)
Ended(p) ==
  /\ Go(p, "gone") /\ WindowCloses(p)
  /\ lock' = IF lock = p THEN None ELSE lock
  /\ holder' = IF holder = p THEN None ELSE holder
  /\ bound' = [bound EXCEPT ![p] = None] /\ backlog' = [backlog EXCEPT ![p] = <<>>]
  /\ lane' = [lane EXCEPT ![p] = <<>>]
  /\ client' = [client EXCEPT ![p] = None]

(* An owner that cannot clear, bind or publish gives up. *)
InitFails(p) ==
  /\ at[p] \in {"clear", "publish"} /\ Spend("event")
  /\ Ended(p)
  /\ UNCHANGED <<action, record, pending, settings, approved, missed>>

Answers(address) == \E q \in Procs : bound[q] = address
OwnerAnswers     == record # None /\ Answers(record.address)

(* wait_for_secondary: attempts go on until somebody answers at the address. *)
FindOwner(p) ==
  /\ at[p] = "wait" /\ OwnerAnswers /\ Go(p, "send")
  /\ client' = [client EXCEPT ![p] = record]
  /\ UNCHANGED <<action, lock, record, bound, backlog, files, events, view, approved, missed, spent>>

(* OwnerInitializationTimedOut: looked at after an attempt that failed. *)
TimesOut(p) ==
  /\ at[p] = "wait" /\ ~OwnerAnswers /\ Ended(p)
  /\ UNCHANGED <<action, record, pending, settings, approved, missed, spent>>

(* send: who listens at the address now is who gets it. *)
Send(p) ==
  /\ at[p] = "send" /\ Go(p, "gone")
  /\ client' = [client EXCEPT ![p] = None]
  /\ \/ \E q \in Procs :
          /\ bound[q] = client[p].address
          /\ backlog' = [backlog EXCEPT ![q] =
               Append(@, [nonce |-> client[p].nonce, action |-> action[p]])]
     \/ ~Answers(client[p].address) /\ UNCHANGED backlog
  /\ UNCHANGED <<action, lock, record, bound, files, events, view, approved, missed, spent>>
-----------------------------------------------------------------------------
(* The owner's window. *)

Open(p)    == at[p] = "running"
Working(p) == at[p] \in {"running", "quitting", "unlock", "closing"}

Request(kind, id, link, revision) ==
  [kind |-> kind, id |-> id, link |-> link, known |-> revision]
Begun(p, o)  == [id |-> op[p][o].id + 1, running |-> TRUE]
Begin(p, o, link, revision) ==
  /\ op'   = [op EXCEPT ![p][o] = Begun(p, o)]
  /\ lane' = [lane EXCEPT ![p] = Append(@, Request(o, Begun(p, o).id, link, revision))]

LoadPendingImport(p) == Begin(p, "load", None, None)

(* Mutant: the window opens without what is pending. *)
StartAppEmpty(p) ==
  /\ at[p] = "start" /\ Go(p, "running")
  /\ events' = [events EXCEPT ![p] = <<action[p]>>]
  /\ known' = [known EXCEPT ![p] = settings] /\ missed' = FALSE
  /\ UNCHANGED <<op, lane, action, lock, record, bound, backlog, client, files, shown, answers, approved, spent>>

(* DesktopHostRuntime::start and NativeManagerApp::new *)
StartApp(p) ==
  /\ at[p] = "start" /\ Go(p, "running")
  /\ events' = [events EXCEPT ![p] = <<action[p]>>]
  /\ LoadPendingImport(p) /\ known' = [known EXCEPT ![p] = settings]
  /\ missed' = FALSE
  /\ UNCHANGED <<action, lock, record, bound, backlog, client, files, shown, answers, approved, spent>>

(* The activation worker: a frame with another owner's nonce, or one that   *)
(* comes too late, is dropped and nobody is told.                           *)
Accept(p) ==
  /\ Open(p) /\ backlog[p] # <<>>
  /\ backlog' = [backlog EXCEPT ![p] = Tail(@)]
  /\ LET frame == Head(backlog[p]) IN
     \/ /\ frame.nonce = p
        /\ events' = [events EXCEPT ![p] = Append(@, frame.action)]
        /\ UNCHANGED <<missed, spent>>
     \/ frame.nonce # p /\ UNCHANGED <<events, missed, spent>>
     \/ /\ frame.nonce = p /\ Spend("event")
        /\ missed' = TRUE /\ UNCHANGED events
  /\ UNCHANGED <<at, action, lock, record, bound, client, files, view, approved>>

(* reduce_desktop_host *)
ReduceEvent(p) ==
  /\ Open(p) /\ events[p] # <<>>
  /\ events' = [events EXCEPT ![p] = Tail(@)]
  /\ IF Head(events[p]) = "reload"
     THEN LoadPendingImport(p) ELSE UNCHANGED <<op, lane>>
  /\ UNCHANGED <<host, files, shown, known, answers, approved, missed, spent>>

(* refresh_pending_on_focus_regain *)
Focus(p) ==
  /\ Open(p) /\ Spend("event")
  /\ LoadPendingImport(p)
  /\ missed' = FALSE
  /\ UNCHANGED <<host, files, events, shown, known, answers, approved>>

(* load_providers, when its answer is installed. *)
LoadProviders(p) ==
  /\ Open(p) /\ known[p] # settings
  /\ known' = [known EXCEPT ![p] = settings]
  /\ UNCHANGED <<host, files, events, shown, op, lane, answers, approved, missed, spent>>

Quiet(p) == \A o \in Operations : ~op[p][o].running

ConfirmPendingImport(p) ==
  /\ Open(p) /\ Spend("click")
  /\ Quiet(p) /\ shown[p] # None /\ known[p] # None
  /\ Begin(p, "confirm", shown[p], known[p])
  /\ approved' = approved \cup {shown[p]}
  /\ UNCHANGED <<host, files, events, shown, known, answers, missed>>

DismissPendingImport(p) ==
  /\ Open(p) /\ Spend("click")
  /\ Quiet(p) /\ shown[p] # None
  /\ Begin(p, "dismiss", shown[p], None)
  /\ UNCHANGED <<host, files, events, shown, known, answers, approved, missed>>
-----------------------------------------------------------------------------
(* The import worker. *)

Answer(request, ok, link, revision) ==
  [kind |-> request.kind, id |-> request.id, ok |-> ok, link |-> link, known |-> revision]
Answered(p, answer) ==
  answers' = IF Open(p) THEN [answers EXCEPT ![p] = Append(@, answer)] ELSE answers
Turn(p, kind) ==
  /\ Working(p) /\ holder = None
  /\ lane[p] # <<>> /\ Head(lane[p]).kind = kind

(* load_pending, and coalesce_pending_load: loads that follow each other are *)
(* served as one.                                                           *)
ServeLoad(p) ==
  /\ Turn(p, "load")
  /\ \E n \in DOMAIN lane[p] :
       /\ \A i \in 1..n : lane[p][i].kind = "load"
       /\ n < Len(lane[p]) => lane[p][n + 1].kind # "load"
       /\ lane' = [lane EXCEPT ![p] = SubSeq(@, n + 1, Len(@))]
       /\ \/ /\ Answered(p, Answer(lane[p][n], TRUE, pending, None))
             /\ UNCHANGED <<missed, spent>>
          \/ /\ Spend("event") /\ missed' = TRUE
             /\ Answered(p, Answer(lane[p][n], FALSE, None, None))
  /\ UNCHANGED <<host, files, events, shown, known, op, approved>>

Served(p) == lane' = [lane EXCEPT ![p] = Tail(@)]

(* Mutant: the profiles are not searched for the one imported. *)
ImportedAgain(link) == Append(settings, link)

(* apply_provider_import_to_settings *)
Imported(link) ==
  IF \E i \in DOMAIN settings : Identity[settings[i]] = Identity[link]
  THEN settings ELSE Append(settings, link)

(* Mutant: what is pending is imported, whatever was shown. *)
ImportableUnseen(request) == pending # None /\ request.known = settings
Importable(request) ==
  pending # None /\ pending = request.link /\ request.known = settings

(* confirm_pending, up to the import; the file is cleared under its lock. *)
ServeConfirm(p) ==
  /\ Turn(p, "confirm")
  /\ LET request == Head(lane[p]) IN
     \/ /\ Importable(request)
        /\ settings' = Imported(pending) /\ holder' = p
        /\ UNCHANGED <<lane, answers, spent>>
     \/ /\ IF Importable(request) THEN Spend("event") ELSE UNCHANGED spent
        /\ Answered(p, Answer(request, FALSE, None, None)) /\ Served(p)
        /\ UNCHANGED <<settings, holder>>
  /\ UNCHANGED <<host, pending, events, shown, known, op, approved, missed>>

(* What a process clears that is no longer the owner, the owner may show. *)
Clear(p) == pending' = None /\ missed' = (missed \/ (pending # None /\ lock # p))

(* The end of confirm_pending. *)
ClearPending(p) ==
  /\ holder = p /\ holder' = None
  /\ Served(p)
  /\ LET request == Head(lane[p]) IN
     \/ Clear(p) /\ Answered(p, Answer(request, TRUE, None, settings)) /\ UNCHANGED spent
     \/ /\ Spend("event") /\ Answered(p, Answer(request, FALSE, None, None))
        /\ UNCHANGED <<pending, missed>>
  /\ UNCHANGED <<host, settings, events, shown, known, op, approved>>

(* dismiss_pending *)
ServeDismiss(p) ==
  /\ Turn(p, "dismiss") /\ Served(p)
  /\ LET request == Head(lane[p]) IN
     \/ /\ pending \in {None, request.link}
        /\ Clear(p) /\ Answered(p, Answer(request, TRUE, None, None)) /\ UNCHANGED spent
     \/ /\ pending # None
        /\ IF pending = request.link THEN Spend("event") ELSE UNCHANGED spent
        /\ Answered(p, Answer(request, FALSE, None, None)) /\ UNCHANGED <<pending, missed>>
  /\ UNCHANGED <<host, holder, settings, events, shown, known, op, approved>>

Done(p, o) == [op[p] EXCEPT ![o].running = FALSE]

(* apply_pending_*_response: a load that succeeds forgets the other two. *)
ReduceAnswer(p) ==
  /\ Open(p) /\ answers[p] # <<>>
  /\ answers' = [answers EXCEPT ![p] = Tail(@)]
  /\ LET answer == Head(answers[p])
         kind   == answer.kind
     IN IF answer.id # op[p][kind].id THEN UNCHANGED <<shown, known, op>>
        ELSE /\ op' = [op EXCEPT ![p] =
                  IF ~answer.ok \/ kind = "confirm" THEN Done(p, kind)
                  ELSE IF kind = "load"
                       THEN [Done(p, "load") EXCEPT !["confirm"] = Idle, !["dismiss"] = Idle]
                       ELSE [Done(p, "dismiss") EXCEPT !["confirm"] = Idle]]
             /\ shown' = IF answer.ok THEN [shown EXCEPT ![p] = answer.link] ELSE shown
             /\ known' = IF answer.ok /\ kind = "confirm"
                         THEN [known EXCEPT ![p] = answer.known] ELSE known
  /\ UNCHANGED <<host, files, events, lane, approved, missed, spent>>
-----------------------------------------------------------------------------
(* Ending. *)

(* TrayQuit: a window that is quitting takes no event.  The import worker    *)
(* goes on until the process ends, with nobody to answer to.                *)
Quit(p) ==
  /\ Open(p) /\ Go(p, "quitting") /\ WindowCloses(p)
  /\ lane' = IF \E i \in DOMAIN lane[p] : lane[p][i].kind # "load" THEN lane
             ELSE [lane EXCEPT ![p] = <<>>]
  /\ UNCHANGED <<action, lock, record, bound, backlog, client, files, approved, missed, spent>>

(* on_exit: the activation worker stops, and ManagerInstanceOwner is        *)
(* dropped: it removes the record if it is its own, and then unlocks.       *)
Shutdown(p) ==
  /\ at[p] = "quitting" /\ Go(p, "unlock")
  /\ record' = IF record # None /\ record.nonce = p THEN None ELSE record
  /\ UNCHANGED <<action, lock, bound, backlog, client, files, events, view, approved, missed, spent>>

Unlock(p) ==
  /\ at[p] = "unlock" /\ Go(p, "closing")
  /\ lock' = None
  /\ UNCHANGED <<action, record, bound, backlog, client, files, events, view, approved, missed, spent>>

(* The listener closes after the lock was released, and the process ends. *)
Exit(p) ==
  /\ at[p] = "closing" /\ Ended(p)
  /\ UNCHANGED <<action, record, pending, settings, approved, missed, spent>>

(* A process that dies with its message not sent leaves the owner untold. *)
Crash(p) ==
  /\ at[p] \notin {"away", "gone"} /\ Spend("event")
  /\ Ended(p)
  /\ missed' = (missed \/ (action[p] = "reload" /\ at[p] \in {"lock", "wait", "send"}))
  /\ UNCHANGED <<action, record, pending, settings, approved>>

Lifecycle(p) ==
  \/ TryLock(p) \/ ClearRecord(p) \/ Publish(p) \/ StartApp(p)
  \/ FindOwner(p) \/ Send(p)
  \/ Shutdown(p) \/ Unlock(p) \/ Exit(p)
Window(p) == Accept(p) \/ ReduceEvent(p) \/ ReduceAnswer(p)
Worker(p) == ServeLoad(p) \/ ServeConfirm(p) \/ ClearPending(p) \/ ServeDismiss(p)
User(p) ==
  \/ Focus(p) \/ LoadProviders(p) \/ ConfirmPendingImport(p) \/ DismissPendingImport(p)
  \/ Quit(p)

Next == \E p \in Procs :
  \/ Prepare(p) \/ Lifecycle(p) \/ TimesOut(p) \/ InitFails(p) \/ Crash(p)
  \/ Window(p) \/ Worker(p) \/ User(p)

Spec == Init /\ [][Next]_vars
-----------------------------------------------------------------------------
(* Properties. *)

Places == {"away", "lock", "clear", "publish", "start", "running", "quitting", "unlock",
           "closing", "wait", "send", "gone"}
Owning == {"clear", "publish", "start", "running", "quitting", "unlock"}
Addresses == Procs \cup {Preferred}
Records   == [address : Addresses, nonce : Procs]
Actions   == {"show", "reload"}
Frames    == [nonce : Procs, action : Actions]
Maybe(set) == set \cup {None}
Revisions == Maybe(Seq(Links))
Requests  == [kind : Operations, id : Nat, link : Maybe(Links), known : Revisions]
Replies   == [kind : Operations, id : Nat, ok : BOOLEAN, link : Maybe(Links), known : Revisions]

HostTyped ==
  /\ at \in [Procs -> Places] /\ action \in [Procs -> Actions]
  /\ lock \in Maybe(Procs) /\ record \in Maybe(Records)
  /\ bound \in [Procs -> Maybe(Addresses)] /\ backlog \in [Procs -> Seq(Frames)]
  /\ client \in [Procs -> Maybe(Records)]
  /\ \A p \in Procs : at[p] = "send" => client[p] # None
FilesTyped == pending \in Maybe(Links) /\ holder \in Maybe(Procs) /\ settings \in Seq(Links)
ViewTyped ==
  /\ events \in [Procs -> Seq(Actions)]
  /\ shown \in [Procs -> Maybe(Links)] /\ known \in [Procs -> Revisions]
  /\ op \in [Procs -> [Operations -> [id : Nat, running : BOOLEAN]]]
  /\ lane \in [Procs -> Seq(Requests)] /\ answers \in [Procs -> Seq(Replies)]
HistoryTyped ==
  approved \in SUBSET Links /\ missed \in BOOLEAN /\ spent \in [Budgets -> Nat]
TypeOK == HostTyped /\ FilesTyped /\ ViewTyped /\ HistoryTyped

(* The lock makes one owner, from the moment it starts until it lets go. *)
OneOwner == \A p \in Procs : at[p] \in Owning <=> lock = p

(* Whatever the order in which owners come, quit and crash, the record a     *)
(* second process finds is the one of the process that holds the lock.      *)
RecordOfOwner ==
  record # None => lock = None \/ at[lock] = "clear" \/ record.nonce = lock

(* Only what the user confirmed is asked of the worker, and then imported,   *)
(* though another process may have replaced the pending link meanwhile.     *)
AskedForApproved == \A p \in Procs : \A i \in DOMAIN lane[p] :
  lane[p][i].kind = "confirm" => lane[p][i].link \in approved
OnlyApproved == \A i \in DOMAIN settings : settings[i] \in approved

(* Who holds the lock of the pending file is at the end of a confirmation.  *)
HolderConfirms ==
  holder # None => lane[holder] # <<>> /\ lane[holder][1].kind = "confirm"

(* A link confirmed again, since its first owner died or failed between      *)
(* storing the profile and clearing the file, is not imported twice.        *)
ImportedOnce == \A i, j \in DOMAIN settings :
  Identity[settings[i]] = Identity[settings[j]] => i = j

IInv ==
  /\ TypeOK /\ OneOwner /\ RecordOfOwner
  /\ HolderConfirms /\ AskedForApproved /\ OnlyApproved /\ ImportedOnce

OnItsWay(p) ==
  \/ \E i \in DOMAIN events[p] : events[p][i] = "reload"
  \/ \E i \in DOMAIN backlog[p] : backlog[p][i] = [nonce |-> p, action |-> "reload"]
  \/ \E q \in Procs \ {p} : action[q] = "reload" /\ at[q] \in {"lock", "wait", "send"}

(* A link is never forgotten between two processes: the running window shows *)
(* what is pending, or is loading, or somebody is about to tell it.         *)
ShownIsPending == \A p \in Procs :
  at[p] = "running" => shown[p] = pending \/ ~Quiet(p) \/ OnItsWay(p) \/ missed

(* Why ShownIsPending holds.  A record in the file or in the hands of a      *)
(* second process was published, and leads to its owner while that runs.    *)
Listening == {"start", "running"}
Published == Listening \cup {"quitting", "unlock", "closing", "gone"}
Leads(r) == at[r.nonce] \in Published /\ (at[r.nonce] \in Listening => r.address = bound[r.nonce])
RecordsLead ==
  /\ \A p \in Procs : bound[p] \in {None, Preferred, p}
  /\ \A p, q \in Procs : bound[p] = Preferred /\ bound[q] = Preferred => p = q
  /\ \A p \in Procs : at[p] \in Listening \cup {"quitting"} => record # None /\ bound[p] # None
  /\ record # None => Leads(record)
  /\ \A p \in Procs : client[p] # None => Leads(client[p])

(* What the window asked for is answered in order: at most one confirmation  *)
(* or dismissal, and then loads, of which only the last one counts.         *)
Awaited(p, r) == op[p][r.kind] = [id |-> r.id, running |-> TRUE]
InOrder(p) ==
  /\ \A i \in DOMAIN lane[p] :
       IF lane[p][i].kind = "load"
       THEN /\ lane[p][i].id <= op[p]["load"].id
            /\ IF i = Len(lane[p]) THEN Awaited(p, lane[p][i]) ELSE lane[p][i].id # op[p]["load"].id
       ELSE i = 1 /\ answers[p] = <<>> /\ Awaited(p, lane[p][i])
  /\ \A i \in DOMAIN answers[p] :
       IF answers[p][i].kind = "load"
       THEN /\ answers[p][i].id <= op[p]["load"].id
            /\ IF i = Len(answers[p]) /\ lane[p] = <<>>
               THEN Awaited(p, answers[p][i]) ELSE answers[p][i].id # op[p]["load"].id
       ELSE i = 1 /\ Awaited(p, answers[p][i])
Starting == {"away", "lock", "clear", "publish", "start"}
QueuesOK(p) ==
  /\ at[p] = "running" => InOrder(p)
  /\ at[p] # "running" => answers[p] = <<>>
  /\ at[p] \in Starting => lane[p] = <<>>

(* What is shown, once the answers are installed, is what is pending.        *)
LastAnswer(p) == answers[p][Len(answers[p])]
WillShow(p) ==
  \/ \E i \in DOMAIN lane[p] : lane[p][i].kind = "load"
  \/ answers[p] # <<>> /\ LastAnswer(p).ok /\ LastAnswer(p).link = pending
  \/ answers[p] # <<>> /\ ~LastAnswer(p).ok /\ LastAnswer(p).kind # "load" /\ shown[p] = pending
  \/ answers[p] = <<>> /\ shown[p] = pending

(* A process that is on its way has not read a former owner's record.        *)
WillBeTold(p) ==
  \/ \E i \in DOMAIN events[p] : events[p][i] = "reload"
  \/ \E i \in DOMAIN backlog[p] : backlog[p][i] = [nonce |-> p, action |-> "reload"]
  \/ \E q \in Procs \ {p} :
       /\ action[q] = "reload"
       /\ at[q] \in {"lock", "wait"} \/ (at[q] = "send" /\ client[q].nonce = p)
NotForgotten(p) == at[p] = "running" => WillShow(p) \/ WillBeTold(p) \/ missed

HandoverInv ==
  IInv /\ RecordsLead /\ \A p \in Procs : QueuesOK(p) /\ NotForgotten(p)
=============================================================================

----------------------------- MODULE Transaction -----------------------------
(***************************************************************************)
(* The life of the Transaction objects of one PackageKit-Qt client: from   *)
(* the constructor (transaction.cpp) through setup, dispatch and the two   *)
(* reply watchers to finished(), destroy() and deferred deletion           *)
(* (transactionprivate.cpp), against a daemon that may finish, reject,     *)
(* destroy, restart or vanish at any moment.                               *)
(*                                                                         *)
(* The client is one thread with one event loop.  Replies, D-Bus signals,  *)
(* NameOwnerChanged and deferred deletions reach it through one FIFO       *)
(* queue: Qt posts each of them to the receiving object.  An event whose   *)
(* receiver has been destroyed is dropped.  A connection to a D-Bus signal *)
(* is a match rule on its way to the bus: what the daemon emits before the *)
(* bus has taken the rule never reaches the client.                        *)
(***************************************************************************)
EXTENDS Naturals, Sequences

CONSTANTS
  Own,              \* objects made by the factory methods of Daemon
  Foreign,          \* objects attached to a tid another client created
  Verdict,          \* exit statuses that the daemon's Finished carries
  Faults,           \* what the bus and the daemon may do wrong
  MaxOwnerChanges   \* bound: NameOwnerChanged signals in a behaviour

(* The exit statuses of transaction.h; finished() casts whatever it gets.  *)
Exit == {"unknown", "success", "failed", "cancelled", "keyRequired", "eulaRequired",
         "killed", "mediaChangeRequired", "needUntrusted", "cancelledPriority",
         "repairRequired"}

ASSUME VerdictAssumption == Verdict \subseteq Exit
ASSUME OwnershipAssumption == Own \cap Foreign = {}
ASSUME FaultsAssumption == Faults \subseteq {"lost", "expired", "timeout", "unsent"}
ASSUME OwnerChangesAssumption == MaxOwnerChanges \in Nat

Txn == Own \cup Foreign

VARIABLES
  tx,         \* tx[t]: the Transaction and its TransactionPrivate
  queue,      \* the events posted to the client's event loop
  quitting,   \* objects that the running daemonQuit() emission has yet to reach
  call,       \* call[t]: the D-Bus method call of t that awaits its reply
  srv,        \* srv[t]: the transaction inside the daemon
  told,       \* told[t]: the exit the daemon announced to a listening client
  up,         \* the daemon owns its bus name
  changes     \* NameOwnerChanged signals so far

vars == <<tx, queue, quitting, call, srv, told, up, changes>>

Error == {"NotAuthorized", "InternalError", "ProcessKill"}
NoExit == "none"
Rule == {"Destroy", "Finished"}

(***************************************************************************)
(* The client's data                                                       *)
(***************************************************************************)
(* The fields of Transaction and TransactionPrivate that the life cycle    *)
(* depends on; exits and errors record what finished() and errorCode()     *)
(* have carried, "connected" that the application listens to finished().   *)
(* "wire" holds the match rules on their way to the bus, in bursts, and    *)
(* "wired" those the bus has taken.                                        *)
Object == [obj: {"none", "live", "deleted"}, p: BOOLEAN, sentFinished: BOOLEAN,
           dying: BOOLEAN, connected: BOOLEAN,
           wire: Seq(SUBSET Rule), wired: SUBSET Rule,
           cancel: {"no", "lost", "sent"}, exits: Seq(Exit), errors: Seq(Error)]

NoObject == [obj |-> "none", p |-> FALSE, sentFinished |-> FALSE,
             dying |-> FALSE, connected |-> FALSE, wire |-> <<>>, wired |-> {},
             cancel |-> "no", exits |-> <<>>, errors |-> <<>>]

ObjectEvent == [kind: {"createReply", "runReply"}, t: Txn, arg: {"ok", "denied", "error"}]
               \cup [kind: {"Finished"}, t: Txn, arg: Verdict]
               \cup [kind: {"Destroy", "delete"}, t: Txn]
OwnerEvent == [kind: {"owner"}, old: BOOLEAN, new: BOOLEAN]

Event(k, t) == [kind |-> k, t |-> t]
EventWith(k, t, a) == [kind |-> k, t |-> t, arg |-> a]

TypeOK ==
  /\ tx \in [Txn -> Object]
  /\ queue \in Seq(ObjectEvent \cup OwnerEvent)
  /\ quitting \in SUBSET Txn
  /\ call \in [Txn -> {"none", "create", "run", "late"}]
  /\ srv \in [Txn -> {"absent", "idle", "running", "done", "gone", "lost"}]
  /\ told \in [Txn -> Verdict \cup {NoExit}]
  /\ up \in BOOLEAN
  /\ changes \in 0..MaxOwnerChanges

Init ==
  /\ tx = [t \in Txn |-> NoObject]
  /\ queue = <<>>
  /\ quitting = {}
  /\ call = [t \in Txn |-> "none"]
  /\ srv = [t \in Txn |-> "absent"]
  /\ told = [t \in Txn |-> NoExit]
  /\ up \in BOOLEAN
  /\ changes = 0

(***************************************************************************)
(* What the private slots do to an object                                  *)
(***************************************************************************)
errorCode(s, c) == [s EXCEPT !.errors = Append(@, c)]

(* Mutant of finished: sentFinished is not recorded.                       *)
finishedUnrecorded(s, e) == [s EXCEPT !.exits = Append(@, e), !.dying = TRUE]

finished(s, e) == [s EXCEPT !.exits = Append(@, e), !.sentFinished = TRUE, !.dying = TRUE]

(* Mutants of destroy: no finished() for a client that only got Destroy;   *)
(* no deleteLater().                                                       *)
destroySilently(s) == [s EXCEPT !.p = FALSE, !.dying = TRUE]
destroyUndeleted(s) ==
  [s EXCEPT !.p = FALSE, !.exits = IF s.sentFinished THEN @ ELSE Append(@, "unknown")]

destroy(s) ==
  [s EXCEPT !.p = FALSE, !.dying = TRUE,
            !.exits = IF s.sentFinished THEN @ ELSE Append(@, "unknown")]

(* Mutants of daemonQuit: without the test of p; an error and no more.     *)
daemonQuitUnguarded(s) == destroy(finished(errorCode(s, "ProcessKill"), "killed"))
daemonQuitNoted(s) == IF s.p THEN errorCode(s, "ProcessKill") ELSE s

daemonQuit(s) ==
  IF s.p THEN destroy(finished(errorCode(s, "ProcessKill"), "killed")) ELSE s

(* Mutant of CallError: the D-Bus error is passed on as it came.           *)
CallErrorUnmapped(a) == a

(* An error reply of CreateTransaction or of the dispatched method.        *)
CallError(a) == IF a = "denied" THEN "NotAuthorized" ELSE "InternalError"
callFailed(s, a) == destroy(finished(errorCode(s, CallError(a)), "failed"))

(* Mutant of setup: the loop over connectedSignals is missing.             *)
setupUnwired(s) == [s EXCEPT !.p = TRUE, !.wire = <<{"Destroy"}>>]

(* setup() makes the proxy and subscribes to Destroy and to every signal   *)
(* connected so far.                                                       *)
setup(s) ==
  [s EXCEPT !.p = TRUE, !.wire = <<IF s.connected THEN Rule ELSE {"Destroy"}>>]

(* connectNotify() for finished(): subscribed now if there is a proxy.     *)
connectNotify(s) ==
  [s EXCEPT !.connected = TRUE, !.wire = IF s.p THEN Append(@, {"Finished"}) ELSE @]

(* The bus has every rule that "connected" asks for.                       *)
Listening(s) == s.connected /\ \A i \in DOMAIN s.wire : "Finished" \notin s.wire[i]

(* The handler leaves t in state s and the queue as evs.  deleteLater()    *)
(* posts one deletion, the first time it is called.                        *)
Becomes(t, s, evs) ==
  /\ tx' = [tx EXCEPT ![t] = s]
  /\ queue' = IF s.dying /\ ~tx[t].dying THEN Append(evs, Event("delete", t)) ELSE evs

(***************************************************************************)
(* The application's calls                                                 *)
(***************************************************************************)
External == <<srv, told, up, changes>>

(* Transaction(): ask the daemon for a transaction.                        *)
Create(t) ==
  /\ t \in Own
  /\ tx[t].obj = "none"
  /\ Becomes(t, [tx[t] EXCEPT !.obj = "live"], queue)
  /\ call' = [call EXCEPT ![t] = "create"]
  /\ UNCHANGED <<quitting, External>>

(* Transaction(tid): no method is dispatched, the role is still unknown.   *)
Attach(t) ==
  /\ t \in Foreign
  /\ srv[t] # "absent"
  /\ tx[t].obj = "none"
  /\ Becomes(t, setup([tx[t] EXCEPT !.obj = "live"]), queue)
  /\ UNCHANGED <<quitting, call, External>>

(* The application connects to finished(); later connections are ignored.  *)
Connect(t) ==
  /\ tx[t].obj = "live"
  /\ ~tx[t].connected
  /\ Becomes(t, connectNotify(tx[t]), queue)
  /\ UNCHANGED <<quitting, call, External>>

(* cancel() does nothing while there is no proxy.                          *)
Cancel(t) ==
  /\ tx[t].obj = "live"
  /\ tx[t].cancel = "no"
  /\ Becomes(t, [tx[t] EXCEPT !.cancel = IF tx[t].p THEN "sent" ELSE "lost"], queue)
  /\ UNCHANGED <<quitting, call, External>>

Application == \E t \in Txn : Create(t) \/ Attach(t) \/ Connect(t) \/ Cancel(t)

(***************************************************************************)
(* The event loop                                                          *)
(***************************************************************************)
(* Signals relayed by the proxy die with it, the rest with the object.     *)
Deliverable(e) ==
  CASE e.kind = "owner" -> TRUE
    [] e.kind \in {"Finished", "Destroy"} -> tx[e.t].p
    [] OTHER -> tx[e.t].obj = "live"

Ready == quitting = {} /\ queue # <<>>

(* The first event is of this kind, for t, and its receiver still exists.  *)
Handling(k, t) ==
  /\ Ready
  /\ Head(queue).kind = k
  /\ Head(queue).t = t
  /\ Deliverable(Head(queue))

(* CreateTransaction answered with a tid: setup() and dispatch the method. *)
CreateSucceeded(t) ==
  /\ Handling("createReply", t)
  /\ Head(queue).arg = "ok"
  /\ Becomes(t, setup(tx[t]), Tail(queue))
  /\ call' = [call EXCEPT ![t] = "run"]
  /\ UNCHANGED <<quitting, External>>

(* The same, but the method call fails before it leaves the client: the    *)
(* failure is reported at once and the proxy is kept.                      *)
DispatchFailed(t) ==
  /\ "unsent" \in Faults
  /\ Handling("createReply", t)
  /\ Head(queue).arg = "ok"
  /\ Becomes(t, finished(errorCode(setup(tx[t]), "InternalError"), "failed"), Tail(queue))
  /\ UNCHANGED <<quitting, call, External>>

CreateFailed(t) ==
  /\ Handling("createReply", t)
  /\ Head(queue).arg # "ok"
  /\ Becomes(t, callFailed(tx[t], Head(queue).arg), Tail(queue))
  /\ UNCHANGED <<quitting, call, External>>

RunSucceeded(t) ==
  /\ Handling("runReply", t)
  /\ Head(queue).arg = "ok"
  /\ Becomes(t, tx[t], Tail(queue))
  /\ UNCHANGED <<quitting, call, External>>

RunFailed(t) ==
  /\ Handling("runReply", t)
  /\ Head(queue).arg # "ok"
  /\ Becomes(t, callFailed(tx[t], Head(queue).arg), Tail(queue))
  /\ UNCHANGED <<quitting, call, External>>

HandleFinished(t) ==
  /\ Handling("Finished", t)
  /\ Becomes(t, finished(tx[t], Head(queue).arg), Tail(queue))
  /\ UNCHANGED <<quitting, call, External>>

HandleDestroy(t) ==
  /\ Handling("Destroy", t)
  /\ Becomes(t, destroy(tx[t]), Tail(queue))
  /\ UNCHANGED <<quitting, call, External>>

(* ~Transaction() deletes the proxy and the reply watchers with it.        *)
HandleDelete(t) ==
  /\ Handling("delete", t)
  /\ Becomes(t, [tx[t] EXCEPT !.obj = "deleted", !.p = FALSE], Tail(queue))
  /\ UNCHANGED <<quitting, call, External>>

(* NameOwnerChanged: the daemon that was there is gone.                    *)
OwnerLost(e) == ~e.new \/ e.old

(* DaemonPrivate's watcher emits daemonQuit() to every Transaction.        *)
OwnerChanged ==
  /\ Ready
  /\ Head(queue).kind = "owner"
  /\ quitting' = IF OwnerLost(Head(queue)) THEN {t \in Txn : tx[t].obj = "live"} ELSE {}
  /\ queue' = Tail(queue)
  /\ UNCHANGED <<tx, call, External>>

(* The emission reaches the slot daemonQuit() of t.                        *)
DaemonQuit(t) ==
  /\ t \in quitting
  /\ Becomes(t, daemonQuit(tx[t]), queue)
  /\ quitting' = quitting \ {t}
  /\ UNCHANGED <<call, External>>

(* Qt drops an event whose receiver has been destroyed.                    *)
Discard ==
  /\ Ready
  /\ ~Deliverable(Head(queue))
  /\ queue' = Tail(queue)
  /\ UNCHANGED <<tx, quitting, call, External>>

EventLoop ==
  \/ \E t \in Txn : \/ CreateSucceeded(t) \/ DispatchFailed(t) \/ CreateFailed(t)
                    \/ RunSucceeded(t) \/ RunFailed(t)
                    \/ HandleFinished(t) \/ HandleDestroy(t) \/ HandleDelete(t)
                    \/ DaemonQuit(t)
  \/ OwnerChanged
  \/ Discard

(***************************************************************************)
(* The daemon and the bus (not under src/)                                 *)
(***************************************************************************)
(* The bus takes the next burst of match rules.                            *)
taken(s) == [s EXCEPT !.wire = Tail(@), !.wired = @ \cup Head(s.wire)]

TakeRules(t) ==
  /\ tx[t].wire # <<>>
  /\ Becomes(t, taken(tx[t]), queue)
  /\ UNCHANGED <<quitting, call, External>>

Bus == \E t \in Txn : TakeRules(t)

(* The method call of t travels behind the rules of its setup().           *)
Called(t) == "Destroy" \in tx[t].wired

Reply(t, k, a, c) ==
  /\ call' = [call EXCEPT ![t] = c]
  /\ queue' = Append(queue, EventWith(k, t, a))

(* A new tid.  The call has activated the daemon if it was not running.    *)
AnswerCreate(t) ==
  /\ up
  /\ call[t] = "create"
  /\ Reply(t, "createReply", "ok", "none")
  /\ srv' = [srv EXCEPT ![t] = "idle"]
  /\ UNCHANGED <<tx, quitting, told, up, changes>>

(* Refused, timed out, or no daemon to answer.                             *)
FailCreate(t) ==
  /\ call[t] = "create"
  /\ \E a \in {"denied", "error"} : Reply(t, "createReply", a, "none")
  /\ UNCHANGED <<tx, quitting, External>>

(* The daemon accepts the method call and runs the transaction; nobody     *)
(* waits for the answer to a call that has timed out.                      *)
AcceptRun(t) ==
  /\ up
  /\ srv[t] = "idle"
  /\ Called(t)
  /\ \/ call[t] = "run" /\ Reply(t, "runReply", "ok", "none")
     \/ call[t] = "late" /\ UNCHANGED <<call, queue>>
  /\ srv' = [srv EXCEPT ![t] = "running"]
  /\ UNCHANGED <<tx, quitting, told, up, changes>>

RejectRun(t) ==
  /\ up
  /\ srv[t] = "idle"
  /\ Called(t)
  /\ call[t] = "run"
  /\ \E a \in {"denied", "error"} : Reply(t, "runReply", a, "none")
  /\ srv' = [srv EXCEPT ![t] = "done"]
  /\ UNCHANGED <<tx, quitting, told, up, changes>>

(* The transaction or its daemon no longer exists, or the answer is late.  *)
FailRun(t) ==
  /\ call[t] = "run"
  /\ \/ srv[t] \in {"gone", "lost"} /\ Called(t) /\ Reply(t, "runReply", "error", "none")
     \/ srv[t] = "idle" /\ "timeout" \in Faults /\ Reply(t, "runReply", "error", "late")
  /\ UNCHANGED <<tx, quitting, External>>

(* Another client starts a transaction.                                    *)
ForeignBegin(t) ==
  /\ up
  /\ t \in Foreign
  /\ srv[t] = "absent"
  /\ srv' = [srv EXCEPT ![t] = "running"]
  /\ UNCHANGED <<tx, queue, quitting, call, told, up, changes>>

(* The daemon emits Finished, with whatever exit status; it reaches the    *)
(* client if the bus has the rule.                                         *)
FinishRun(t, e) ==
  /\ srv[t] = "running"
  /\ srv' = [srv EXCEPT ![t] = "done"]
  /\ told' = IF tx[t].obj = "live" /\ Listening(tx[t]) THEN [told EXCEPT ![t] = e] ELSE told
  /\ queue' = IF tx[t].p /\ "Finished" \in tx[t].wired
                THEN Append(queue, EventWith("Finished", t, e)) ELSE queue
  /\ UNCHANGED <<tx, quitting, call, up, changes>>

(* The daemon emits Destroy, for a transaction that is over or that no     *)
(* client has run in time.  A client whose rule is late never hears of it. *)
DestroyTid(t) ==
  /\ \/ srv[t] = "done"
     \/ srv[t] = "idle" /\ "expired" \in Faults
  /\ srv' = [srv EXCEPT ![t] = "gone"]
  /\ queue' = IF tx[t].p /\ "Destroy" \in tx[t].wired
                THEN Append(queue, Event("Destroy", t)) ELSE queue
  /\ UNCHANGED <<tx, quitting, call, told, up, changes>>

OwnerChange(old, new) ==
  /\ changes < MaxOwnerChanges
  /\ changes' = changes + 1
  /\ up = old
  /\ up' = new
  /\ queue' = Append(queue, [kind |-> "owner", old |-> old, new |-> new])
  /\ UNCHANGED <<tx, quitting, call, told>>

(* The daemon is idle: nothing to run and no call left to answer.          *)
Idle == \A t \in Txn : srv[t] \in {"absent", "gone", "lost"} /\ call[t] # "run"

(* The daemon exits, crashes, or is replaced by another instance; its      *)
(* transactions are lost with it.                                          *)
LoseOwner ==
  /\ "lost" \in Faults \/ Idle
  /\ \E new \in BOOLEAN : OwnerChange(TRUE, new)
  /\ srv' = [t \in Txn |-> IF srv[t] = "absent" THEN "absent" ELSE "lost"]

StartOwner ==
  /\ OwnerChange(FALSE, TRUE)
  /\ UNCHANGED srv

DaemonOf(t) == \/ AnswerCreate(t) \/ FailCreate(t)
               \/ AcceptRun(t) \/ RejectRun(t) \/ FailRun(t)
               \/ (\E e \in Verdict : FinishRun(t, e))
               \/ DestroyTid(t)

Daemon == \/ \E t \in Txn : DaemonOf(t) \/ ForeignBegin(t)
          \/ LoseOwner
          \/ StartOwner

Next == Application \/ EventLoop \/ Bus \/ Daemon

Spec == Init /\ [][Next]_vars

(* The event loop runs; the bus takes every match rule; D-Bus answers or   *)
(* times out every call, and the daemon finishes and destroys what it      *)
(* runs.                                                                   *)
Fairness == WF_vars(EventLoop) /\ \A t \in Txn : WF_vars(TakeRules(t)) /\ WF_vars(DaemonOf(t))

FairSpec == Spec /\ Fairness

(***************************************************************************)
(* Properties                                                              *)
(***************************************************************************)
(* Each object keeps the contract of TransactionContract: one outcome,     *)
(* never replaced by a later finished(), and no deletion before it.        *)
Phase(s) == IF s.obj = "live"
              THEN IF s.exits = <<>> THEN "active" ELSE "reported"
              ELSE IF s.obj = "none" THEN "absent" ELSE "deleted"
Outcome(s) == IF s.exits = <<>> THEN NoExit ELSE s.exits[1]

Contract == INSTANCE TransactionContract
              WITH phase <- [t \in Txn |-> Phase(tx[t])],
                   outcome <- [t \in Txn |-> Outcome(tx[t])]
KeepsContract == Contract!Spec

(* finished() is emitted at most once by each object.                      *)
FinishedOnce == \A t \in Txn : Len(tx[t].exits) <= 1

(* An object that repeats itself says at most that the transaction failed  *)
(* or was killed: what was reported is never followed by a success or a    *)
(* cancellation, and never by a third finished().                          *)
RepeatsOnlyFailure ==
  \A t \in Txn :
    /\ Len(tx[t].exits) <= 2
    /\ Len(tx[t].exits) = 2 => tx[t].exits[2] \in {"failed", "killed"}

(* If the daemon announced an exit status of an own transaction while the  *)
(* application listened and the bus had the rules, the first finished()    *)
(* carries that status, not the "unknown" of destroy() or the "killed" of  *)
(* daemonQuit() - unless the client had given up on the method call.       *)
VerdictWins ==
  \A t \in Own :
    told[t] # NoExit /\ tx[t].exits # <<>> /\ call[t] # "late" => tx[t].exits[1] = told[t]

(* daemonQuit() reports an own transaction only if the daemon instance     *)
(* that created it has gone from the bus: one that waits for a daemon, or  *)
(* that the next instance has created since, is left alone, however late   *)
(* the client learns of the loss.                                          *)
KilledWithItsDaemon ==
  [][\A t \in Own : DaemonQuit(t) /\ tx'[t].exits # tx[t].exits => srv[t] = "lost"]_vars

(* cancel() is not forgotten: after it the library never asks the daemon   *)
(* to run the transaction.                                                 *)
CancelTakesEffect ==
  [][\A t \in Own : tx[t].cancel = "lost" /\ call'[t] = "run" => call[t] = "run"]_vars

(* Every object made by a factory method is deleted in the end.            *)
OwnDeleted == \A t \in Own : tx[t].obj = "live" ~> tx[t].obj = "deleted"

(* So is an object attached to another client's transaction, if the bus    *)
(* took its rule for Destroy in time; if not, it is deleted when the       *)
(* daemon that had the transaction leaves the bus.                         *)
ForeignDeleted ==
  \A t \in Foreign :
    /\ tx[t].obj = "live" /\ "Destroy" \in tx[t].wired /\ srv[t] \notin {"gone", "lost"}
         ~> tx[t].obj = "deleted"
    /\ [](tx[t].obj = "live" /\ srv[t] # "lost" /\ <>(srv[t] = "lost") => <>(tx[t].obj = "deleted"))
=============================================================================

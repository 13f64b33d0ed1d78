----------------------------- MODULE NestedLoops -----------------------------
(***************************************************************************)
(* A Transaction whose application runs nested event loops: a slot that    *)
(* asks the user in a modal dialog does not return until the dialog is     *)
(* closed, and meanwhile the events of the same object are handled, on top *)
(* of the slot of TransactionPrivate that emitted the signal.  Here a slot *)
(* is a sequence of statements and the thread has a stack of them.         *)
(*                                                                         *)
(* One object with its proxy, made by a factory method with its method     *)
(* call pending or attached to a transaction of the daemon; in Transaction *)
(* the same slots are atomic, for many objects.                            *)
(***************************************************************************)
EXTENDS Naturals, Sequences

CONSTANTS
  NestedIn,    \* signals whose slots in the application may run an event loop
  Crashes,     \* the daemon may crash
  MaxLoops,    \* bound: nested event loops at a time
  MaxSignals,  \* bound: result signals and property changes
  MaxBatch     \* bound: packages in one Packages signal

Relayed == {"package", "mediaChangeRequired", "errorCode"}

ASSUME NestedAssumption == NestedIn \subseteq Relayed \cup {"finished", "remainingTimeChanged"}
ASSUME CrashesAssumption == Crashes \in BOOLEAN
ASSUME NestedBounds == MaxLoops \in Nat /\ MaxSignals \in Nat /\ MaxBatch \in Nat

Exit == {"success", "failed", "killed", "unknown"}
NoExit == "none"

VARIABLES
  obj,           \* "none", "live" or "deleted"
  p,             \* there is a proxy
  sentFinished,  \* TransactionPrivate::sentFinished
  exits,         \* history: the exit statuses of finished()
  stack,         \* what the slots that have not returned have yet to do
  deleteLevel,   \* event loops that ran at the first deleteLater(), or 0
  queue,         \* the events posted to the thread
  call,          \* the method call is pending
  srv,           \* the transaction inside the daemon
  signals

object == <<obj, p, sentFinished, exits, deleteLevel>>
daemon == <<call, srv, signals>>
vars == <<object, stack, queue, daemon>>

(***************************************************************************)
(* Statements and slots                                                    *)
(***************************************************************************)
Do(op) == [op |-> op]
Emit(s) == [op |-> "emit", signal |-> s]
Finish(e) == [op |-> "finish", exit |-> e]

Statement == [op: {"setSent", "finishUnlessSent", "deleteLater", "deleteProxy", "store", "loop"}]
             \cup [op: {"emit"}, signal: Relayed \cup {"remainingTimeChanged"}]
             \cup [op: {"finish"}, exit: Exit]

(* Mutant of finished: no deleteLater().                                   *)
finishedUndeleted(e) == <<Finish(e), Do("setSent")>>

finished(e) == <<Finish(e), Do("setSent"), Do("deleteLater")>>

(* Mutants of destroy: it reports without a test of sentFinished; it never *)
(* reports.                                                                *)
destroyReporting == <<Do("deleteProxy"), Finish("unknown"), Do("deleteLater")>>
destroyMute == <<Do("deleteProxy"), Do("deleteLater")>>

destroy == <<Do("deleteProxy"), Do("finishUnlessSent"), Do("deleteLater")>>

(* Mutant of daemonQuit: the error code is passed for the exit status.     *)
daemonQuitMixed ==
  IF p THEN <<Emit("errorCode")>> \o finished("errorProcessKill") \o destroy ELSE <<>>

daemonQuit == IF p THEN <<Emit("errorCode")>> \o finished("killed") \o destroy ELSE <<>>

(* The method call has failed.                                             *)
callFailed == <<Emit("errorCode")>> \o finished("failed") \o destroy

(* remainingTimeChanged() is emitted between two members; the others are   *)
(* notified later.                                                         *)
updateProperties == <<Do("store"), Emit("remainingTimeChanged"), Do("store")>>

Packages(n) == [i \in 1..n |-> Emit("package")]

(* Mutant of relay: the slot remembers the request after it has relayed.   *)
relayAndStore(s) == <<Emit(s), Do("store")>>

(* A slot that passes a signal of the proxy on, like mediaChangeRequired().*)
relay(s) == <<Emit(s)>>

Event == [kind: {"Finished"}, exit: {"success", "failed"}] \cup
         [kind: {"Relayed"}, signal: Relayed] \cup
         [kind: {"Packages"}, n: 1..MaxBatch] \cup
         [kind: {"Destroy", "properties", "callError", "owner", "delete"}]

Slot(e) == CASE e.kind = "Finished" -> finished(e.exit)
             [] e.kind = "Destroy" -> destroy
             [] e.kind = "Relayed" -> relay(e.signal)
             [] e.kind = "Packages" -> Packages(e.n)
             [] e.kind = "properties" -> updateProperties
             [] e.kind = "callError" -> callFailed
             [] e.kind = "owner" -> daemonQuit

TypeOK ==
  /\ obj \in {"none", "live", "deleted"}
  /\ p \in BOOLEAN /\ sentFinished \in BOOLEAN
  /\ exits \in Seq(Exit)
  /\ stack \in Seq(Seq(Statement))
  /\ Len(stack) <= MaxLoops + 1
  /\ deleteLevel \in 0..(MaxLoops + 1)
  /\ queue \in Seq(Event)
  /\ call \in BOOLEAN
  /\ srv \in {"idle", "running", "done", "gone", "crashed"}
  /\ signals \in 0..MaxSignals

Init ==
  /\ obj = "none"
  /\ p = FALSE /\ sentFinished = FALSE
  /\ exits = <<>> /\ stack = <<>> /\ queue = <<>>
  /\ deleteLevel = 0
  /\ call = FALSE /\ srv = "idle" /\ signals = 0

(***************************************************************************)
(* The thread                                                              *)
(***************************************************************************)
(* The application has made a request and setup() has dispatched it, or it *)
(* has attached the object to a transaction that runs or has just ended.   *)
Setup ==
  /\ obj = "none"
  /\ obj' = "live" /\ p' = TRUE
  /\ \/ call' = TRUE /\ UNCHANGED srv
     \/ call' = FALSE /\ srv' \in {"running", "done"}
  /\ UNCHANGED <<sentFinished, exits, deleteLevel, stack, queue, signals>>

Loop == Do("loop")
InLoop == stack # <<>> => Head(stack) # <<>> /\ Head(Head(stack)) = Loop

(* The next statement of the topmost slot; it belongs to a live object.    *)
Executing(op) ==
  /\ obj = "live"
  /\ stack # <<>> /\ Head(stack) # <<>>
  /\ Head(Head(stack)).op = op
  /\ UNCHANGED daemon

Continue == stack' = <<Tail(Head(stack))>> \o Tail(stack)

(* The slots of the application return at once or run an event loop.       *)
Emitted(s) ==
  \/ Continue
  \/ /\ s \in NestedIn
     /\ Len(stack) <= MaxLoops
     /\ stack' = <<<<Loop>> \o Tail(Head(stack))>> \o Tail(stack)

EmitSignal ==
  /\ Executing("emit")
  /\ Emitted(Head(Head(stack)).signal)
  /\ UNCHANGED <<object, queue>>

EmitFinished ==
  /\ Executing("finish")
  /\ exits' = Append(exits, Head(Head(stack)).exit)
  /\ Emitted("finished")
  /\ UNCHANGED <<obj, p, sentFinished, deleteLevel, queue>>

EmitUnlessSent ==
  /\ Executing("finishUnlessSent")
  /\ IF sentFinished
       THEN Continue /\ UNCHANGED exits
       ELSE Emitted("finished") /\ exits' = Append(exits, "unknown")
  /\ UNCHANGED <<obj, p, sentFinished, deleteLevel, queue>>

SetSent ==
  /\ Executing("setSent")
  /\ sentFinished' = TRUE
  /\ Continue
  /\ UNCHANGED <<obj, p, exits, deleteLevel, queue>>

(* The first call counts: it posts the deletion.                           *)
DeleteLater ==
  /\ Executing("deleteLater")
  /\ Continue
  /\ IF deleteLevel = 0
       THEN deleteLevel' = Len(stack) /\ queue' = Append(queue, [kind |-> "delete"])
       ELSE UNCHANGED <<deleteLevel, queue>>
  /\ UNCHANGED <<obj, p, sentFinished, exits>>

DeleteProxy ==
  /\ Executing("deleteProxy")
  /\ p' = FALSE
  /\ Continue
  /\ UNCHANGED <<obj, sentFinished, exits, deleteLevel, queue>>

StoreMember ==
  /\ Executing("store")
  /\ Continue
  /\ UNCHANGED <<object, queue>>

Return ==
  /\ stack # <<>> /\ Head(stack) = <<>>
  /\ stack' = Tail(stack)
  /\ UNCHANGED <<object, queue, daemon>>

(* The slot of the application leaves its event loop and returns.          *)
LeaveLoop ==
  /\ stack # <<>> /\ InLoop
  /\ Continue
  /\ UNCHANGED <<object, queue, daemon>>

(* Signals relayed by the proxy die with it.  The rest die with the object *)
(* itself: Packages too, which is connected past the proxy.                *)
Deliverable(e) ==
  obj = "live" /\ (e.kind \in {"Finished", "Destroy", "Relayed"} => p)

Handle ==
  /\ InLoop /\ queue # <<>>
  /\ Head(queue).kind # "delete"
  /\ queue' = Tail(queue)
  /\ stack' = IF Deliverable(Head(queue)) THEN <<Slot(Head(queue))>> \o stack ELSE stack
  /\ UNCHANGED <<object, daemon>>

(* An event loop deletes the object only if it ran when the deletion was   *)
(* asked for, or a loop around that one; else it is posted again.          *)
HandleDelete ==
  /\ InLoop /\ queue # <<>>
  /\ Head(queue).kind = "delete"
  /\ IF Len(stack) < deleteLevel
       THEN obj' = "deleted" /\ p' = FALSE /\ queue' = Tail(queue)
       ELSE queue' = Append(Tail(queue), Head(queue)) /\ UNCHANGED <<obj, p>>
  /\ UNCHANGED <<sentFinished, exits, deleteLevel, stack, daemon>>

Thread == \/ EmitSignal \/ EmitFinished \/ EmitUnlessSent \/ SetSent
          \/ DeleteLater \/ DeleteProxy \/ StoreMember \/ Return
          \/ Handle \/ HandleDelete

(***************************************************************************)
(* The daemon (not under src/)                                             *)
(***************************************************************************)
Post(e) == queue' = Append(queue, e) /\ UNCHANGED <<object, stack>>

(* The method call is answered; only an error reply makes a difference.    *)
Accept ==
  /\ call /\ srv = "idle"
  /\ call' = FALSE /\ srv' = "running"
  /\ UNCHANGED <<object, stack, queue, signals>>

Refuse ==
  /\ call /\ srv = "idle"
  /\ call' = FALSE
  /\ Post([kind |-> "callError"])
  /\ UNCHANGED <<srv, signals>>

Report ==
  /\ srv = "running" /\ signals < MaxSignals
  /\ signals' = signals + 1
  /\ \E e \in {x \in Event : x.kind \in {"Relayed", "Packages", "properties"}} : Post(e)
  /\ UNCHANGED <<call, srv>>

FinishRun ==
  /\ srv = "running"
  /\ srv' = "done"
  /\ \E e \in {"success", "failed"} : Post([kind |-> "Finished", exit |-> e])
  /\ UNCHANGED <<call, signals>>

DestroyTid ==
  /\ srv = "done" \/ (srv = "idle" /\ obj # "none" /\ ~call)   \* run or refused
  /\ srv' = "gone"
  /\ Post([kind |-> "Destroy"])
  /\ UNCHANGED <<call, signals>>

(* The owner of the bus name is lost, then a pending call fails.           *)
Crash ==
  /\ Crashes
  /\ obj # "none" /\ srv # "crashed"
  /\ srv' = "crashed" /\ call' = FALSE
  /\ queue' = queue \o <<[kind |-> "owner"]>> \o IF call THEN <<[kind |-> "callError"]>> ELSE <<>>
  /\ UNCHANGED <<object, stack, signals>>

Daemon == Accept \/ Refuse \/ Report \/ FinishRun \/ DestroyTid \/ Crash

Next == Setup \/ Thread \/ LeaveLoop \/ Daemon

Spec == Init /\ [][Next]_vars

(* The thread runs, and the user closes every dialog.                      *)
FairSpec == Spec /\ WF_vars(Thread) /\ WF_vars(LeaveLoop)

(***************************************************************************)
(* Properties                                                              *)
(***************************************************************************)
(* finished() is emitted at most once, unless the daemon crashes.          *)
FinishedOnce == srv # "crashed" => Len(exits) <= 1

(* No slot has anything left to do with an object that has been deleted    *)
(* by an event loop further up the stack.                                  *)
NoResumeAfterDelete ==
  obj = "deleted" => \A i \in DOMAIN stack : stack[i] \in {<<>>, <<Loop>>}

(* The object keeps the contract of TransactionContract also when slots    *)
(* are interrupted by other slots of the same object.                      *)
Phase == CASE obj = "none" -> "absent"
           [] obj = "deleted" -> "deleted"
           [] OTHER -> IF exits = <<>> THEN "active" ELSE "reported"

Contract == INSTANCE TransactionContract
              WITH Txn <- {"t"},
                   phase <- [t \in {"t"} |-> Phase],
                   outcome <- [t \in {"t"} |-> IF exits = <<>> THEN NoExit ELSE exits[1]]
KeepsContract == Contract!Spec

(* An object that has reported is deleted once the nested event loops have *)
(* been left, wherever the deletion was asked for.                         *)
ReportedDeleted == exits # <<>> ~> obj = "deleted"
=============================================================================

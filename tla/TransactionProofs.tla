-------------------------- MODULE TransactionProofs --------------------------
(***************************************************************************)
(* Proofs about Transaction, for any number of objects, any set of faults  *)
(* and any number of owner changes.                                        *)
(***************************************************************************)
EXTENDS Transaction, TLAPS

AnyEvent == ObjectEvent \cup OwnerEvent

(* Handing the first event to its receiver: the event and what remains of  *)
(* the queue are well formed, and the remaining events were there before.  *)
LEMMA HeadAndTail ==
  ASSUME NEW E, NEW q \in Seq(E), q # <<>>
  PROVE  /\ Head(q) \in E
         /\ Tail(q) \in Seq(E)
         /\ \A i \in 1..Len(Tail(q)) : i + 1 \in 1..Len(q) /\ Tail(q)[i] = q[i + 1]
  OBVIOUS

(* A reported object is well formed, and so is the queue its handler leaves. *)
LEMMA BecomesTyped ==
  ASSUME TypeOK, NEW t \in Txn, NEW s \in Object, NEW evs \in Seq(AnyEvent),
         Becomes(t, s, evs)
  PROVE  tx' \in [Txn -> Object] /\ queue' \in Seq(AnyEvent)
<1>1. tx' \in [Txn -> Object]
  BY DEF TypeOK, Becomes
<1>2. Event("delete", t) \in AnyEvent
  BY DEF Event, AnyEvent, ObjectEvent
<1>3. queue' \in Seq(AnyEvent)
  BY <1>2 DEF Becomes
<1> QED  BY <1>1, <1>3

(* The private slots keep the shape of an object.                          *)
LEMMA ErrorCodeTyped ==
  ASSUME NEW s \in Object, NEW c \in Error
  PROVE  errorCode(s, c) \in Object
<1>1. Append(s.errors, c) \in Seq(Error)
  BY DEF Object
<1> QED  BY <1>1 DEF Object, errorCode

(* finished() reports one of the exit statuses.                            *)
LEMMA FinishedTyped ==
  ASSUME NEW s \in Object, NEW e \in Exit
  PROVE  finished(s, e) \in Object
<1>1. Append(s.exits, e) \in Seq(Exit)
  BY DEF Object
<1> QED  BY <1>1 DEF Object, finished

(* destroy() reports "unknown" at most.                                    *)
LEMMA DestroyTyped ==
  ASSUME NEW s \in Object
  PROVE  destroy(s) \in Object
<1>1. s.exits \in Seq(Exit) /\ "unknown" \in Exit
  BY DEF Object, Exit
<1>2. Append(s.exits, "unknown") \in Seq(Exit)
  BY <1>1
<1> QED  BY <1>1, <1>2 DEF Object, destroy

(* A failed call goes through all three.                                   *)
LEMMA CallFailedTyped ==
  ASSUME NEW s \in Object, NEW a
  PROVE  callFailed(s, a) \in Object
<1>1. CallError(a) \in Error /\ "failed" \in Exit
  BY DEF CallError, Error, Exit
<1> QED  BY <1>1, ErrorCodeTyped, FinishedTyped, DestroyTyped DEF callFailed

(* So does the loss of the daemon.                                         *)
LEMMA DaemonQuitTyped ==
  ASSUME NEW s \in Object
  PROVE  daemonQuit(s) \in Object
<1>1. "ProcessKill" \in Error /\ "killed" \in Exit
  BY DEF Error, Exit
<1> QED  BY <1>1, ErrorCodeTyped, FinishedTyped, DestroyTyped DEF daemonQuit

(* setup() and a connection post match rules.                              *)
LEMMA SetupTyped ==
  ASSUME NEW s \in Object
  PROVE  setup(s) \in Object /\ connectNotify(s) \in Object
<1>1. Rule \in SUBSET Rule /\ {"Destroy"} \in SUBSET Rule /\ {"Finished"} \in SUBSET Rule
  BY DEF Rule
<1>2. s.wire \in Seq(SUBSET Rule)
  BY DEF Object
<1>3. /\ <<IF s.connected THEN Rule ELSE {"Destroy"}>> \in Seq(SUBSET Rule)
      /\ Append(s.wire, {"Finished"}) \in Seq(SUBSET Rule)
  BY <1>1, <1>2
<1> QED  BY <1>2, <1>3 DEF Object, setup, connectNotify

(* The bus takes them.                                                     *)
LEMMA TakenTyped ==
  ASSUME NEW s \in Object, s.wire # <<>>
  PROVE  taken(s) \in Object
<1>1. s.wire \in Seq(SUBSET Rule) /\ s.wired \in SUBSET Rule
  BY DEF Object
<1>2. Tail(s.wire) \in Seq(SUBSET Rule) /\ Head(s.wire) \in SUBSET Rule
  BY <1>1, HeadAndTail
<1>3. s.wired \cup Head(s.wire) \in SUBSET Rule
  BY <1>1, <1>2
<1> QED  BY <1>2, <1>3 DEF Object, taken

(* Posting an event at the end of a well-formed queue.                     *)
LEMMA PostedTyped ==
  ASSUME NEW q \in Seq(AnyEvent), NEW t \in Txn
  PROVE  /\ \A k \in {"createReply", "runReply"}, a \in {"ok", "denied", "error"} :
              Append(q, EventWith(k, t, a)) \in Seq(AnyEvent)
         /\ \A e \in Verdict : Append(q, EventWith("Finished", t, e)) \in Seq(AnyEvent)
         /\ Append(q, Event("Destroy", t)) \in Seq(AnyEvent)
<1>1. ASSUME NEW k \in {"createReply", "runReply"}, NEW a \in {"ok", "denied", "error"}
      PROVE  Append(q, EventWith(k, t, a)) \in Seq(AnyEvent)
  <2>1. EventWith(k, t, a) \in AnyEvent
    BY DEF EventWith, AnyEvent, ObjectEvent
  <2> QED  BY <2>1
<1>2. ASSUME NEW e \in Verdict
      PROVE  Append(q, EventWith("Finished", t, e)) \in Seq(AnyEvent)
  <2>1. EventWith("Finished", t, e) \in AnyEvent
    BY DEF EventWith, AnyEvent, ObjectEvent
  <2> QED  BY <2>1
<1>3. Append(q, Event("Destroy", t)) \in Seq(AnyEvent)
  <2>1. Event("Destroy", t) \in AnyEvent
    BY DEF Event, AnyEvent, ObjectEvent
  <2> QED  BY <2>1
<1> QED  BY <1>1, <1>2, <1>3

(* What a handled Finished carries is an exit status.                      *)
LEMMA VerdictTyped ==
  ASSUME TypeOK, NEW t \in Txn, Handling("Finished", t)
  PROVE  Head(queue).arg \in Exit
<1>1. Head(queue) \in AnyEvent
  BY HeadAndTail DEF TypeOK, Handling, Ready, AnyEvent
<1>2. Head(queue) \in [kind: {"Finished"}, t: Txn, arg: Verdict]
  BY <1>1 DEF Handling, AnyEvent, ObjectEvent, OwnerEvent
<1> QED  BY <1>2, VerdictAssumption

(* Each step of the application keeps the types.                           *)
LEMMA ApplicationTyped ==
  ASSUME TypeOK, NEW t \in Txn, Create(t) \/ Attach(t) \/ Connect(t) \/ Cancel(t)
  PROVE  TypeOK'
<1> USE DEF AnyEvent
<1>1. tx[t] \in Object /\ queue \in Seq(AnyEvent)
  BY DEF TypeOK
<1>2. CASE Create(t)
  <2>1. [tx[t] EXCEPT !.obj = "live"] \in Object
    BY <1>1 DEF Object
  <2>2. tx' \in [Txn -> Object] /\ queue' \in Seq(AnyEvent)
    BY <1>1, <1>2, <2>1, BecomesTyped DEF Create
  <2> QED  BY <1>2, <2>2 DEF TypeOK, Create, External
<1>3. CASE Attach(t)
  <2>1. [tx[t] EXCEPT !.obj = "live"] \in Object
    BY <1>1 DEF Object
  <2>2. tx' \in [Txn -> Object] /\ queue' \in Seq(AnyEvent)
    BY <1>1, <1>3, <2>1, SetupTyped, BecomesTyped DEF Attach
  <2> QED  BY <1>3, <2>2 DEF TypeOK, Attach, External
<1>4. CASE Connect(t)
  <2>1. tx' \in [Txn -> Object] /\ queue' \in Seq(AnyEvent)
    BY <1>1, <1>4, SetupTyped, BecomesTyped DEF Connect
  <2> QED  BY <1>4, <2>1 DEF TypeOK, Connect, External
<1>5. CASE Cancel(t)
  <2>1. [tx[t] EXCEPT !.cancel = IF tx[t].p THEN "sent" ELSE "lost"] \in Object
    BY <1>1 DEF Object
  <2>2. tx' \in [Txn -> Object] /\ queue' \in Seq(AnyEvent)
    BY <1>1, <1>5, <2>1, BecomesTyped DEF Cancel
  <2> QED  BY <1>5, <2>2 DEF TypeOK, Cancel, External
<1> QED  BY <1>2, <1>3, <1>4, <1>5

(* So does each handler of the event loop.                                 *)
LEMMA HandlerTyped ==
  ASSUME TypeOK, EventLoop
  PROVE  TypeOK'
<1> USE DEF AnyEvent
<1>1. queue # <<>> => Tail(queue) \in Seq(AnyEvent)
  BY HeadAndTail DEF TypeOK
<1>2. ASSUME NEW t \in Txn, NEW s \in Object, queue # <<>>, Becomes(t, s, Tail(queue)),
             call' \in [Txn -> {"none", "create", "run", "late"}],
             UNCHANGED <<quitting, External>>
      PROVE  TypeOK'
  <2>1. tx' \in [Txn -> Object] /\ queue' \in Seq(AnyEvent)
    BY <1>1, <1>2, BecomesTyped
  <2> QED  BY <1>2, <2>1 DEF TypeOK, External
<1>3. ASSUME NEW t \in Txn, CreateSucceeded(t)  PROVE TypeOK'
  <2>1. setup(tx[t]) \in Object
    BY SetupTyped DEF TypeOK
  <2>2. call' \in [Txn -> {"none", "create", "run", "late"}]
    BY <1>3 DEF CreateSucceeded, TypeOK
  <2> QED  BY <1>2, <1>3, <2>1, <2>2 DEF CreateSucceeded, Handling, Ready
<1>4. ASSUME NEW t \in Txn, DispatchFailed(t)  PROVE TypeOK'
  <2>1. "InternalError" \in Error /\ "failed" \in Exit
    BY DEF Error, Exit
  <2>2. finished(errorCode(setup(tx[t]), "InternalError"), "failed") \in Object
    BY <2>1, SetupTyped, ErrorCodeTyped, FinishedTyped DEF TypeOK
  <2> QED  BY <1>2, <1>4, <2>2 DEF DispatchFailed, Handling, Ready, TypeOK
<1>5. ASSUME NEW t \in Txn, CreateFailed(t) \/ RunFailed(t)  PROVE TypeOK'
  <2>1. callFailed(tx[t], Head(queue).arg) \in Object
    BY CallFailedTyped DEF TypeOK
  <2> QED  BY <1>2, <1>5, <2>1 DEF CreateFailed, RunFailed, Handling, Ready, TypeOK
<1>6. ASSUME NEW t \in Txn, RunSucceeded(t)  PROVE TypeOK'
  BY <1>2, <1>6 DEF RunSucceeded, Handling, Ready, TypeOK
<1>7. ASSUME NEW t \in Txn, HandleFinished(t)  PROVE TypeOK'
  <2>1. Head(queue).arg \in Exit
    BY <1>7, VerdictTyped DEF HandleFinished
  <2>2. finished(tx[t], Head(queue).arg) \in Object
    BY <2>1, FinishedTyped DEF TypeOK
  <2> QED  BY <1>2, <1>7, <2>2 DEF HandleFinished, Handling, Ready, TypeOK
<1>8. ASSUME NEW t \in Txn, HandleDestroy(t)  PROVE TypeOK'
  <2>1. destroy(tx[t]) \in Object
    BY DestroyTyped DEF TypeOK
  <2> QED  BY <1>2, <1>8, <2>1 DEF HandleDestroy, Handling, Ready, TypeOK
<1>9. ASSUME NEW t \in Txn, HandleDelete(t)  PROVE TypeOK'
  <2>1. [tx[t] EXCEPT !.obj = "deleted", !.p = FALSE] \in Object
    <3>1. tx[t] \in Object
      BY DEF TypeOK
    <3> QED  BY <3>1 DEF Object
  <2> QED  BY <1>2, <1>9, <2>1 DEF HandleDelete, Handling, Ready, TypeOK
<1>10. ASSUME NEW t \in Txn, DaemonQuit(t)  PROVE TypeOK'
  <2>1. daemonQuit(tx[t]) \in Object
    BY DaemonQuitTyped DEF TypeOK
  <2>2. tx' \in [Txn -> Object] /\ queue' \in Seq(AnyEvent)
    BY <1>10, <2>1, BecomesTyped DEF DaemonQuit, TypeOK
  <2> QED  BY <1>10, <2>2 DEF DaemonQuit, External, TypeOK
<1>11. CASE OwnerChanged
  BY <1>1, <1>11 DEF OwnerChanged, Ready, External, TypeOK
<1>12. CASE Discard
  BY <1>1, <1>12 DEF Discard, Ready, External, TypeOK
<1> QED
  BY <1>3, <1>4, <1>5, <1>6, <1>7, <1>8, <1>9, <1>10, <1>11, <1>12 DEF EventLoop

(* So does the bus when it takes a match rule.                             *)
LEMMA BusTyped ==
  ASSUME TypeOK, NEW t \in Txn, TakeRules(t)
  PROVE  TypeOK'
<1>1. taken(tx[t]) \in Object /\ queue \in Seq(AnyEvent)
  BY TakenTyped DEF TypeOK, TakeRules, AnyEvent
<1>2. tx' \in [Txn -> Object] /\ queue' \in Seq(AnyEvent)
  BY <1>1, BecomesTyped DEF TakeRules
<1> QED  BY <1>2 DEF TypeOK, TakeRules, External, AnyEvent

(* And each step of the daemon and the bus.                                *)
LEMMA DaemonTyped ==
  ASSUME TypeOK, Daemon
  PROVE  TypeOK'
<1>0. queue \in Seq(AnyEvent)
  BY DEF TypeOK, AnyEvent
<1>1. ASSUME NEW t \in Txn, AnswerCreate(t) \/ FailCreate(t)  PROVE TypeOK'
  <2>1. queue' \in Seq(AnyEvent)
    BY <1>1, <1>0, PostedTyped DEF AnswerCreate, FailCreate, Reply
  <2> QED  BY <1>1, <2>1 DEF AnswerCreate, FailCreate, Reply, External, TypeOK, AnyEvent
<1>2. ASSUME NEW t \in Txn, AcceptRun(t) \/ RejectRun(t) \/ FailRun(t)  PROVE TypeOK'
  <2>1. queue' \in Seq(AnyEvent)
    BY <1>2, <1>0, PostedTyped DEF AcceptRun, RejectRun, FailRun, Reply
  <2> QED  BY <1>2, <2>1 DEF AcceptRun, RejectRun, FailRun, Reply, External, TypeOK, AnyEvent
<1>3. ASSUME NEW t \in Txn, NEW e \in Verdict, FinishRun(t, e)  PROVE TypeOK'
  <2>1. Append(queue, EventWith("Finished", t, e)) \in Seq(AnyEvent)
    BY <1>0, PostedTyped
  <2>2. queue' \in Seq(AnyEvent)
    BY <1>3, <1>0, <2>1 DEF FinishRun
  <2> QED  BY <1>3, <2>2 DEF FinishRun, TypeOK, AnyEvent
<1>4. ASSUME NEW t \in Txn, DestroyTid(t)  PROVE TypeOK'
  <2>1. Append(queue, Event("Destroy", t)) \in Seq(AnyEvent)
    BY <1>0, PostedTyped
  <2>2. queue' \in Seq(AnyEvent)
    BY <1>4, <1>0, <2>1 DEF DestroyTid
  <2> QED  BY <1>4, <2>2 DEF DestroyTid, TypeOK, AnyEvent
<1>5. ASSUME NEW t \in Txn, ForeignBegin(t)  PROVE TypeOK'
  BY <1>5 DEF ForeignBegin, TypeOK
<1>6. ASSUME NEW old \in BOOLEAN, NEW new \in BOOLEAN, OwnerChange(old, new),
             srv' \in [Txn -> {"absent", "idle", "running", "done", "gone", "lost"}]
      PROVE  TypeOK'
  <2>1. [kind |-> "owner", old |-> old, new |-> new] \in AnyEvent
    BY DEF OwnerEvent, AnyEvent
  <2>2. queue' \in Seq(AnyEvent)
    BY <1>6, <1>0, <2>1 DEF OwnerChange
  <2>3. changes' \in 0..MaxOwnerChanges
    BY <1>6, OwnerChangesAssumption DEF OwnerChange, TypeOK
  <2> QED  BY <1>6, <2>2, <2>3 DEF OwnerChange, TypeOK, AnyEvent
<1>7. CASE LoseOwner
  BY <1>6, <1>7 DEF LoseOwner, TypeOK
<1>8. CASE StartOwner
  BY <1>6, <1>8 DEF StartOwner, TypeOK
<1> QED
  BY <1>1, <1>2, <1>3, <1>4, <1>5, <1>7, <1>8 DEF Daemon, DaemonOf

(* Every variable keeps its type in every reachable state.                 *)
THEOREM TypeCorrect == Spec => []TypeOK
<1>1. Init => TypeOK
  <2>1. NoObject \in Object
    BY DEF NoObject, Object, Rule
  <2> QED
    BY <2>1, OwnerChangesAssumption DEF Init, TypeOK, NoExit
<1>2. TypeOK /\ [Next]_vars => TypeOK'
  <2> SUFFICES ASSUME TypeOK, [Next]_vars  PROVE TypeOK'
    OBVIOUS
  <2>1. CASE Application
    BY <2>1, ApplicationTyped DEF Application
  <2>2. CASE EventLoop
    BY <2>2, HandlerTyped
  <2>3. CASE Bus
    BY <2>3, BusTyped DEF Bus
  <2>4. CASE Daemon
    BY <2>4, DaemonTyped
  <2>5. CASE UNCHANGED vars
    BY <2>5 DEF vars, TypeOK
  <2> QED  BY <2>1, <2>2, <2>3, <2>4, <2>5 DEF Next
<1> QED  BY <1>1, <1>2, PTL DEF Spec

(***************************************************************************)
(* The contract                                                            *)
(***************************************************************************)
(* Deferred deletion is what could break the contract: it must never be    *)
(* scheduled for an object that has reported nothing.                      *)
Reported(s) == s.exits # <<>>

ObjectInv(s) ==
  /\ s.p => s.obj = "live"
  /\ s.obj = "none" => ~Reported(s)
  /\ s.sentFinished => Reported(s)
  /\ s.dying => Reported(s)

DeletionsOfDying ==
  \A i \in 1..Len(queue) : queue[i].kind = "delete" => tx[queue[i].t].dying

ContractInv ==
  /\ TypeOK
  /\ \A t \in Txn : ObjectInv(tx[t])
  /\ DeletionsOfDying

(* The slots of a live object only move it forward: the first report is    *)
(* kept and a deletion is not called off.                                  *)
Forward(s, r) ==
  /\ r \in Object
  /\ ObjectInv(r)
  /\ r.obj = s.obj
  /\ s.dying => r.dying
  /\ Reported(s) => Reported(r) /\ r.exits[1] = s.exits[1]

Alive(s) == s \in Object /\ ObjectInv(s) /\ s.obj = "live"

(* A slot may call another one.                                            *)
LEMMA ForwardTransitive ==
  ASSUME NEW s, NEW r, NEW q, Forward(s, r), Forward(r, q)
  PROVE  Forward(s, q)
  BY DEF Forward

(* An object that is moved forward is still there.                         *)
LEMMA ForwardAlive ==
  ASSUME NEW s, NEW r, Alive(s), Forward(s, r)
  PROVE  Alive(r)
  BY DEF Forward, Alive

(* Another report leaves the first one.                                    *)
LEMMA AppendKeepsFirst ==
  ASSUME NEW S, NEW q \in Seq(S), NEW e \in S
  PROVE  Append(q, e) # <<>> /\ (q # <<>> => Append(q, e)[1] = q[1])
<1>1. Len(Append(q, e)) = Len(q) + 1 /\ Len(q) \in Nat
  OBVIOUS
<1>2. Append(q, e) # <<>>
  BY <1>1
<1>3. q # <<>> => 1 \in 1..Len(q)
  BY <1>1
<1>4. \A i \in 1..Len(q) : Append(q, e)[i] = q[i]
  OBVIOUS
<1> QED  BY <1>2, <1>3, <1>4

(* errorCode() does not report an outcome.                                 *)
LEMMA ErrorCodeForward ==
  ASSUME NEW s, NEW c \in Error, Alive(s)
  PROVE  Forward(s, errorCode(s, c))
<1>1. errorCode(s, c) \in Object
  BY ErrorCodeTyped DEF Alive
<1>2. /\ errorCode(s, c).exits = s.exits /\ errorCode(s, c).obj = s.obj
      /\ errorCode(s, c).p = s.p /\ errorCode(s, c).dying = s.dying
      /\ errorCode(s, c).sentFinished = s.sentFinished
  BY DEF Alive, errorCode, Object
<1> QED  BY <1>1, <1>2 DEF Alive, Forward, ObjectInv, Reported

(* finished() reports one and schedules the deletion.                      *)
LEMMA FinishedForward ==
  ASSUME NEW s, NEW e \in Exit, Alive(s)
  PROVE  Forward(s, finished(s, e))
<1>1. finished(s, e) \in Object /\ s.exits \in Seq(Exit)
  BY FinishedTyped DEF Alive, Object
<1>2. /\ finished(s, e).exits = Append(s.exits, e)
      /\ finished(s, e).obj = s.obj
      /\ finished(s, e).dying
  BY DEF Alive, finished, Object
<1> QED  BY <1>1, <1>2, AppendKeepsFirst DEF Alive, Forward, ObjectInv, Reported

(* destroy() reports one unless finished() has recorded its own.           *)
LEMMA DestroyForward ==
  ASSUME NEW s, Alive(s)
  PROVE  Forward(s, destroy(s))
<1>1. destroy(s) \in Object /\ s.exits \in Seq(Exit) /\ "unknown" \in Exit
  BY DestroyTyped DEF Alive, Object, Exit
<1>2. /\ destroy(s).exits = IF s.sentFinished THEN s.exits ELSE Append(s.exits, "unknown")
      /\ destroy(s).obj = s.obj
      /\ destroy(s).sentFinished = s.sentFinished
      /\ destroy(s).dying
  BY DEF Alive, destroy, Object
<1> QED  BY <1>1, <1>2, AppendKeepsFirst DEF Alive, Forward, ObjectInv, Reported

(* setup() and connectNotify() change neither outcome nor deletion.        *)
LEMMA SetupForward ==
  ASSUME NEW s, Alive(s)
  PROVE  Forward(s, setup(s)) /\ Forward(s, connectNotify(s))
<1>1. setup(s) \in Object /\ connectNotify(s) \in Object
  BY SetupTyped DEF Alive
<1>2. ASSUME NEW r \in {setup(s), connectNotify(s)}
      PROVE  /\ r.exits = s.exits /\ r.obj = s.obj /\ r.dying = s.dying
             /\ r.sentFinished = s.sentFinished
  BY DEF Alive, setup, connectNotify, Object
<1> QED  BY <1>1, <1>2 DEF Alive, Forward, ObjectInv, Reported

(* A failed call moves the object forward, slot by slot.                   *)
LEMMA CallFailedForward ==
  ASSUME NEW s, NEW a, Alive(s)
  PROVE  Forward(s, callFailed(s, a))
<1>1. CallError(a) \in Error /\ "failed" \in Exit
  BY DEF CallError, Error, Exit
<1> DEFINE r == errorCode(s, CallError(a))
           q == finished(r, "failed")
<1>2. Forward(s, r) /\ Alive(r)
  BY <1>1, ErrorCodeForward, ForwardAlive
<1>3. Forward(r, q) /\ Alive(q)
  BY <1>1, <1>2, FinishedForward, ForwardAlive
<1>4. Forward(q, destroy(q))
  BY <1>3, DestroyForward
<1> QED  BY <1>2, <1>3, <1>4, ForwardTransitive DEF callFailed

(* So does the loss of the daemon, on an object with a proxy.              *)
LEMMA DaemonQuitForward ==
  ASSUME NEW s, s \in Object, ObjectInv(s)
  PROVE  Forward(s, daemonQuit(s))
<1>1. "ProcessKill" \in Error /\ "killed" \in Exit
  BY DEF Error, Exit
<1> DEFINE r == errorCode(s, "ProcessKill")
           q == finished(r, "killed")
<1>2. CASE s.p
  <2>1. Alive(s)
    BY <1>2 DEF Alive, ObjectInv
  <2>2. Forward(s, r) /\ Alive(r)
    BY <1>1, <2>1, ErrorCodeForward, ForwardAlive
  <2>3. Forward(r, q) /\ Alive(q)
    BY <1>1, <2>2, FinishedForward, ForwardAlive
  <2>4. Forward(q, destroy(q))
    BY <2>3, DestroyForward
  <2> QED  BY <1>2, <2>2, <2>3, <2>4, ForwardTransitive DEF daemonQuit
<1>3. CASE ~s.p
  BY <1>3 DEF daemonQuit, Forward, ObjectInv
<1> QED  BY <1>2, <1>3

(* What the contract lets happen to one object in one step.                *)
Move(o, s) ==
  \/ Phase(s) = Phase(o) /\ Outcome(s) = Outcome(o)
  \/ Phase(o) = "absent" /\ Phase(s) = "active" /\ Outcome(s) = Outcome(o)
  \/ Phase(o) = "active" /\ Phase(s) = "reported" /\ Outcome(s) \in Exit
  \/ Phase(o) = "reported" /\ Phase(s) = "deleted" /\ Outcome(s) = Outcome(o)

(* Moving forward is a move of the contract.                               *)
LEMMA ForwardMoves ==
  ASSUME NEW s \in Object, NEW r, s.obj = "live", Forward(s, r)
  PROVE  Move(s, r)
<1>1. r.obj = "live" /\ r.exits \in Seq(Exit) /\ s.exits \in Seq(Exit)
  BY DEF Forward, Object
<1>2. CASE s.exits = <<>> /\ r.exits # <<>>
  <2>1. 1 \in 1..Len(r.exits)
    BY <1>1, <1>2
  <2>2. r.exits[1] \in Exit
    BY <1>1, <2>1
  <2> QED  BY <1>1, <1>2, <2>2 DEF Move, Phase, Outcome
<1>3. CASE s.exits = <<>> /\ r.exits = <<>>
  BY <1>1, <1>3 DEF Move, Phase, Outcome
<1>4. CASE s.exits # <<>>
  BY <1>1, <1>4 DEF Move, Phase, Outcome, Forward, Reported
<1> QED  BY <1>2, <1>3, <1>4

(* A move of one object is a step of the contract, or a stutter.           *)
LEMMA MoveImplements ==
  ASSUME TypeOK, NEW t \in Txn, NEW s, tx' = [tx EXCEPT ![t] = s], Move(tx[t], s)
  PROVE  [Contract!Next]_(Contract!vars)
<1> DEFINE phase == [u \in Txn |-> Phase(tx[u])]
           outcome == [u \in Txn |-> Outcome(tx[u])]
<1>1. /\ phase' = [phase EXCEPT ![t] = Phase(s)]
      /\ outcome' = [outcome EXCEPT ![t] = Outcome(s)]
  BY DEF TypeOK
<1>2. /\ phase = [phase EXCEPT ![t] = Phase(tx[t])]
      /\ outcome = [outcome EXCEPT ![t] = Outcome(tx[t])]
  OBVIOUS
<1>3. phase[t] = Phase(tx[t]) /\ outcome[t] = Outcome(tx[t])
  OBVIOUS
<1> HIDE DEF phase, outcome
<1>4. CASE Phase(s) = Phase(tx[t]) /\ Outcome(s) = Outcome(tx[t])
  <2>1. phase' = phase /\ outcome' = outcome
    BY <1>1, <1>2, <1>4
  <2> QED  BY <2>1 DEF Contract!vars, phase, outcome
<1>5. CASE Phase(tx[t]) = "absent" /\ Phase(s) = "active" /\ Outcome(s) = Outcome(tx[t])
  <2>1. /\ phase[t] = "absent" /\ phase' = [phase EXCEPT ![t] = "active"]
        /\ outcome' = outcome
    BY <1>1, <1>2, <1>3, <1>5
  <2>2. Contract!Start(t)
    BY <2>1 DEF Contract!Start, phase, outcome
  <2> QED  BY <2>2 DEF Contract!Next
<1>6. CASE Phase(tx[t]) = "active" /\ Phase(s) = "reported" /\ Outcome(s) \in Exit
  <2>1. /\ phase[t] = "active" /\ phase' = [phase EXCEPT ![t] = "reported"]
        /\ outcome' = [outcome EXCEPT ![t] = Outcome(s)]
    BY <1>1, <1>3, <1>6
  <2>2. Contract!Report(t, Outcome(s))
    BY <2>1 DEF Contract!Report, phase, outcome
  <2> QED  BY <1>6, <2>2 DEF Contract!Next
<1>7. CASE Phase(tx[t]) = "reported" /\ Phase(s) = "deleted" /\ Outcome(s) = Outcome(tx[t])
  <2>1. /\ phase[t] = "reported" /\ phase' = [phase EXCEPT ![t] = "deleted"]
        /\ outcome' = outcome
    BY <1>1, <1>2, <1>3, <1>7
  <2>2. Contract!Delete(t)
    BY <2>1 DEF Contract!Delete, phase, outcome
  <2> QED  BY <2>2 DEF Contract!Next
<1> QED  BY <1>4, <1>5, <1>6, <1>7 DEF Move

(* A step that hands object t on to state s keeps the invariant and is a   *)
(* step of the contract.                                                   *)
LEMMA BecomesContract ==
  ASSUME ContractInv, TypeOK', NEW t \in Txn, NEW s \in Object, NEW evs,
         evs = queue \/ (queue # <<>> /\ evs = Tail(queue)),
         Becomes(t, s, evs), ObjectInv(s), tx[t].dying => s.dying, Move(tx[t], s)
  PROVE  ContractInv' /\ [Contract!Next]_(Contract!vars)
<1>1. tx' = [tx EXCEPT ![t] = s] /\ tx \in [Txn -> Object] /\ queue \in Seq(AnyEvent)
  BY DEF Becomes, ContractInv, TypeOK, AnyEvent
<1>2. [Contract!Next]_(Contract!vars)
  BY <1>1, MoveImplements DEF ContractInv
<1>3. \A u \in Txn : ObjectInv(tx'[u])
  BY <1>1 DEF ContractInv
<1>4. \A u \in Txn : tx[u].dying => tx'[u].dying
  BY <1>1
<1>5. /\ evs \in Seq(AnyEvent)
      /\ \A i \in 1..Len(evs) : evs[i].kind = "delete" => tx[evs[i].t].dying
  <2>1. CASE evs = queue
    BY <1>1, <2>1 DEF ContractInv, DeletionsOfDying
  <2>2. CASE queue # <<>> /\ evs = Tail(queue)
    <3>1. /\ Tail(queue) \in Seq(AnyEvent)
          /\ \A i \in 1..Len(Tail(queue)) : i + 1 \in 1..Len(queue) /\ Tail(queue)[i] = queue[i + 1]
      BY <1>1, <2>2, HeadAndTail
    <3> QED  BY <2>2, <3>1 DEF ContractInv, DeletionsOfDying
  <2> QED  BY <2>1, <2>2
<1>6. \A i \in 1..Len(evs) : evs[i] \in AnyEvent
  BY <1>5
<1>7. \A i \in 1..Len(evs) : evs[i].kind = "delete" => tx'[evs[i].t].dying
  <2> SUFFICES ASSUME NEW i \in 1..Len(evs), evs[i].kind = "delete"
               PROVE  tx'[evs[i].t].dying
    OBVIOUS
  <2>1. evs[i].t \in Txn
    BY <1>6 DEF AnyEvent, ObjectEvent, OwnerEvent
  <2> QED  BY <1>4, <1>5, <2>1
<1>8. DeletionsOfDying'
  <2>1. CASE queue' = evs
    BY <1>7, <2>1 DEF DeletionsOfDying
  <2>2. CASE queue' = Append(evs, Event("delete", t)) /\ s.dying
    <3>1. ASSUME NEW i \in 1..Len(queue')
          PROVE  (i \in 1..Len(evs) /\ queue'[i] = evs[i]) \/ queue'[i] = Event("delete", t)
      BY <1>5, <2>2
    <3>2. Event("delete", t).t = t /\ tx'[t].dying
      BY <1>1, <2>2 DEF Event
    <3> QED  BY <1>7, <3>1, <3>2 DEF DeletionsOfDying
  <2> QED  BY <2>1, <2>2 DEF Becomes
<1> QED  BY <1>2, <1>3, <1>8 DEF ContractInv

(* A slot of a live object is such a step.                                 *)
LEMMA ForwardContract ==
  ASSUME ContractInv, TypeOK', NEW t \in Txn, NEW s, NEW evs,
         evs = queue \/ (queue # <<>> /\ evs = Tail(queue)),
         Becomes(t, s, evs), tx[t].obj = "live", Forward(tx[t], s)
  PROVE  ContractInv' /\ [Contract!Next]_(Contract!vars)
<1>1. tx[t] \in Object /\ s \in Object /\ ObjectInv(s) /\ (tx[t].dying => s.dying)
  BY DEF ContractInv, TypeOK, Forward
<1>2. Move(tx[t], s)
  BY <1>1, ForwardMoves
<1> QED  BY <1>1, <1>2, BecomesContract

(* A step that leaves the objects alone and schedules no deletion is none  *)
(* of the contract's.                                                      *)
LEMMA SilentContract ==
  ASSUME ContractInv, TypeOK', UNCHANGED tx,
         \/ queue' = queue
         \/ queue # <<>> /\ queue' = Tail(queue)
         \/ \E e \in AnyEvent : e.kind # "delete" /\ queue' = Append(queue, e)
  PROVE  ContractInv' /\ [Contract!Next]_(Contract!vars)
<1>1. queue \in Seq(AnyEvent)
  BY DEF ContractInv, TypeOK, AnyEvent
<1>2. UNCHANGED Contract!vars
  BY DEF Contract!vars
<1>3. \A t \in Txn : ObjectInv(tx'[t])
  BY DEF ContractInv
<1>4. DeletionsOfDying'
  <2>1. CASE queue' = queue
    BY <2>1 DEF ContractInv, DeletionsOfDying
  <2>2. CASE queue # <<>> /\ queue' = Tail(queue)
    BY <1>1, <2>2, HeadAndTail DEF ContractInv, DeletionsOfDying
  <2>3. ASSUME NEW e \in AnyEvent, e.kind # "delete", queue' = Append(queue, e)
        PROVE  DeletionsOfDying'
    <3>1. ASSUME NEW i \in 1..Len(queue')
          PROVE  (i \in 1..Len(queue) /\ queue'[i] = queue[i]) \/ queue'[i] = e
      BY <1>1, <2>3
    <3> QED  BY <2>3, <3>1 DEF ContractInv, DeletionsOfDying
  <2> QED  BY <2>1, <2>2, <2>3
<1> QED  BY <1>2, <1>3, <1>4 DEF ContractInv

(* Each step of the application keeps the invariant and the contract.      *)
LEMMA ApplicationContract ==
  ASSUME ContractInv, TypeOK', NEW t \in Txn, Create(t) \/ Attach(t) \/ Connect(t) \/ Cancel(t)
  PROVE  ContractInv' /\ [Contract!Next]_(Contract!vars)
<1>1. tx[t] \in Object /\ ObjectInv(tx[t])
  BY DEF ContractInv, TypeOK
<1> DEFINE born == [tx[t] EXCEPT !.obj = "live"]
<1>2. ASSUME tx[t].obj = "none"
      PROVE  Alive(born) /\ born.dying = tx[t].dying /\ Phase(tx[t]) = "absent" /\ Phase(born) = "active"
             /\ Outcome(born) = Outcome(tx[t])
  BY <1>1, <1>2 DEF Alive, Object, ObjectInv, Reported, Phase, Outcome
<1>3. CASE Create(t)
  <2>1. Becomes(t, born, queue) /\ tx[t].obj = "none"
    BY <1>3 DEF Create
  <2>2. Move(tx[t], born) /\ born \in Object /\ ObjectInv(born) /\ (tx[t].dying => born.dying)
    BY <1>2, <2>1 DEF Move, Alive
  <2> QED  BY <2>1, <2>2, BecomesContract
<1>4. CASE Attach(t)
  <2>1. Becomes(t, setup(born), queue) /\ tx[t].obj = "none"
    BY <1>4 DEF Attach
  <2>2. Forward(born, setup(born))
    BY <1>2, <2>1, SetupForward
  <2>3. setup(born).exits = born.exits /\ setup(born).obj = born.obj
    BY <1>2, <2>1 DEF Alive, Object, setup
  <2>4. Phase(setup(born)) = Phase(born) /\ Outcome(setup(born)) = Outcome(born)
    BY <2>3 DEF Phase, Outcome
  <2>5. Move(tx[t], setup(born))
    BY <1>2, <2>1, <2>4 DEF Move
  <2>6. setup(born) \in Object /\ ObjectInv(setup(born)) /\ (tx[t].dying => setup(born).dying)
    BY <1>2, <2>1, <2>2 DEF Forward
  <2> QED  BY <2>1, <2>5, <2>6, BecomesContract
<1>5. CASE Connect(t)
  <2>1. Forward(tx[t], connectNotify(tx[t]))
    BY <1>1, <1>5, SetupForward DEF Connect, Alive
  <2> QED  BY <1>5, <2>1, ForwardContract DEF Connect
<1>6. CASE Cancel(t)
  <2> DEFINE s == [tx[t] EXCEPT !.cancel = IF tx[t].p THEN "sent" ELSE "lost"]
  <2>1. s \in Object /\ s.obj = tx[t].obj /\ s.exits = tx[t].exits /\ s.dying = tx[t].dying
        /\ s.p = tx[t].p /\ s.sentFinished = tx[t].sentFinished
    BY <1>1 DEF Object
  <2>2. Forward(tx[t], s)
    BY <1>1, <2>1 DEF Forward, ObjectInv, Reported
  <2> QED  BY <1>6, <2>2, ForwardContract DEF Cancel
<1> QED  BY <1>3, <1>4, <1>5, <1>6

(* A handler that runs a slot of the receiver.                             *)
LEMMA ReceiverAlive ==
  ASSUME ContractInv, NEW t \in Txn, Ready, Head(queue).kind # "owner",
         Head(queue).t = t, Deliverable(Head(queue))
  PROVE  Alive(tx[t]) /\ queue # <<>>
<1>1. tx[t] \in Object /\ ObjectInv(tx[t])
  BY DEF ContractInv, TypeOK
<1>2. tx[t].p \/ tx[t].obj = "live"
  BY DEF Deliverable
<1> QED  BY <1>1, <1>2 DEF Alive, ObjectInv, Ready

(* Each handler of the event loop keeps the invariant and the contract.    *)
LEMMA HandlerContract ==
  ASSUME ContractInv, TypeOK', EventLoop
  PROVE  ContractInv' /\ [Contract!Next]_(Contract!vars)
<1>1. ASSUME NEW t \in Txn, NEW s, Alive(tx[t]) /\ queue # <<>>,
             Forward(tx[t], s), Becomes(t, s, Tail(queue))
      PROVE  ContractInv' /\ [Contract!Next]_(Contract!vars)
  BY <1>1, ForwardContract DEF Alive
<1>2. ASSUME NEW t \in Txn, CreateSucceeded(t)
      PROVE  ContractInv' /\ [Contract!Next]_(Contract!vars)
  <2>1. Alive(tx[t]) /\ queue # <<>>
    BY <1>2, ReceiverAlive DEF CreateSucceeded, Handling
  <2>2. Forward(tx[t], setup(tx[t]))
    BY <2>1, SetupForward
  <2> QED  BY <1>1, <1>2, <2>1, <2>2 DEF CreateSucceeded
<1>3. ASSUME NEW t \in Txn, DispatchFailed(t)
      PROVE  ContractInv' /\ [Contract!Next]_(Contract!vars)
  <2> DEFINE r == setup(tx[t])
             q == errorCode(r, "InternalError")
  <2>1. "InternalError" \in Error /\ "failed" \in Exit
    BY DEF Error, Exit
  <2>2. Alive(tx[t]) /\ queue # <<>>
    BY <1>3, ReceiverAlive DEF DispatchFailed, Handling
  <2>3. Forward(tx[t], r) /\ Alive(r)
    BY <2>2, SetupForward, ForwardAlive
  <2>4. Forward(r, q) /\ Alive(q)
    BY <2>1, <2>3, ErrorCodeForward, ForwardAlive
  <2>5. Forward(q, finished(q, "failed"))
    BY <2>1, <2>4, FinishedForward
  <2>6. Forward(tx[t], finished(q, "failed"))
    BY <2>3, <2>4, <2>5, ForwardTransitive
  <2> QED  BY <1>1, <1>3, <2>2, <2>6 DEF DispatchFailed
<1>4. ASSUME NEW t \in Txn, CreateFailed(t) \/ RunFailed(t)
      PROVE  ContractInv' /\ [Contract!Next]_(Contract!vars)
  <2>1. Alive(tx[t]) /\ queue # <<>>
    BY <1>4, ReceiverAlive DEF CreateFailed, RunFailed, Handling
  <2>2. Forward(tx[t], callFailed(tx[t], Head(queue).arg))
    BY <2>1, CallFailedForward
  <2> QED  BY <1>1, <1>4, <2>1, <2>2 DEF CreateFailed, RunFailed
<1>5. ASSUME NEW t \in Txn, RunSucceeded(t)
      PROVE  ContractInv' /\ [Contract!Next]_(Contract!vars)
  <2>1. Alive(tx[t]) /\ queue # <<>>
    BY <1>5, ReceiverAlive DEF RunSucceeded, Handling
  <2>2. Forward(tx[t], tx[t])
    BY <2>1 DEF Alive, Forward
  <2> QED  BY <1>1, <1>5, <2>1, <2>2 DEF RunSucceeded
<1>6. ASSUME NEW t \in Txn, HandleFinished(t)
      PROVE  ContractInv' /\ [Contract!Next]_(Contract!vars)
  <2>1. Alive(tx[t]) /\ queue # <<>>
    BY <1>6, ReceiverAlive DEF HandleFinished, Handling
  <2>2. Forward(tx[t], finished(tx[t], Head(queue).arg))
    BY <1>6, <2>1, VerdictTyped, FinishedForward DEF HandleFinished, ContractInv
  <2> QED  BY <1>1, <1>6, <2>1, <2>2 DEF HandleFinished
<1>7. ASSUME NEW t \in Txn, HandleDestroy(t)
      PROVE  ContractInv' /\ [Contract!Next]_(Contract!vars)
  <2>1. Alive(tx[t]) /\ queue # <<>>
    BY <1>7, ReceiverAlive DEF HandleDestroy, Handling
  <2>2. Forward(tx[t], destroy(tx[t]))
    BY <2>1, DestroyForward
  <2> QED  BY <1>1, <1>7, <2>1, <2>2 DEF HandleDestroy
<1>8. ASSUME NEW t \in Txn, HandleDelete(t)
      PROVE  ContractInv' /\ [Contract!Next]_(Contract!vars)
  <2> DEFINE s == [tx[t] EXCEPT !.obj = "deleted", !.p = FALSE]
  <2>1. Alive(tx[t]) /\ queue # <<>> /\ Becomes(t, s, Tail(queue))
    BY <1>8, ReceiverAlive DEF HandleDelete, Handling
  <2>2. tx[t].dying
    <3>1. queue \in Seq(AnyEvent) /\ Head(queue).kind = "delete" /\ Head(queue).t = t
      BY <1>8 DEF HandleDelete, Handling, ContractInv, TypeOK, AnyEvent
    <3>2. 1 \in 1..Len(queue) /\ Head(queue) = queue[1]
      BY <2>1, <3>1
    <3> QED  BY <3>1, <3>2 DEF ContractInv, DeletionsOfDying
  <2>3. /\ s \in Object /\ s.obj = "deleted" /\ ~s.p /\ s.exits = tx[t].exits
        /\ s.dying = tx[t].dying /\ s.sentFinished = tx[t].sentFinished
    BY <2>1 DEF Alive, Object
  <2>4. ObjectInv(s) /\ Reported(tx[t])
    BY <2>1, <2>2, <2>3 DEF Alive, ObjectInv, Reported
  <2>5. Move(tx[t], s)
    BY <2>1, <2>3, <2>4 DEF Move, Phase, Outcome, Alive, Reported
  <2> QED  BY <2>1, <2>3, <2>4, <2>5, BecomesContract
<1>9. ASSUME NEW t \in Txn, DaemonQuit(t)
      PROVE  ContractInv' /\ [Contract!Next]_(Contract!vars)
  <2>1. tx[t] \in Object /\ ObjectInv(tx[t]) /\ Becomes(t, daemonQuit(tx[t]), queue)
    BY <1>9 DEF DaemonQuit, ContractInv, TypeOK
  <2>2. Forward(tx[t], daemonQuit(tx[t]))
    BY <2>1, DaemonQuitForward
  <2>3. CASE tx[t].p
    <3>1. tx[t].obj = "live"
      BY <2>1, <2>3 DEF ObjectInv
    <3> QED  BY <2>1, <2>2, <3>1, ForwardContract
  <2>4. CASE ~tx[t].p
    <3>1. daemonQuit(tx[t]) = tx[t]
      BY <2>4 DEF daemonQuit
    <3> QED  BY <2>1, <3>1, BecomesContract DEF Move
  <2> QED  BY <2>3, <2>4
<1>10. CASE OwnerChanged \/ Discard
  BY <1>10, SilentContract DEF OwnerChanged, Discard, Ready
<1> QED
  BY <1>2, <1>3, <1>4, <1>5, <1>6, <1>7, <1>8, <1>9, <1>10 DEF EventLoop

(* The bus changes no more than the rules, of a deleted object as well.    *)
LEMMA BusContract ==
  ASSUME ContractInv, TypeOK', NEW t \in Txn, TakeRules(t)
  PROVE  ContractInv' /\ [Contract!Next]_(Contract!vars)
<1>1. tx[t] \in Object /\ ObjectInv(tx[t]) /\ tx[t].wire # <<>>
      /\ Becomes(t, taken(tx[t]), queue)
  BY DEF ContractInv, TypeOK, TakeRules
<1>2. taken(tx[t]) \in Object
  BY <1>1, TakenTyped
<1>3. /\ taken(tx[t]).exits = tx[t].exits /\ taken(tx[t]).obj = tx[t].obj
      /\ taken(tx[t]).p = tx[t].p /\ taken(tx[t]).dying = tx[t].dying
      /\ taken(tx[t]).sentFinished = tx[t].sentFinished
  BY <1>1 DEF taken, Object
<1>4. ObjectInv(taken(tx[t])) /\ Move(tx[t], taken(tx[t]))
  BY <1>1, <1>3 DEF ObjectInv, Reported, Move, Phase, Outcome
<1> QED  BY <1>1, <1>2, <1>3, <1>4, BecomesContract

(* The daemon touches no object and posts no deletion.                     *)
LEMMA DaemonContract ==
  ASSUME ContractInv, TypeOK', Daemon
  PROVE  ContractInv' /\ [Contract!Next]_(Contract!vars)
<1>1. ASSUME NEW t \in Txn, NEW a \in {"ok", "denied", "error"}, NEW c,
             NEW k \in {"createReply", "runReply"}, Reply(t, k, a, c), UNCHANGED tx
      PROVE  ContractInv' /\ [Contract!Next]_(Contract!vars)
  <2>1. EventWith(k, t, a) \in AnyEvent /\ EventWith(k, t, a).kind # "delete"
    BY DEF EventWith, AnyEvent, ObjectEvent
  <2> QED  BY <1>1, <2>1, SilentContract DEF Reply
<1>2. ASSUME NEW t \in Txn, AnswerCreate(t) \/ FailCreate(t)
      PROVE  ContractInv' /\ [Contract!Next]_(Contract!vars)
  BY <1>1, <1>2 DEF AnswerCreate, FailCreate
<1>3. ASSUME NEW t \in Txn, AcceptRun(t) \/ RejectRun(t) \/ FailRun(t)
      PROVE  ContractInv' /\ [Contract!Next]_(Contract!vars)
  BY <1>1, <1>3, SilentContract DEF AcceptRun, RejectRun, FailRun
<1>4. ASSUME NEW t \in Txn, NEW e \in Verdict, FinishRun(t, e)
      PROVE  ContractInv' /\ [Contract!Next]_(Contract!vars)
  <2>1. EventWith("Finished", t, e) \in AnyEvent /\ EventWith("Finished", t, e).kind # "delete"
    BY DEF EventWith, AnyEvent, ObjectEvent
  <2> QED  BY <1>4, <2>1, SilentContract DEF FinishRun
<1>5. ASSUME NEW t \in Txn, DestroyTid(t)
      PROVE  ContractInv' /\ [Contract!Next]_(Contract!vars)
  <2>1. Event("Destroy", t) \in AnyEvent /\ Event("Destroy", t).kind # "delete"
    BY DEF Event, AnyEvent, ObjectEvent
  <2> QED  BY <1>5, <2>1, SilentContract DEF DestroyTid
<1>6. ASSUME NEW t \in Txn, ForeignBegin(t)
      PROVE  ContractInv' /\ [Contract!Next]_(Contract!vars)
  BY <1>6, SilentContract DEF ForeignBegin
<1>7. ASSUME NEW old \in BOOLEAN, NEW new \in BOOLEAN, OwnerChange(old, new)
      PROVE  ContractInv' /\ [Contract!Next]_(Contract!vars)
  <2> DEFINE e == [kind |-> "owner", old |-> old, new |-> new]
  <2>1. e \in AnyEvent /\ e.kind # "delete"
    BY DEF OwnerEvent, AnyEvent
  <2>2. UNCHANGED tx /\ queue' = Append(queue, e)
    BY <1>7 DEF OwnerChange
  <2> QED  BY <2>1, <2>2, SilentContract
<1>8. CASE LoseOwner \/ StartOwner
  BY <1>7, <1>8 DEF LoseOwner, StartOwner
<1> QED
  BY <1>2, <1>3, <1>4, <1>5, <1>6, <1>8 DEF Daemon, DaemonOf

(* The invariant holds, and every step is one of the contract.             *)
LEMMA ContractInvariant == Spec => []ContractInv /\ KeepsContract
<1>1. Init => ContractInv /\ Contract!Init
  <2> SUFFICES ASSUME Init  PROVE ContractInv /\ Contract!Init
    OBVIOUS
  <2>1. TypeOK
    <3>1. NoObject \in Object
      BY DEF NoObject, Object, Rule
    <3> QED
      BY <3>1, OwnerChangesAssumption DEF Init, TypeOK, NoExit
  <2>2. \A t \in Txn : ObjectInv(tx[t])
    BY DEF Init, NoObject, ObjectInv, Reported
  <2>3. DeletionsOfDying
    BY DEF Init, DeletionsOfDying
  <2>4. Contract!Init
    BY DEF Init, NoObject, Contract!Init, Phase, Outcome
  <2> QED  BY <2>1, <2>2, <2>3, <2>4 DEF ContractInv
<1>2. ContractInv /\ TypeOK' /\ [Next]_vars => ContractInv' /\ [Contract!Next]_(Contract!vars)
  <2> SUFFICES ASSUME ContractInv, TypeOK', [Next]_vars
               PROVE  ContractInv' /\ [Contract!Next]_(Contract!vars)
    OBVIOUS
  <2>1. CASE Application
    BY <2>1, ApplicationContract DEF Application
  <2>2. CASE EventLoop
    BY <2>2, HandlerContract
  <2>3. CASE Bus
    BY <2>3, BusContract DEF Bus
  <2>4. CASE Daemon
    BY <2>4, DaemonContract
  <2>5. CASE UNCHANGED vars
    BY <2>5, SilentContract DEF vars
  <2> QED  BY <2>1, <2>2, <2>3, <2>4, <2>5 DEF Next
<1>3. Spec => []TypeOK
  BY TypeCorrect
<1> QED  BY <1>1, <1>2, <1>3, PTL DEF Spec, KeepsContract, Contract!Spec

(* The library keeps its contract with the application whatever the daemon *)
(* and the bus do: one outcome per object, and deletion only after it.     *)
THEOREM ContractKept == Spec => KeepsContract
BY ContractInvariant
=============================================================================

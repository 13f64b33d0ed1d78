---------------------------- MODULE VerdictProofs ----------------------------
(***************************************************************************)
(* Two proofs about what an own transaction reports in Transaction.        *)
(*                                                                         *)
(* The order in which the tids and the owner changes are handled never     *)
(* lets daemonQuit() end an own transaction whose daemon is still there.   *)
(*                                                                         *)
(* An exit status that the daemon announced is not overtaken by destroy(), *)
(* daemonQuit() or the failure of a call, whatever the daemon does next.   *)
(***************************************************************************)
EXTENDS TransactionProofs

(***************************************************************************)
(* Objects that are told that the daemon has quit                          *)
(***************************************************************************)
(* The reply that brings the tid of t, and the loss of a daemon.           *)
Granted(e, t) == e.kind = "createReply" /\ e.t = t /\ e.arg = "ok"
Lost(e) == e.kind = "owner" /\ OwnerLost(e)

(* Before t has a tid there is nothing to kill.                            *)
NoTidYet(t) ==
  /\ call[t] = "create" => tx[t].obj # "none"
  /\ call[t] = "create" \/ tx[t].obj = "none" => srv[t] = "absent"
  /\ srv[t] = "absent" => ~tx[t].p /\ \A j \in 1..Len(queue) : ~Granted(queue[j], t)

(* A loss that has not been handled, or is being handled, finds either the *)
(* transaction lost with its daemon, or no proxy: the tid of a later       *)
(* daemon is behind it in the queue.                                       *)
LossFirst(t) ==
  /\ t \in quitting /\ tx[t].p => srv[t] = "lost"
  /\ \A i \in 1..Len(queue) : Lost(queue[i]) =>
        \/ srv[t] = "lost"
        \/ ~tx[t].p /\ \A j \in 1..i : ~Granted(queue[j], t)

LossInv == TypeOK /\ \A t \in Own : NoTidYet(t) /\ LossFirst(t)

(* setup(), a connection and the bus keep the object, and only setup()     *)
(* brings a proxy.                                                         *)
LEMMA SetupKeeps ==
  ASSUME NEW s \in Object
  PROVE  /\ setup(s).obj = s.obj
         /\ connectNotify(s).obj = s.obj /\ connectNotify(s).p = s.p
         /\ taken(s).obj = s.obj /\ taken(s).p = s.p
  BY DEF Object, setup, connectNotify, taken

(* A failed call leaves no proxy behind.                                   *)
LEMMA CallFailedKeeps ==
  ASSUME NEW s \in Object, NEW a
  PROVE  ~callFailed(s, a).p /\ callFailed(s, a).obj = s.obj
<1> DEFINE r == errorCode(s, CallError(a))
           q == finished(r, "failed")
<1>1. CallError(a) \in Error /\ "failed" \in Exit
  BY DEF CallError, Error, Exit
<1>2. r \in Object /\ q \in Object
  BY <1>1, ErrorCodeTyped, FinishedTyped
<1>3. ~destroy(q).p /\ destroy(q).obj = s.obj
  BY <1>2 DEF Object, destroy, finished, errorCode
<1> QED  BY <1>3 DEF callFailed

(***************************************************************************)
(* Steps of the client                                                     *)
(***************************************************************************)
(* An object gets a proxy only when the tid at the head of the queue is    *)
(* handled.                                                                *)
LEMMA BecomesLoss ==
  ASSUME LossInv, TypeOK', NEW u \in Txn, NEW s \in Object, NEW evs,
         evs = queue \/ (queue # <<>> /\ evs = Tail(queue)),
         Becomes(u, s, evs), UNCHANGED srv, quitting' \subseteq quitting,
         \A t \in Txn : call'[t] = "create" =>
            call[t] = "create" \/ (t = u /\ tx[t].obj = "none"),
         u \in Own => /\ s.obj # "none"
                      /\ s.p => tx[u].p \/ (Ready /\ Granted(Head(queue), u))
  PROVE  LossInv'
<1>1. tx' = [tx EXCEPT ![u] = s] /\ tx \in [Txn -> Object] /\ queue \in Seq(AnyEvent)
  BY DEF Becomes, LossInv, TypeOK, AnyEvent
<1>2. PICK d \in {0, 1} :
        /\ evs \in Seq(AnyEvent) /\ Len(evs) \in Nat
        /\ \A i \in 1..Len(evs) : i + d \in 1..Len(queue) /\ evs[i] = queue[i + d]
  <2>1. CASE evs = queue
    <3>1. \A i \in 1..Len(evs) : i + 0 \in 1..Len(queue) /\ evs[i] = queue[i + 0]
      BY <1>1, <2>1
    <3> QED  BY <1>1, <2>1, <3>1
  <2>2. CASE queue # <<>> /\ evs = Tail(queue)
    <3>1. /\ evs \in Seq(AnyEvent) /\ Len(evs) \in Nat
          /\ \A i \in 1..Len(evs) : i + 1 \in 1..Len(queue) /\ evs[i] = queue[i + 1]
      BY <1>1, <2>2, HeadAndTail
    <3> QED  BY <3>1
  <2> QED  BY <2>1, <2>2
<1>3. /\ Len(queue') \in Nat
      /\ \A i \in 1..Len(queue') :
           \/ i \in 1..Len(evs) /\ i + d \in 1..Len(queue) /\ queue'[i] = queue[i + d]
           \/ queue'[i] = Event("delete", u)
  <2>1. CASE queue' = evs
    BY <1>2, <2>1
  <2>2. CASE queue' = Append(evs, Event("delete", u))
    BY <1>2, <2>2
  <2> QED  BY <2>1, <2>2 DEF Becomes
<1>4. \A t : ~Granted(Event("delete", u), t) /\ ~Lost(Event("delete", u))
  BY DEF Granted, Lost, Event
<1>5. ASSUME NEW t \in Own
      PROVE  tx'[t].p => tx[t].p \/ (quitting = {} /\ 1 \in 1..Len(queue) /\ Granted(queue[1], t))
  <2>1. CASE t = u
    BY <1>1, <2>1 DEF Ready, Txn
  <2>2. CASE t # u
    BY <1>1, <2>2 DEF Txn
  <2> QED  BY <2>1, <2>2
<1>6. ASSUME NEW t \in Own  PROVE NoTidYet(t)'
  <2>1. t \in Txn /\ NoTidYet(t) /\ (tx'[t].obj = "none" => tx[t].obj = "none")
    BY <1>1 DEF LossInv, Txn
  <2>2. call'[t] = "create" => tx'[t].obj # "none" /\ (call[t] = "create" \/ tx[t].obj = "none")
    BY <1>1, <2>1 DEF NoTidYet
  <2>3. srv[t] = "absent" => ~tx'[t].p
    BY <1>5, <2>1 DEF NoTidYet
  <2>4. srv[t] = "absent" => \A j \in 1..Len(queue') : ~Granted(queue'[j], t)
    BY <1>3, <1>4, <2>1 DEF NoTidYet
  <2> QED  BY <2>1, <2>2, <2>3, <2>4 DEF NoTidYet
<1>7. ASSUME NEW t \in Own  PROVE LossFirst(t)'
  <2>1. LossFirst(t)
    BY DEF LossInv
  <2>2. t \in quitting' /\ tx'[t].p => srv[t] = "lost"
    BY <1>5, <2>1 DEF LossFirst
  <2>3. ASSUME NEW i \in 1..Len(queue'), Lost(queue'[i]), srv[t] # "lost"
        PROVE  ~tx'[t].p /\ \A j \in 1..i : ~Granted(queue'[j], t)
    <3>1. i \in 1..Len(evs) /\ i + d \in 1..Len(queue) /\ queue'[i] = queue[i + d]
      BY <1>3, <1>4, <2>3
    <3>2. ~tx[t].p /\ \A j \in 1..(i + d) : ~Granted(queue[j], t)
      BY <2>1, <2>3, <3>1 DEF LossFirst
    <3>3. 1 \in 1..(i + d)
      BY <3>1
    <3>4. ~tx'[t].p
      BY <1>5, <3>2, <3>3
    <3>5. ASSUME NEW j \in 1..i  PROVE ~Granted(queue'[j], t)
      <4>1. j \in 1..Len(queue') /\ j + d \in 1..(i + d)
        BY <1>3
      <4> QED  BY <1>3, <1>4, <3>2, <4>1
    <3> QED  BY <3>4, <3>5
  <2> QED  BY <2>2, <2>3 DEF LossFirst
<1> QED  BY <1>6, <1>7 DEF LossInv

(* A step of the event loop that only takes the first event.               *)
LEMMA HeadTakenLoss ==
  ASSUME LossInv, TypeOK', queue # <<>>, queue' = Tail(queue),
         UNCHANGED <<tx, srv, call>>, \A t \in Own : t \in quitting' /\ tx[t].p => srv[t] = "lost"
  PROVE  LossInv'
<1>1. \A i \in 1..Len(queue') : i + 1 \in 1..Len(queue) /\ queue'[i] = queue[i + 1]
  BY HeadAndTail DEF LossInv, TypeOK
<1>2. ASSUME NEW t \in Own  PROVE NoTidYet(t)'
  BY <1>1 DEF LossInv, NoTidYet
<1>3. ASSUME NEW t \in Own  PROVE LossFirst(t)'
  <2>1. ASSUME NEW i \in 1..Len(queue'), Lost(queue'[i]), srv[t] # "lost"
        PROVE  ~tx[t].p /\ \A j \in 1..i : ~Granted(queue'[j], t)
    <3>1. i + 1 \in 1..Len(queue) /\ Lost(queue[i + 1])
      BY <1>1, <2>1
    <3>2. ~tx[t].p /\ \A j \in 1..(i + 1) : ~Granted(queue[j], t)
      BY <2>1, <3>1 DEF LossInv, LossFirst
    <3>3. ASSUME NEW j \in 1..i  PROVE ~Granted(queue'[j], t)
      <4>1. j \in 1..Len(queue') /\ j + 1 \in 1..(i + 1)
        BY HeadAndTail DEF LossInv, TypeOK
      <4> QED  BY <1>1, <3>2, <4>1
    <3> QED  BY <3>2, <3>3
  <2> QED  BY <2>1 DEF LossFirst
<1> QED  BY <1>2, <1>3 DEF LossInv

(* The bus changes nothing of this.                                        *)
LEMMA BusLoss ==
  ASSUME LossInv, TypeOK', NEW u \in Txn, TakeRules(u)
  PROVE  LossInv'
<1>1. tx[u] \in Object /\ tx \in [Txn -> Object] /\ \A t \in Own : t \in Txn
  BY DEF LossInv, TypeOK, Txn
<1>2. taken(tx[u]).obj = tx[u].obj /\ taken(tx[u]).p = tx[u].p /\ taken(tx[u]).dying = tx[u].dying
  BY <1>1 DEF taken, Object
<1>3. /\ UNCHANGED <<queue, quitting, call, srv>>
      /\ \A t \in Own : tx'[t].obj = tx[t].obj /\ tx'[t].p = tx[t].p
  BY <1>1, <1>2 DEF TakeRules, Becomes, External
<1>4. ASSUME NEW t \in Own  PROVE NoTidYet(t)' /\ LossFirst(t)'
  BY <1>3 DEF LossInv, NoTidYet, LossFirst
<1> QED  BY <1>4 DEF LossInv

(* Calls of the application bring no proxy to an own object.               *)
LEMMA ApplicationLoss ==
  ASSUME LossInv, TypeOK', NEW t \in Txn, Create(t) \/ Attach(t) \/ Connect(t) \/ Cancel(t)
  PROVE  LossInv'
<1>1. tx[t] \in Object /\ call \in [Txn -> {"none", "create", "run", "late"}]
  BY DEF LossInv, TypeOK
<1> DEFINE born == [tx[t] EXCEPT !.obj = "live"]
<1>2. born \in Object /\ born.obj = "live" /\ born.p = tx[t].p
  BY <1>1 DEF Object
<1>3. CASE Create(t)
  <2>1. /\ Becomes(t, born, queue) /\ UNCHANGED <<srv, quitting>>
        /\ \A u \in Txn : call'[u] = "create" => call[u] = "create" \/ (u = t /\ tx[u].obj = "none")
    BY <1>1, <1>3 DEF Create, External
  <2> QED  BY <1>2, <2>1, BecomesLoss
<1>4. CASE Attach(t)
  <2>1. Becomes(t, setup(born), queue) /\ UNCHANGED <<srv, quitting, call>> /\ t \notin Own
    BY <1>4, OwnershipAssumption DEF Attach, External
  <2>2. setup(born) \in Object /\ setup(born).obj # "none"
    BY <1>2, SetupTyped, SetupKeeps
  <2> QED  BY <2>1, <2>2, BecomesLoss
<1>5. CASE Connect(t)
  <2> DEFINE s == connectNotify(tx[t])
  <2>1. Becomes(t, s, queue) /\ UNCHANGED <<srv, quitting, call>> /\ tx[t].obj = "live"
    BY <1>5 DEF Connect, External
  <2>2. s \in Object /\ s.obj # "none" /\ s.p = tx[t].p
    BY <1>1, <2>1, SetupTyped, SetupKeeps
  <2> QED  BY <2>1, <2>2, BecomesLoss
<1>6. CASE Cancel(t)
  <2> DEFINE s == [tx[t] EXCEPT !.cancel = IF tx[t].p THEN "sent" ELSE "lost"]
  <2>1. Becomes(t, s, queue) /\ UNCHANGED <<srv, quitting, call>> /\ tx[t].obj = "live"
    BY <1>6 DEF Cancel, External
  <2>2. s \in Object /\ s.obj # "none" /\ s.p = tx[t].p
    BY <1>1, <2>1 DEF Object
  <2> QED  BY <2>1, <2>2, BecomesLoss
<1> QED  BY <1>3, <1>4, <1>5, <1>6

(* Every handler of the event loop keeps the invariant.                    *)
LEMMA HandlerLoss ==
  ASSUME LossInv, TypeOK', EventLoop
  PROVE  LossInv'
<1>1. tx \in [Txn -> Object] /\ \A t \in Own : tx[t].p => tx[t].obj # "none"
  BY DEF LossInv, NoTidYet, TypeOK
<1>2. ASSUME NEW t \in Txn, NEW s \in Object, NEW k, Handling(k, t), Becomes(t, s, Tail(queue)),
             UNCHANGED <<srv, quitting>>,
             \A u \in Txn : call'[u] = "create" => call[u] = "create",
             tx[t].obj # "none" => s.obj # "none",
             s.p => tx[t].p \/ Granted(Head(queue), t), k # "owner"
      PROVE  LossInv'
  <2>1. Ready /\ queue # <<>> /\ quitting' \subseteq quitting
    BY <1>2 DEF Handling, Ready
  <2>2. t \in Own => tx[t].obj # "none"
    <3>1. tx[t].p \/ tx[t].obj = "live"
      BY <1>2 DEF Handling, Deliverable
    <3> QED  BY <1>1, <3>1
  <2> QED  BY <1>2, <2>1, <2>2, BecomesLoss
<1>3. ASSUME NEW t \in Txn, CreateSucceeded(t) \/ DispatchFailed(t)
      PROVE  LossInv'
  <2> DEFINE r == setup(tx[t])
             q == errorCode(r, "InternalError")
             s == finished(q, "failed")
  <2>1. Handling("createReply", t) /\ Granted(Head(queue), t)
    BY <1>3 DEF CreateSucceeded, DispatchFailed, Handling, Granted
  <2>2. r \in Object /\ r.obj = tx[t].obj
    BY <1>1, SetupTyped, SetupKeeps
  <2>3. CASE CreateSucceeded(t)
    <3>1. \A u \in Txn : call'[u] = "create" => call[u] = "create"
      BY <2>3 DEF CreateSucceeded, LossInv, TypeOK
    <3>2. Becomes(t, r, Tail(queue)) /\ UNCHANGED <<srv, quitting>>
      BY <2>3 DEF CreateSucceeded, External
    <3> QED  BY <1>2, <2>1, <2>2, <3>1, <3>2
  <2>4. CASE DispatchFailed(t)
    <3>1. "InternalError" \in Error /\ "failed" \in Exit
      BY DEF Error, Exit
    <3>2. q \in Object /\ s \in Object
      BY <2>2, <3>1, ErrorCodeTyped, FinishedTyped
    <3>3. s.obj = tx[t].obj
      BY <2>2, <3>2 DEF Object, finished, errorCode
    <3>4. Becomes(t, s, Tail(queue)) /\ UNCHANGED <<srv, quitting, call>>
      BY <2>4 DEF DispatchFailed, External
    <3> QED  BY <1>2, <2>1, <3>2, <3>3, <3>4
  <2> QED  BY <1>3, <2>3, <2>4
<1>4. ASSUME NEW t \in Txn, CreateFailed(t) \/ RunFailed(t)
      PROVE  LossInv'
  <2> DEFINE s == callFailed(tx[t], Head(queue).arg)
  <2>1. PICK k \in {"createReply", "runReply"} : Handling(k, t)
    BY <1>4 DEF CreateFailed, RunFailed
  <2>2. Becomes(t, s, Tail(queue)) /\ UNCHANGED <<srv, quitting, call>>
    BY <1>4 DEF CreateFailed, RunFailed, External
  <2>3. s \in Object /\ s.obj = tx[t].obj /\ ~s.p
    BY <1>1, CallFailedTyped, CallFailedKeeps
  <2> QED  BY <1>2, <2>1, <2>2, <2>3
<1>5. ASSUME NEW t \in Txn, RunSucceeded(t)
      PROVE  LossInv'
  BY <1>1, <1>2, <1>5 DEF RunSucceeded, External
<1>6. ASSUME NEW t \in Txn, HandleFinished(t)
      PROVE  LossInv'
  <2> DEFINE s == finished(tx[t], Head(queue).arg)
  <2>1. Head(queue).arg \in Exit
    BY <1>6, VerdictTyped DEF HandleFinished, LossInv
  <2>2. s \in Object /\ s.obj = tx[t].obj /\ s.p = tx[t].p
    BY <1>1, <2>1, FinishedTyped DEF Object, finished
  <2> QED  BY <1>2, <1>6, <2>2 DEF HandleFinished, External
<1>7. ASSUME NEW t \in Txn, HandleDestroy(t)
      PROVE  LossInv'
  <2> DEFINE s == destroy(tx[t])
  <2>1. s \in Object /\ s.obj = tx[t].obj /\ ~s.p
    <3>1. s \in Object
      BY <1>1, DestroyTyped
    <3>2. s.obj = tx[t].obj /\ ~s.p
      BY <1>1 DEF Object, destroy, finished
    <3> QED  BY <3>1, <3>2
  <2> QED  BY <1>2, <1>7, <2>1 DEF HandleDestroy, External
<1>8. ASSUME NEW t \in Txn, HandleDelete(t)
      PROVE  LossInv'
  <2> DEFINE s == [tx[t] EXCEPT !.obj = "deleted", !.p = FALSE]
  <2>1. s \in Object /\ s.obj = "deleted" /\ ~s.p
    BY <1>1 DEF Object
  <2> QED  BY <1>2, <1>8, <2>1 DEF HandleDelete, External
<1>9. ASSUME NEW t \in Txn, DaemonQuit(t)
      PROVE  LossInv'
  <2> DEFINE s == daemonQuit(tx[t])
  <2>1. t \in quitting /\ Becomes(t, s, queue) /\ quitting' \subseteq quitting /\ UNCHANGED <<srv, call>>
    BY <1>9 DEF DaemonQuit, External
  <2>2. s \in Object
    BY <1>1, DaemonQuitTyped
  <2>3. CASE ~tx[t].p
    <3>1. s = tx[t]
      BY <2>3 DEF daemonQuit
    <3>2. Becomes(t, tx[t], queue) /\ tx[t] \in Object
      BY <1>1, <2>1, <3>1
    <3>3. CASE t \in Own /\ tx[t].obj = "none"
      <4>1. tx' = tx /\ queue' = queue
        BY <1>1, <3>2 DEF Becomes
      <4> QED  BY <2>1, <4>1 DEF LossInv, NoTidYet, LossFirst
    <3>4. CASE ~(t \in Own /\ tx[t].obj = "none")
      BY <2>1, <3>2, <3>4, BecomesLoss
    <3> QED  BY <3>3, <3>4
  <2>4. CASE tx[t].p
    <3>1. ~s.p /\ s.obj = tx[t].obj
      <4>1. errorCode(tx[t], "ProcessKill") \in Object
        BY <1>1, ErrorCodeTyped DEF Error
      <4>2. finished(errorCode(tx[t], "ProcessKill"), "killed") \in Object
        BY <4>1, FinishedTyped DEF Exit
      <4> QED  BY <1>1, <2>4, <4>1, <4>2 DEF Object, daemonQuit, destroy, finished, errorCode
    <3>2. t \in Own => tx[t].obj # "none"
      BY <1>1, <2>4
    <3> QED  BY <2>1, <2>2, <3>1, <3>2, BecomesLoss
  <2> QED  BY <2>3, <2>4
<1>10. CASE OwnerChanged
  <2>1. queue # <<>> /\ queue' = Tail(queue) /\ UNCHANGED <<tx, srv, call>> /\ Head(queue).kind = "owner"
    BY <1>10 DEF OwnerChanged, Ready, External
  <2>2. ASSUME NEW t \in Own, t \in quitting', tx[t].p
        PROVE  srv[t] = "lost"
    <3>1. Lost(Head(queue))
      BY <1>10, <2>2 DEF OwnerChanged, Lost
    <3>2. Head(queue) = queue[1] /\ 1 \in 1..Len(queue)
      BY <2>1, HeadAndTail DEF LossInv, TypeOK
    <3> QED  BY <2>2, <3>1, <3>2 DEF LossInv, LossFirst
  <2> QED  BY <2>1, <2>2, HeadTakenLoss
<1>11. CASE Discard
  <2>1. queue # <<>> /\ queue' = Tail(queue) /\ UNCHANGED <<tx, srv, call, quitting>>
    BY <1>11 DEF Discard, Ready, External
  <2>2. \A t \in Own : t \in quitting' /\ tx[t].p => srv[t] = "lost"
    BY <2>1 DEF LossInv, LossFirst
  <2> QED  BY <2>1, <2>2, HeadTakenLoss
<1> QED
  BY <1>3, <1>4, <1>5, <1>6, <1>7, <1>8, <1>9, <1>10, <1>11 DEF EventLoop

(***************************************************************************)
(* Steps of the daemon and the bus                                         *)
(***************************************************************************)
(* The daemon's side of t goes on: a transaction is made for a pending     *)
(* call only, and one that is gone stays so.                               *)
Onward(t) ==
  /\ call'[t] = "create" => call[t] = "create" /\ srv'[t] = srv[t]
  /\ srv[t] = "lost" => srv'[t] = "lost"
  /\ srv'[t] = "absent" => srv[t] = "absent"
  /\ tx[t].obj = "none" => srv'[t] = srv[t]

(* An event is posted: only a reply for a transaction the daemon has just  *)
(* made may bring a tid, and a loss leaves no own transaction behind.      *)
Posted(e) ==
  /\ e \in AnyEvent
  /\ queue' = Append(queue, e)
  /\ \A t \in Own : /\ Granted(e, t) => srv'[t] # "absent"
                    /\ Lost(e) => ~Granted(e, t) /\ srv'[t] \in {"absent", "lost"}

(* A posted event keeps the order of losses and tids.                      *)
LEMMA PostedLoss ==
  ASSUME LossInv, TypeOK', UNCHANGED <<tx, quitting>>, \A t \in Own : Onward(t),
         UNCHANGED queue \/ \E e : Posted(e)
  PROVE  LossInv'
<1>1. queue \in Seq(AnyEvent) /\ Len(queue) \in Nat
  BY DEF LossInv, TypeOK, AnyEvent
<1>2. CASE UNCHANGED queue
  <2>1. ASSUME NEW t \in Own  PROVE NoTidYet(t)' /\ LossFirst(t)'
    BY <1>2 DEF Onward, LossInv, NoTidYet, LossFirst
  <2> QED  BY <2>1 DEF LossInv
<1>3. ASSUME NEW e, Posted(e)
      PROVE  LossInv'
  <2>1. /\ Len(queue') = Len(queue) + 1
        /\ \A i \in 1..Len(queue') : \/ i \in 1..Len(queue) /\ queue'[i] = queue[i]
                                     \/ i = Len(queue) + 1 /\ queue'[i] = e
    BY <1>1, <1>3 DEF Posted
  <2>2. ASSUME NEW t \in Own  PROVE NoTidYet(t)'
    <3>1. srv'[t] = "absent" => \A j \in 1..Len(queue') : ~Granted(queue'[j], t)
      BY <1>3, <2>1 DEF LossInv, NoTidYet, Onward, Posted
    <3> QED  BY <3>1 DEF LossInv, NoTidYet, Onward
  <2>3. ASSUME NEW t \in Own  PROVE LossFirst(t)'
    <3>1. NoTidYet(t) /\ LossFirst(t) /\ NoTidYet(t)'
      BY <2>2 DEF LossInv
    <3>2. ASSUME NEW i \in 1..Len(queue'), Lost(queue'[i]), srv'[t] # "lost"
          PROVE  ~tx[t].p /\ \A j \in 1..i : ~Granted(queue'[j], t)
      <4>1. CASE i \in 1..Len(queue) /\ queue'[i] = queue[i]
        <5>1. ~tx[t].p /\ \A j \in 1..i : ~Granted(queue[j], t)
          BY <3>1, <3>2, <4>1 DEF LossFirst, Onward
        <5>2. \A j \in 1..i : queue'[j] = queue[j]
          BY <1>1, <2>1, <4>1
        <5> QED  BY <5>1, <5>2
      <4>2. CASE i = Len(queue) + 1 /\ queue'[i] = e
        <5>1. srv'[t] = "absent"
          BY <1>3, <3>2, <4>2 DEF Posted
        <5>2. \A j \in 1..i : j \in 1..Len(queue')
          BY <1>1, <2>1, <4>2
        <5> QED  BY <3>1, <5>1, <5>2 DEF NoTidYet
      <4> QED  BY <2>1, <4>1, <4>2
    <3> QED  BY <3>1, <3>2 DEF LossFirst, Onward
  <2> QED  BY <2>2, <2>3 DEF LossInv
<1> QED  BY <1>2, <1>3

(* Every step of the daemon and the bus posts such an event or none.       *)
LEMMA DaemonLoss ==
  ASSUME LossInv, TypeOK', Daemon
  PROVE  LossInv'
<1>1. /\ call \in [Txn -> {"none", "create", "run", "late"}]
      /\ srv \in [Txn -> {"absent", "idle", "running", "done", "gone", "lost"}]
      /\ \A t \in Own : t \in Txn /\ t \notin Foreign
  BY OwnershipAssumption DEF LossInv, TypeOK, Txn
<1>2. ASSUME NEW t \in Own
      PROVE  /\ call[t] = "create" => tx[t].obj # "none" /\ srv[t] = "absent"
             /\ tx[t].obj = "none" => srv[t] = "absent" /\ call[t] # "create"
  BY DEF LossInv, NoTidYet
<1>3. ASSUME NEW u \in Txn, NEW a \in {"ok", "denied", "error"}, NEW k \in {"createReply", "runReply"},
             queue' = Append(queue, EventWith(k, u, a)),
             k = "createReply" /\ a = "ok" /\ u \in Own => srv'[u] # "absent"
      PROVE  Posted(EventWith(k, u, a))
  BY <1>3 DEF EventWith, AnyEvent, ObjectEvent, Lost, Granted, Posted
<1>4. ASSUME NEW e \in AnyEvent, e.kind \in {"Finished", "Destroy"}, queue' = Append(queue, e)
      PROVE  Posted(e)
  BY <1>4 DEF Lost, Granted, Posted
<1>5. ASSUME NEW u \in Txn, NEW x \in {"idle", "running", "done", "gone"},
             srv' = [srv EXCEPT ![u] = x], \A t \in Txn : call'[t] = "create" => call[t] = "create",
             u \in Own => tx[u].obj # "none" /\ call'[u] # "create" /\ srv[u] # "lost"
      PROVE  \A t \in Own : Onward(t)
  <2> SUFFICES ASSUME NEW t \in Own  PROVE Onward(t)
    OBVIOUS
  <2>1. CASE t = u
    <3>1. srv'[t] = x /\ tx[t].obj # "none" /\ call'[t] # "create" /\ srv[t] # "lost"
      BY <1>5, <1>1, <2>1
    <3> QED  BY <1>5, <3>1 DEF Onward
  <2>2. CASE t # u
    <3>1. srv'[t] = srv[t] /\ (call'[t] = "create" => call[t] = "create")
      BY <1>5, <1>1, <2>2
    <3> QED  BY <3>1 DEF Onward
  <2> QED  BY <2>1, <2>2
<1>6. ASSUME NEW u \in Txn, AnswerCreate(u)
      PROVE  LossInv'
  <2>1. /\ UNCHANGED <<tx, quitting>>
        /\ queue' = Append(queue, EventWith("createReply", u, "ok"))
        /\ call[u] = "create" /\ call' = [call EXCEPT ![u] = "none"]
        /\ srv' = [srv EXCEPT ![u] = "idle"]
    BY <1>6 DEF AnswerCreate, Reply
  <2>2. Posted(EventWith("createReply", u, "ok"))
    BY <1>1, <1>3, <2>1
  <2>3. \A t \in Own : Onward(t)
    <3>1. \A t \in Txn : call'[t] = "create" => call[t] = "create" /\ t # u
      BY <1>1, <2>1
    <3>2. u \in Own => tx[u].obj # "none" /\ srv[u] # "lost"
      BY <1>2, <2>1
    <3> QED  BY <1>5, <2>1, <3>1, <3>2
  <2> QED  BY <2>1, <2>2, <2>3, PostedLoss
<1>7. ASSUME NEW u \in Txn, FailCreate(u)
      PROVE  LossInv'
  <2>1. PICK a \in {"denied", "error"} : Reply(u, "createReply", a, "none")
    BY <1>7 DEF FailCreate
  <2>2. /\ UNCHANGED <<tx, quitting, srv>> /\ queue' = Append(queue, EventWith("createReply", u, a))
        /\ call' = [call EXCEPT ![u] = "none"]
    BY <1>7, <2>1 DEF FailCreate, Reply, External
  <2>3. Posted(EventWith("createReply", u, a))
    BY <1>3, <2>2
  <2>4. \A t \in Own : Onward(t)
    <3>1. \A t \in Txn : call'[t] = "create" => call[t] = "create"
      BY <1>1, <2>2
    <3> QED  BY <1>1, <2>2, <3>1 DEF Onward
  <2> QED  BY <2>2, <2>3, <2>4, PostedLoss
<1>8. ASSUME NEW u \in Txn, AcceptRun(u) \/ RejectRun(u) \/ FailRun(u)
      PROVE  LossInv'
  <2>1. /\ UNCHANGED <<tx, quitting>>
        /\ \A t \in Txn : call'[t] = "create" => call[t] = "create"
        /\ \/ UNCHANGED srv
           \/ srv[u] = "idle" /\ \E x \in {"running", "done"} : srv' = [srv EXCEPT ![u] = x]
        /\ \/ UNCHANGED queue
           \/ \E a \in {"ok", "denied", "error"} : queue' = Append(queue, EventWith("runReply", u, a))
    BY <1>1, <1>8 DEF AcceptRun, RejectRun, FailRun, Reply, External
  <2>2. UNCHANGED queue \/ \E e : Posted(e)
    <3>1. ASSUME NEW a \in {"ok", "denied", "error"}, queue' = Append(queue, EventWith("runReply", u, a))
          PROVE  Posted(EventWith("runReply", u, a))
      BY <1>3, <3>1
    <3> QED  BY <2>1, <3>1
  <2>3. \A t \in Own : Onward(t)
    <3>1. CASE UNCHANGED srv
      BY <1>1, <2>1, <3>1 DEF Onward
    <3>2. ASSUME NEW x \in {"running", "done"}, srv[u] = "idle", srv' = [srv EXCEPT ![u] = x]
          PROVE  \A t \in Own : Onward(t)
      <4>1. u \in Own => tx[u].obj # "none" /\ call'[u] # "create"
        BY <1>2, <2>1, <3>2
      <4> QED  BY <1>5, <2>1, <3>2, <4>1
    <3> QED  BY <2>1, <3>1, <3>2
  <2> QED  BY <2>1, <2>2, <2>3, PostedLoss
<1>9. ASSUME NEW u \in Txn, NEW x \in Verdict, FinishRun(u, x)
      PROVE  LossInv'
  <2> DEFINE e == EventWith("Finished", u, x)
  <2>1. e \in AnyEvent /\ e.kind = "Finished"
    BY DEF EventWith, AnyEvent, ObjectEvent
  <2>2. /\ UNCHANGED <<tx, quitting, call>>
        /\ queue' = queue \/ queue' = Append(queue, e)
        /\ srv[u] = "running" /\ srv' = [srv EXCEPT ![u] = "done"]
    BY <1>9 DEF FinishRun
  <2>3. \A t \in Own : Onward(t)
    <3>1. u \in Own => tx[u].obj # "none" /\ call'[u] # "create" /\ srv[u] # "lost"
      BY <1>2, <2>2
    <3> QED  BY <1>5, <2>2, <3>1
  <2>4. UNCHANGED queue \/ Posted(e)
    BY <1>4, <2>1, <2>2
  <2> QED  BY <2>2, <2>3, <2>4, PostedLoss
<1>10. ASSUME NEW u \in Txn, DestroyTid(u)
      PROVE  LossInv'
  <2> DEFINE e == Event("Destroy", u)
  <2>1. e \in AnyEvent /\ e.kind = "Destroy"
    BY DEF Event, AnyEvent, ObjectEvent
  <2>2. /\ UNCHANGED <<tx, quitting, call>>
        /\ queue' = queue \/ queue' = Append(queue, e)
        /\ srv[u] \in {"idle", "done"} /\ srv' = [srv EXCEPT ![u] = "gone"]
    BY <1>10 DEF DestroyTid
  <2>3. \A t \in Own : Onward(t)
    <3>1. u \in Own => tx[u].obj # "none" /\ call'[u] # "create" /\ srv[u] # "lost"
      BY <1>2, <2>2
    <3> QED  BY <1>5, <2>2, <3>1
  <2>4. UNCHANGED queue \/ Posted(e)
    BY <1>4, <2>1, <2>2
  <2> QED  BY <2>2, <2>3, <2>4, PostedLoss
<1>11. ASSUME NEW u \in Txn, ForeignBegin(u)
      PROVE  LossInv'
  <2>1. /\ UNCHANGED <<tx, quitting, call, queue>> /\ u \in Foreign
        /\ srv' = [srv EXCEPT ![u] = "running"]
    BY <1>11 DEF ForeignBegin
  <2>2. \A t \in Own : Onward(t)
    BY <1>5, <1>1, <2>1
  <2> QED  BY <2>1, <2>2, PostedLoss
<1>12. ASSUME NEW old \in BOOLEAN, NEW new \in BOOLEAN, OwnerChange(old, new),
              old => \A t \in Own : srv'[t] \in {"absent", "lost"}, old \/ new
       PROVE  Posted([kind |-> "owner", old |-> old, new |-> new])
  BY <1>12 DEF OwnerChange, OwnerEvent, AnyEvent, Lost, OwnerLost, Granted, Posted
<1>13. CASE LoseOwner
  <2>1. PICK new \in BOOLEAN : OwnerChange(TRUE, new)
    BY <1>13 DEF LoseOwner
  <2>2. /\ UNCHANGED <<tx, quitting, call>>
        /\ srv' = [t \in Txn |-> IF srv[t] = "absent" THEN "absent" ELSE "lost"]
    BY <1>13, <2>1 DEF LoseOwner, OwnerChange
  <2>3. Posted([kind |-> "owner", old |-> TRUE, new |-> new])
    BY <1>1, <1>12, <2>1, <2>2
  <2>4. ASSUME NEW t \in Own  PROVE Onward(t)
    <3>1. srv'[t] = IF srv[t] = "absent" THEN "absent" ELSE "lost"
      BY <1>1, <2>2
    <3> QED  BY <1>2, <2>2, <3>1 DEF Onward
  <2> QED  BY <2>2, <2>3, <2>4, PostedLoss
<1>14. CASE StartOwner
  <2>1. UNCHANGED <<tx, quitting, call, srv>> /\ OwnerChange(FALSE, TRUE)
    BY <1>14 DEF StartOwner, OwnerChange
  <2>2. Posted([kind |-> "owner", old |-> FALSE, new |-> TRUE])
    BY <1>12, <2>1
  <2>3. \A t \in Own : Onward(t)
    BY <1>1, <2>1 DEF Onward
  <2> QED  BY <2>1, <2>2, <2>3, PostedLoss
<1> QED
  BY <1>6, <1>7, <1>8, <1>9, <1>10, <1>11, <1>13, <1>14 DEF Daemon, DaemonOf

(* The invariant holds: the tid of a transaction that lives is behind      *)
(* every loss that has not been handled.                                   *)
LEMMA LossInvariant == Spec => []LossInv
<1>1. Init => LossInv
  <2> SUFFICES ASSUME Init  PROVE LossInv
    OBVIOUS
  <2>1. TypeOK
    <3>1. NoObject \in Object
      BY DEF NoObject, Object
    <3> QED  BY <3>1, OwnerChangesAssumption DEF Init, TypeOK, NoExit
  <2>2. Len(queue) = 0
    BY DEF Init
  <2>3. ASSUME NEW t \in Own  PROVE NoTidYet(t) /\ LossFirst(t)
    <3>1. tx[t] = NoObject /\ call[t] = "none" /\ srv[t] = "absent" /\ quitting = {}
      BY DEF Init, Txn
    <3>2. ~tx[t].p /\ tx[t].exits = <<>>
      BY <3>1 DEF NoObject
    <3> QED  BY <2>2, <3>1, <3>2 DEF NoTidYet, LossFirst
  <2> QED  BY <2>1, <2>3 DEF LossInv
<1>2. LossInv /\ TypeOK' /\ [Next]_vars => LossInv'
  <2> SUFFICES ASSUME LossInv, TypeOK', [Next]_vars  PROVE LossInv'
    OBVIOUS
  <2>1. CASE Application
    BY <2>1, ApplicationLoss DEF Application
  <2>2. CASE EventLoop
    BY <2>2, HandlerLoss
  <2>3. CASE Bus
    BY <2>3, BusLoss DEF Bus
  <2>4. CASE Daemon
    BY <2>4, DaemonLoss
  <2>5. CASE UNCHANGED vars
    BY <2>5 DEF vars, LossInv, NoTidYet, LossFirst
  <2> QED  BY <2>1, <2>2, <2>3, <2>4, <2>5 DEF Next
<1>3. Spec => []TypeOK
  BY TypeCorrect
<1> QED  BY <1>1, <1>2, <1>3, PTL DEF Spec

(* daemonQuit() reports an own transaction only if the daemon instance     *)
(* that created it has left the bus, also when the client learns of the    *)
(* loss of an earlier instance late.                                       *)
THEOREM OnlyOrphansKilled == Spec => KilledWithItsDaemon
<1>1. ASSUME LossInv, NEW t \in Own, DaemonQuit(t), tx'[t].exits # tx[t].exits
      PROVE  srv[t] = "lost"
  <2>1. t \in quitting /\ tx'[t] = daemonQuit(tx[t])
    BY <1>1 DEF DaemonQuit, Becomes, LossInv, TypeOK
  <2>2. tx[t].p
    BY <1>1, <2>1 DEF daemonQuit
  <2> QED  BY <1>1, <2>1, <2>2 DEF LossInv, LossFirst
<1>2. LossInv => \A t \in Own : DaemonQuit(t) /\ tx'[t].exits # tx[t].exits => srv[t] = "lost"
  BY <1>1
<1> QED  BY <1>2, LossInvariant, PTL DEF KilledWithItsDaemon

(***************************************************************************)
(* Verdicts: the stages of an own transaction                              *)
(***************************************************************************)
About(e, t) == e.kind # "owner" /\ e.t = t
NoneAbout(t) == \A i \in 1..Len(queue) : ~About(queue[i], t)

(* The only event of a running transaction the client may not have seen is *)
(* that its method call has succeeded.                                     *)
Harmless(e, t) == About(e, t) => e.kind = "runReply" /\ e.arg = "ok"

Untouched(s) == s.obj = "live" /\ s.exits = <<>>

(* The stages in the life of an own transaction, up to its verdict: the    *)
(* object is not there yet, ...                                            *)
Unborn(t) ==
  tx[t].obj = "none" =>
    call[t] = "none" /\ srv[t] = "absent" /\ told[t] = NoExit /\ NoneAbout(t)

(* ... asks for a tid, ...                                                 *)
Asking(t) ==
  call[t] = "create" =>
    Untouched(tx[t]) /\ ~tx[t].p /\ srv[t] = "absent" /\ told[t] = NoExit /\ NoneAbout(t)

(* ... has the answer on its way, ...                                      *)
Answered(t) ==
  \A i \in 1..Len(queue) : About(queue[i], t) /\ queue[i].kind = "createReply" =>
    /\ Untouched(tx[t]) /\ ~tx[t].p /\ told[t] = NoExit
    /\ call[t] = "none" /\ srv[t] \in {"absent", "idle", "gone", "lost"}
    /\ \A j \in 1..Len(queue) : About(queue[j], t) => j = i

(* ... waits for the daemon to run it or to finish, unless the client has  *)
(* given up on the call, ...                                               *)
Working(t) == \/ srv[t] = "idle" /\ call[t] = "run"
              \/ srv[t] = "running" /\ call[t] # "late"

Wired(s) == Listening(s) => "Finished" \in s.wired

Undisturbed(t) ==
  /\ srv[t] = "running" => call[t] \in {"none", "late"}
  /\ Working(t) => /\ Untouched(tx[t]) /\ tx[t].p
                   /\ Wired(tx[t])
                   /\ \A i \in 1..Len(queue) : Harmless(queue[i], t)

(* ... and has its verdict in the queue, behind nothing that could report  *)
(* something else, or has reported it.                                     *)
VerdictNext(t) ==
  /\ tx[t].p /\ t \notin quitting
  /\ \E i \in 1..Len(queue) :
       /\ queue[i] = EventWith("Finished", t, told[t])
       /\ \A j \in 1..(i - 1) : Harmless(queue[j], t) /\ ~Lost(queue[j])

Announced(t) ==
  told[t] # NoExit =>
    /\ srv[t] \in {"done", "gone", "lost"} /\ call[t] \in {"none", "late"}
    /\ call[t] # "late" => IF tx[t].exits = <<>> THEN VerdictNext(t)
                                                 ELSE tx[t].exits[1] = told[t]

Lane(t) == Unborn(t) /\ Asking(t) /\ Answered(t) /\ Undisturbed(t) /\ Announced(t)

Lanes == \A t \in Own : Lane(t)

(* Lanes alone is not inductive: deletions, losses and types are in the    *)
(* invariants of the other proofs.                                         *)
VerdictInv == LossInv /\ ContractInv /\ Lanes

(***************************************************************************)
(* The queue                                                               *)
(***************************************************************************)
(* The first d events have been taken and e may have been posted.          *)
Follows(d, e) ==
  /\ d \in {0, 1} /\ d <= Len(queue)
  /\ Len(queue') \in {Len(queue) - d, Len(queue) - d + 1}
  /\ \A i \in 1..(Len(queue) - d) : queue'[i] = queue[i + d]
  /\ \A i \in 1..Len(queue') : i > Len(queue) - d => queue'[i] = e

(* Posting an event, taking one, and both.                                 *)
LEMMA QueueFollows ==
  ASSUME TypeOK, NEW e \in AnyEvent
  PROVE  /\ queue' \in {queue, Append(queue, e)} => Follows(0, e)
         /\ queue # <<>> => queue[1] = Head(queue) /\ Len(queue) >= 1
         /\ queue # <<>> /\ queue' \in {Tail(queue), Append(Tail(queue), e)} => Follows(1, e)
<1>1. queue \in Seq(AnyEvent) /\ Len(queue) \in Nat
  BY DEF TypeOK, AnyEvent
<1>2. queue' \in {queue, Append(queue, e)} => Follows(0, e)
  BY <1>1 DEF Follows
<1>3. ASSUME queue # <<>>
      PROVE  queue[1] = Head(queue) /\ Len(queue) >= 1 /\ Tail(queue) \in Seq(AnyEvent)
             /\ Len(Tail(queue)) = Len(queue) - 1
             /\ \A i \in 1..(Len(queue) - 1) : Tail(queue)[i] = queue[i + 1]
  BY <1>1, <1>3
<1>4. ASSUME queue # <<>>, queue' = Tail(queue)  PROVE Follows(1, e)
  BY <1>1, <1>3, <1>4 DEF Follows
<1>5. ASSUME queue # <<>>, queue' = Append(Tail(queue), e)  PROVE Follows(1, e)
  <2>1. Len(queue') = Len(queue) /\ queue'[Len(queue)] = e
        /\ \A i \in 1..(Len(queue) - 1) : queue'[i] = Tail(queue)[i]
    BY <1>1, <1>3, <1>5
  <2>2. \A i \in 1..(Len(queue) - 1) : queue'[i] = queue[i + 1]
    BY <1>3, <1>5, <2>1
  <2>3. \A i \in 1..Len(queue') : i > Len(queue) - 1 => queue'[i] = e
    BY <1>1, <2>1
  <2>4. 1 \in {0, 1} /\ 1 <= Len(queue) /\ Len(queue') \in {Len(queue) - 1, Len(queue) - 1 + 1}
    BY <1>1, <1>3, <1>5, <2>1
  <2> QED  BY <2>2, <2>3, <2>4 DEF Follows
<1> QED  BY <1>2, <1>3, <1>4, <1>5

(* Where the events of the new queue come from.                            *)
LEMMA FollowsFrom ==
  ASSUME TypeOK, NEW d, NEW e, Follows(d, e)
  PROVE  /\ Len(queue) \in Nat /\ Len(queue') \in Nat
         /\ \A i \in 1..Len(queue') : \/ i + d \in 1..Len(queue) /\ queue'[i] = queue[i + d]
                                      \/ queue'[i] = e
         /\ \A i \in (d + 1)..Len(queue) : i - d \in 1..Len(queue') /\ queue'[i - d] = queue[i]
<1>1. Len(queue) \in Nat /\ d \in {0, 1} /\ Len(queue') \in Nat
  BY DEF TypeOK, AnyEvent, Follows
<1>2. ASSUME NEW i \in 1..Len(queue')
      PROVE  \/ i + d \in 1..Len(queue) /\ queue'[i] = queue[i + d]
             \/ queue'[i] = e
  <2>1. CASE i > Len(queue) - d
    BY <2>1 DEF Follows
  <2>2. CASE i \in 1..(Len(queue) - d)
    BY <1>1, <2>2 DEF Follows
  <2> QED  BY <1>1, <2>1, <2>2
<1>3. ASSUME NEW i \in (d + 1)..Len(queue)
      PROVE  i - d \in 1..Len(queue') /\ queue'[i - d] = queue[i]
  <2>1. i - d \in 1..(Len(queue) - d) /\ (i - d) + d = i
    BY <1>1
  <2>2. queue'[i - d] = queue[i]
    BY <2>1 DEF Follows
  <2>3. Len(queue') >= Len(queue) - d
    BY <1>1 DEF Follows
  <2> QED  BY <1>1, <2>1, <2>2, <2>3
<1> QED  BY <1>1, <1>2, <1>3

(***************************************************************************)
(* Steps that leave a lane as it is                                        *)
(***************************************************************************)
(* What the stages depend on is the same in r as in s.                     *)
Alike(s, r) ==
  /\ r.obj = s.obj /\ r.p = s.p /\ r.exits = s.exits
  /\ s.p /\ Wired(s) => Wired(r)

(* Events of others are posted or taken, the owner changes, or the daemon  *)
(* drops the transaction unnoticed.                                        *)
LEMMA LaneKept ==
  ASSUME TypeOK, NEW t \in Own, Lane(t), NEW d, NEW e, Follows(d, e), ~About(e, t),
         Alike(tx[t], tx'[t]), call'[t] = call[t], told'[t] = told[t],
         srv'[t] = srv[t] \/ (srv[t] # "absent" /\ srv'[t] = "lost"),
         d = 1 => ~(queue[1].kind = "Finished" /\ About(queue[1], t) /\ tx[t].p),
         t \in quitting' => t \in quitting \/ (d = 1 /\ Lost(queue[1]))
  PROVE  Lane(t)'
<1>1. /\ Len(queue) \in Nat /\ Len(queue') \in Nat /\ d \in {0, 1}
      /\ \A i \in 1..Len(queue') : \/ i + d \in 1..Len(queue) /\ queue'[i] = queue[i + d]
                                   \/ queue'[i] = e
      /\ \A i \in (d + 1)..Len(queue) : i - d \in 1..Len(queue') /\ queue'[i - d] = queue[i]
  <2>1. d \in {0, 1}
    BY DEF Follows
  <2> QED  BY <2>1, FollowsFrom
<1>2. NoneAbout(t) => NoneAbout(t)'
  BY <1>1 DEF NoneAbout
<1>3. Unborn(t)' /\ Asking(t)'
  BY <1>2 DEF Lane, Unborn, Asking, Alike, Untouched
<1>4. Answered(t)'
  <2> SUFFICES ASSUME NEW i \in 1..Len(queue'), About(queue'[i], t), queue'[i].kind = "createReply"
               PROVE  /\ Untouched(tx[t]) /\ ~tx[t].p /\ told[t] = NoExit
                      /\ call[t] = "none" /\ srv[t] \in {"absent", "idle", "gone", "lost"}
                      /\ \A j \in 1..Len(queue') : About(queue'[j], t) => j = i
    BY DEF Answered, Alike, Untouched
  <2>1. i + d \in 1..Len(queue) /\ queue'[i] = queue[i + d]
    BY <1>1
  <2>2. /\ Untouched(tx[t]) /\ ~tx[t].p /\ told[t] = NoExit
        /\ call[t] = "none" /\ srv[t] \in {"absent", "idle", "gone", "lost"}
        /\ \A j \in 1..Len(queue) : About(queue[j], t) => j = i + d
    BY <2>1 DEF Lane, Answered
  <2>3. ASSUME NEW j \in 1..Len(queue'), About(queue'[j], t)  PROVE j = i
    <3>1. j + d \in 1..Len(queue) /\ queue'[j] = queue[j + d]
      BY <1>1, <2>3
    <3>2. j + d = i + d
      BY <2>2, <2>3, <3>1
    <3> QED  BY <1>1, <3>2
  <2> QED  BY <2>2, <2>3
<1>5. Undisturbed(t)'
  <2>1. Working(t)' => Working(t)
    BY DEF Working
  <2>2. ASSUME NEW i \in 1..Len(queue'), \A j \in 1..Len(queue) : Harmless(queue[j], t)
        PROVE  Harmless(queue'[i], t)
    BY <1>1, <2>2 DEF Harmless
  <2>3. srv'[t] = "running" => call'[t] \in {"none", "late"}
    BY DEF Lane, Undisturbed
  <2> QED  BY <2>1, <2>2, <2>3 DEF Lane, Undisturbed, Alike, Untouched
<1>6. VerdictNext(t) => VerdictNext(t)'
  <2> SUFFICES ASSUME VerdictNext(t)  PROVE VerdictNext(t)'
    OBVIOUS
  <2>1. PICK i \in 1..Len(queue) :
          /\ queue[i] = EventWith("Finished", t, told[t])
          /\ \A j \in 1..(i - 1) : Harmless(queue[j], t) /\ ~Lost(queue[j])
    BY DEF VerdictNext
  <2>2. d = 1 => i # 1
    BY <2>1 DEF VerdictNext, About, EventWith
  <2>3. i \in (d + 1)..Len(queue) /\ i - d \in 1..Len(queue') /\ queue'[i - d] = queue[i]
    BY <1>1, <2>2
  <2>4. ASSUME NEW j \in 1..(i - d - 1)  PROVE Harmless(queue'[j], t) /\ ~Lost(queue'[j])
    <3>1. j + d \in (d + 1)..Len(queue) /\ j + d \in 1..(i - 1)
      BY <1>1
    <3>2. queue'[(j + d) - d] = queue[j + d] /\ (j + d) - d = j
      BY <1>1, <3>1
    <3> QED  BY <2>1, <3>1, <3>2
  <2>5. t \notin quitting'
    <3>1. d = 1 => ~Lost(queue[1])
      BY <1>1, <2>1, <2>3
    <3> QED  BY <3>1 DEF VerdictNext
  <2>6. tx'[t].p /\ told'[t] = told[t]
    BY DEF VerdictNext, Alike
  <2>7. /\ i - d \in 1..Len(queue')
        /\ queue'[i - d] = EventWith("Finished", t, told'[t])
        /\ \A j \in 1..(i - d - 1) : Harmless(queue'[j], t) /\ ~Lost(queue'[j])
    BY <2>1, <2>3, <2>4, <2>6
  <2> QED  BY <2>5, <2>6, <2>7 DEF VerdictNext
<1>7. Announced(t)'
  BY <1>6 DEF Lane, Announced, Alike
<1> QED  BY <1>3, <1>4, <1>5, <1>7 DEF Lane

(***************************************************************************)
(* Steps of the client                                                     *)
(***************************************************************************)
(* An event that could report comes after the verdict or is the verdict.   *)
LEMMA Interrupted ==
  ASSUME TypeOK, NEW t \in Own, Lane(t), queue # <<>>, ~Harmless(Head(queue), t)
  PROVE  /\ ~Working(t) /\ tx[t].obj # "none" /\ call[t] # "create"
         /\ \A i \in 2..Len(queue) : ~(About(queue[i], t) /\ queue[i].kind = "createReply")
         /\ told[t] # NoExit /\ call[t] # "late" /\ tx[t].exits = <<>> =>
              Head(queue) = EventWith("Finished", t, told[t])
<1>1. Head(queue) = queue[1] /\ 1 \in 1..Len(queue) /\ Len(queue) \in Nat /\ About(queue[1], t)
  BY DEF TypeOK, Harmless
<1>2. ~Working(t) /\ tx[t].obj # "none" /\ call[t] # "create"
  BY <1>1 DEF Lane, Undisturbed, Unborn, Asking, NoneAbout
<1>3. ASSUME NEW i \in 2..Len(queue), About(queue[i], t), queue[i].kind = "createReply"
      PROVE  FALSE
  <2>1. i \in 1..Len(queue) /\ i # 1
    BY <1>1
  <2> QED  BY <1>1, <1>3, <2>1 DEF Lane, Answered
<1>4. ASSUME told[t] # NoExit, call[t] # "late", tx[t].exits = <<>>
      PROVE  Head(queue) = EventWith("Finished", t, told[t])
  <2>1. PICK i \in 1..Len(queue) :
          /\ queue[i] = EventWith("Finished", t, told[t])
          /\ \A j \in 1..(i - 1) : Harmless(queue[j], t)
    BY <1>4 DEF Lane, Announced, VerdictNext
  <2>2. CASE i = 1
    BY <1>1, <2>1, <2>2
  <2>3. CASE i # 1
    <3>1. 1 \in 1..(i - 1)
      BY <1>1, <2>3
    <3> QED  BY <1>1, <2>1, <3>1
  <2> QED  BY <2>2, <2>3
<1> QED  BY <1>2, <1>3, <1>4

(* The object reports, repeats itself or is deleted, after the verdict.    *)
LEMMA LaneClosed ==
  ASSUME TypeOK, NEW t \in Own, Lane(t), NEW d, Follows(d, Event("delete", t)),
         ~Working(t), call[t] # "create",
         \A i \in (d + 1)..Len(queue) : ~(About(queue[i], t) /\ queue[i].kind = "createReply"),
         call'[t] = call[t], srv'[t] = srv[t], told'[t] = told[t], tx'[t].obj # "none",
         told[t] # NoExit /\ call[t] # "late" => tx'[t].exits # <<>> /\ tx'[t].exits[1] = told[t]
  PROVE  Lane(t)'
<1>1. \A i \in 1..Len(queue') : ~(About(queue'[i], t) /\ queue'[i].kind = "createReply")
  <2>1. /\ Len(queue) \in Nat /\ d \in {0, 1}
        /\ \A i \in 1..Len(queue') : \/ i + d \in 1..Len(queue) /\ queue'[i] = queue[i + d]
                                     \/ queue'[i] = Event("delete", t)
    BY FollowsFrom DEF Follows
  <2>2. Event("delete", t).kind # "createReply"
    BY DEF Event
  <2> QED  BY <2>1, <2>2
<1>2. Unborn(t)' /\ Asking(t)' /\ Answered(t)'
  BY <1>1 DEF Unborn, Asking, Answered
<1>3. Undisturbed(t)'
  BY DEF Lane, Undisturbed, Working
<1>4. Announced(t)'
  BY DEF Lane, Announced
<1> QED  BY <1>2, <1>3, <1>4 DEF Lane

(* The queue a handler leaves.                                             *)
LEMMA BecomesFollows ==
  ASSUME TypeOK, NEW u \in Txn, NEW s, NEW evs, Becomes(u, s, evs)
  PROVE  /\ tx' = [tx EXCEPT ![u] = s]
         /\ evs = queue => Follows(0, Event("delete", u))
         /\ queue # <<>> /\ evs = Tail(queue) => Follows(1, Event("delete", u))
<1>1. Event("delete", u) \in AnyEvent
  BY DEF Event, AnyEvent, ObjectEvent
<1>2. queue' \in {evs, Append(evs, Event("delete", u))}
  BY DEF Becomes
<1> QED  BY <1>1, <1>2, QueueFollows DEF Becomes

(* A handler of one object leaves the others alone.                        *)
LEMMA OthersKept ==
  ASSUME TypeOK, \A t \in Own : Lane(t), NEW u \in Txn, NEW s, tx' = [tx EXCEPT ![u] = s],
         NEW d, Follows(d, Event("delete", u)), d = 1 => About(queue[1], u),
         UNCHANGED <<srv, told>>, \A t \in Own : t # u => call'[t] = call[t],
         quitting' \subseteq quitting
  PROVE  \A t \in Own : t # u => Lane(t)'
<1> SUFFICES ASSUME NEW t \in Own, t # u  PROVE Lane(t)'
  OBVIOUS
<1>1. ~About(Event("delete", u), t)
  BY DEF About, Event
<1>2. Alike(tx[t], tx'[t])
  BY DEF TypeOK, Txn, Alike
<1>3. d = 1 => ~About(queue[1], t)
  BY DEF About
<1> QED  BY <1>1, <1>2, <1>3, LaneKept

(* Steps that only take the first event, or leave the queue as it is.      *)
LEMMA QueueKept ==
  ASSUME TypeOK, NEW t \in Own, Lane(t), NEW d \in {0, 1}, d = 0 => UNCHANGED queue,
         d = 1 => /\ queue # <<>> /\ queue' = Tail(queue)
                  /\ ~(queue[1].kind = "Finished" /\ About(queue[1], t) /\ tx[t].p),
         Alike(tx[t], tx'[t]), UNCHANGED <<srv, told>>, call'[t] = call[t],
         t \in quitting' => t \in quitting \/ (d = 1 /\ Lost(queue[1]))
  PROVE  Lane(t)'
<1> DEFINE e == [kind |-> "owner", old |-> TRUE, new |-> TRUE]
<1>1. e \in AnyEvent /\ ~About(e, t)
  BY DEF AnyEvent, OwnerEvent, About
<1>2. Follows(d, e)
  BY <1>1, QueueFollows
<1> HIDE DEF e
<1> QED  BY <1>1, <1>2, LaneKept

(* A connection to finished() asks for the rule, and the bus takes it.     *)
LEMMA SubscriptionAlike ==
  ASSUME NEW s \in Object
  PROVE  /\ Alike(s, connectNotify(s))
         /\ s.wire # <<>> => Alike(s, taken(s))
         /\ Wired(setup(s))
<1>1. s.wire \in Seq(SUBSET Rule) /\ Len(s.wire) \in Nat
  BY DEF Object
<1>2. ~Listening(setup(s)) \/ ~s.connected
  <2>1. /\ setup(s).connected = s.connected
        /\ s.connected => setup(s).wire = <<Rule>> /\ 1 \in DOMAIN setup(s).wire /\ setup(s).wire[1] = Rule
    BY DEF setup, Object
  <2> QED  BY <2>1 DEF Listening, Rule
<1>3. Wired(setup(s))
  <2>1. setup(s).connected = s.connected
    BY DEF setup, Object
  <2> QED  BY <1>2, <2>1 DEF Wired, Listening
<1>4. Alike(s, connectNotify(s))
  <2> DEFINE r == connectNotify(s)
  <2>1. /\ r.obj = s.obj /\ r.p = s.p /\ r.exits = s.exits
        /\ s.p => r.wire = Append(s.wire, {"Finished"})
    BY DEF connectNotify, Object
  <2>2. s.p => Len(s.wire) + 1 \in DOMAIN r.wire /\ r.wire[Len(s.wire) + 1] = {"Finished"}
    BY <1>1, <2>1
  <2> HIDE DEF r
  <2>3. Alike(s, r)
    BY <2>1, <2>2 DEF Alike, Wired, Listening
  <2> QED  BY <2>3 DEF r
<1>5. ASSUME s.wire # <<>>  PROVE Alike(s, taken(s))
  <2> DEFINE r == taken(s)
  <2>1. /\ r.obj = s.obj /\ r.p = s.p /\ r.exits = s.exits /\ r.connected = s.connected
        /\ r.wire = Tail(s.wire) /\ r.wired = s.wired \cup Head(s.wire)
    BY DEF taken, Object
  <2>2. ASSUME NEW i \in DOMAIN s.wire, "Finished" \in s.wire[i]
        PROVE  "Finished" \in Head(s.wire) \/ \E j \in DOMAIN Tail(s.wire) : "Finished" \in Tail(s.wire)[j]
    <3>1. i \in 1..Len(s.wire) /\ Head(s.wire) = s.wire[1]
      BY <1>1, <1>5
    <3>2. i # 1 => i - 1 \in DOMAIN Tail(s.wire) /\ Tail(s.wire)[i - 1] = s.wire[i]
      BY <1>1, <1>5, <3>1
    <3> QED  BY <2>2, <3>1, <3>2
  <2> HIDE DEF r
  <2>3. Alike(s, r)
    BY <2>1, <2>2 DEF Alike, Wired, Listening
  <2> QED  BY <2>3 DEF r
<1> QED  BY <1>3, <1>4, <1>5

(* Calls of the application end no lane.                                   *)
LEMMA ApplicationLanes ==
  ASSUME VerdictInv, NEW u \in Txn, Create(u) \/ Attach(u) \/ Connect(u) \/ Cancel(u)
  PROVE  \A t \in Own : Lane(t)'
<1>1. /\ TypeOK /\ tx[u] \in Object /\ ObjectInv(tx[u]) /\ \A t \in Own : Lane(t)
      /\ call \in [Txn -> {"none", "create", "run", "late"}]
  BY DEF VerdictInv, Lanes, ContractInv, TypeOK
<1>2. ASSUME NEW s, Becomes(u, s, queue), UNCHANGED <<srv, told, quitting>>,
             \A t \in Own : t # u => call'[t] = call[t], u \in Own => Lane(u)'
      PROVE  \A t \in Own : Lane(t)'
  <2>1. \A t \in Own : t # u => Lane(t)'
    BY <1>1, <1>2, BecomesFollows, OthersKept
  <2> QED  BY <1>2, <2>1
<1> DEFINE born == [tx[u] EXCEPT !.obj = "live"]
<1>3. CASE Create(u)
  <2>1. Unborn(u) /\ tx[u].obj = "none" /\ u \in Own
    BY <1>1, <1>3 DEF Create, Lane
  <2>2. /\ Untouched(born) /\ ~born.p /\ born.dying = tx[u].dying
    BY <1>1, <2>1 DEF ObjectInv, Reported, Untouched, Object
  <2>3. /\ tx'[u] = born /\ queue' = queue /\ call'[u] = "create"
        /\ UNCHANGED <<srv, told, quitting>> /\ \A t \in Own : t # u => call'[t] = call[t]
    BY <1>1, <1>3, <2>2 DEF Create, Becomes, External, TypeOK
  <2>4. Lane(u)'
    BY <2>1, <2>2, <2>3
       DEF Lane, Unborn, Asking, Answered, Undisturbed, Working, Announced, Untouched, NoneAbout
  <2> QED  BY <1>2, <1>3, <2>3, <2>4 DEF Create
<1>4. CASE Attach(u)
  BY <1>2, <1>4, OwnershipAssumption DEF Attach, External
<1>5. ASSUME NEW s \in Object, Becomes(u, s, queue), s.dying = tx[u].dying, Alike(tx[u], s),
             UNCHANGED <<srv, told, quitting, call>>
      PROVE  \A t \in Own : Lane(t)'
  <2>1. tx'[u] = s /\ queue' = queue
    BY <1>1, <1>5 DEF Becomes, TypeOK
  <2>2. u \in Own => Lane(u)'
    BY <1>1, <1>5, <2>1, QueueKept
  <2> QED  BY <1>2, <1>5, <2>2
<1>6. CASE Connect(u)
  <2> DEFINE s == connectNotify(tx[u])
  <2>1. s \in Object /\ Alike(tx[u], s)
    BY <1>1, SetupTyped, SubscriptionAlike
  <2>2. s.dying = tx[u].dying
    BY <1>1 DEF connectNotify, Object
  <2> QED  BY <1>5, <1>6, <2>1, <2>2 DEF Connect, External
<1>7. CASE Cancel(u)
  <2> DEFINE s == [tx[u] EXCEPT !.cancel = IF tx[u].p THEN "sent" ELSE "lost"]
  <2>1. s \in Object /\ s.dying = tx[u].dying /\ Alike(tx[u], s)
    BY <1>1 DEF Alike, Object, Wired, Listening
  <2> QED  BY <1>5, <1>7, <2>1 DEF Cancel, External
<1> QED  BY <1>3, <1>4, <1>6, <1>7

(* So does the bus.                                                        *)
LEMMA BusLanes ==
  ASSUME VerdictInv, NEW u \in Txn, TakeRules(u)
  PROVE  \A t \in Own : Lane(t)'
<1>1. /\ TypeOK /\ tx \in [Txn -> Object] /\ tx[u] \in Object /\ tx[u].wire # <<>>
      /\ \A t \in Own : Lane(t) /\ t \in Txn
  BY DEF VerdictInv, Lanes, ContractInv, TypeOK, Txn, TakeRules
<1>2. taken(tx[u]).dying = tx[u].dying /\ Alike(tx[u], taken(tx[u]))
  BY <1>1, SubscriptionAlike DEF taken, Object
<1>3. /\ tx' = [tx EXCEPT ![u] = taken(tx[u])]
      /\ UNCHANGED <<queue, quitting, call, srv, told>>
  BY <1>2 DEF TakeRules, Becomes, External
<1>4. \A t \in Own : Alike(tx[t], tx'[t])
  BY <1>1, <1>2, <1>3 DEF Alike
<1> QED  BY <1>1, <1>3, <1>4, QueueKept

(* Every handler of the event loop keeps the lanes.                        *)
LEMMA HandlerLanes ==
  ASSUME VerdictInv, EventLoop
  PROVE  \A t \in Own : Lane(t)'
<1>1. /\ TypeOK /\ ContractInv /\ \A t \in Own : Lane(t) /\ LossFirst(t)
      /\ \A t \in Txn : tx[t] \in Object /\ ObjectInv(tx[t])
  BY DEF VerdictInv, Lanes, LossInv, ContractInv, TypeOK, Txn
<1>2. ASSUME NEW u \in Txn, NEW s, NEW k, Handling(k, u), k # "owner",
             Becomes(u, s, Tail(queue)), UNCHANGED <<srv, told, quitting>>,
             \A t \in Own : t # u => call'[t] = call[t], u \in Own => Lane(u)'
      PROVE  \A t \in Own : Lane(t)'
  <2>1. queue # <<>> /\ Head(queue) = queue[1] /\ About(queue[1], u)
    BY <1>1, <1>2, QueueFollows DEF Handling, Ready, About, TypeOK, AnyEvent
  <2>2. \A t \in Own : t # u => Lane(t)'
    BY <1>1, <1>2, <2>1, BecomesFollows, OthersKept
  <2> QED  BY <1>2, <2>2
<1>3. ASSUME NEW u \in Txn, NEW s, NEW k, Handling(k, u), k # "owner",
             Becomes(u, s, Tail(queue)), UNCHANGED <<srv, told, quitting, call>>,
             ~(k = "runReply" /\ Head(queue).arg = "ok"), s.obj # "none",
             Reported(tx[u]) => Reported(s) /\ s.exits[1] = tx[u].exits[1],
             k = "Finished" /\ ~Reported(tx[u]) => Reported(s) /\ s.exits[1] = Head(queue).arg
      PROVE  \A t \in Own : Lane(t)'
  <2>1. queue # <<>> /\ ~Harmless(Head(queue), u) /\ tx'[u] = s
    BY <1>1, <1>3 DEF Handling, Ready, Harmless, About, Becomes, TypeOK
  <2>2. ASSUME u \in Own  PROVE Lane(u)'
    <3>1. /\ ~Working(u) /\ call[u] # "create"
          /\ \A i \in 2..Len(queue) : ~(About(queue[i], u) /\ queue[i].kind = "createReply")
          /\ told[u] # NoExit /\ call[u] # "late" /\ tx[u].exits = <<>> =>
               Head(queue) = EventWith("Finished", u, told[u])
      BY <1>1, <2>1, <2>2, Interrupted
    <3>2. Follows(1, Event("delete", u))
      BY <1>1, <1>3, <2>1, BecomesFollows
    <3>3. told[u] # NoExit /\ call[u] # "late" => s.exits # <<>> /\ s.exits[1] = told[u]
      <4> SUFFICES ASSUME told[u] # NoExit, call[u] # "late"
                   PROVE  s.exits # <<>> /\ s.exits[1] = told[u]
        OBVIOUS
      <4>1. CASE tx[u].exits = <<>>
        BY <1>3, <3>1, <4>1 DEF EventWith, Handling, Reported
      <4>2. CASE tx[u].exits # <<>>
        BY <1>1, <1>3, <2>2, <4>2 DEF Lane, Announced, Reported
      <4> QED  BY <4>1, <4>2
    <3> QED  BY <1>1, <1>3, <2>1, <2>2, <3>1, <3>2, <3>3, LaneClosed
  <2> QED  BY <1>2, <1>3, <2>2
<1>4. ASSUME NEW u \in Txn, NEW k, Handling(k, u), k # "owner"
      PROVE  Alive(tx[u]) /\ queue # <<>>
  BY <1>1, <1>4, ReceiverAlive DEF Handling
<1>5. ASSUME NEW u \in Txn, NEW s, NEW k, Handling(k, u), Forward(tx[u], s),
             Becomes(u, s, Tail(queue)), UNCHANGED <<srv, told, quitting, call>>,
             k \in {"createReply", "runReply", "Destroy"},
             ~(k = "runReply" /\ Head(queue).arg = "ok")
      PROVE  \A t \in Own : Lane(t)'
  BY <1>3, <1>4, <1>5 DEF Forward, Alive
<1>6. ASSUME NEW u \in Txn, CreateSucceeded(u)
      PROVE  \A t \in Own : Lane(t)'
  <2> DEFINE s == setup(tx[u])
  <2>1. Handling("createReply", u) /\ Becomes(u, s, Tail(queue)) /\ UNCHANGED <<srv, told, quitting>>
    BY <1>6 DEF CreateSucceeded, External
  <2>2. \A t \in Own : t # u => call'[t] = call[t]
    BY <1>1, <1>6 DEF CreateSucceeded, TypeOK
  <2>3. ASSUME u \in Own  PROVE Lane(u)'
    <3>1. /\ queue # <<>> /\ queue[1] = Head(queue) /\ 1 \in 1..Len(queue) /\ Len(queue) \in Nat
          /\ About(queue[1], u) /\ queue[1].kind = "createReply"
      BY <1>1, <2>1, QueueFollows DEF Handling, Ready, About, TypeOK, AnyEvent
    <3>2. /\ Untouched(tx[u]) /\ told[u] = NoExit /\ srv[u] \in {"absent", "idle", "gone", "lost"}
          /\ \A j \in 1..Len(queue) : About(queue[j], u) => j = 1
      BY <1>1, <2>3, <3>1 DEF Lane, Answered
    <3>3. /\ Untouched(s) /\ s.p /\ Wired(s) /\ s.dying = tx[u].dying
      BY <1>1, <3>2, SubscriptionAlike DEF setup, Object, Untouched
    <3>4. tx'[u] = s /\ queue' = Tail(queue) /\ call'[u] = "run"
      BY <1>1, <1>6, <2>1, <3>3 DEF CreateSucceeded, Becomes, TypeOK
    <3>5. NoneAbout(u)'
      <4>1. \A i \in 1..Len(queue') : i + 1 \in 1..Len(queue) /\ queue'[i] = queue[i + 1] /\ i + 1 # 1
        BY <1>1, <3>1, <3>4 DEF TypeOK, AnyEvent
      <4> QED  BY <3>2, <4>1 DEF NoneAbout
    <3> HIDE DEF s
    <3>6. Unborn(u)' /\ Asking(u)' /\ Answered(u)' /\ Announced(u)'
      BY <2>1, <3>2, <3>3, <3>4, <3>5 DEF Unborn, Asking, Answered, Announced, NoneAbout, Untouched
    <3>7. Undisturbed(u)'
      BY <2>1, <3>2, <3>3, <3>4, <3>5 DEF Undisturbed, NoneAbout, Harmless, Untouched
    <3> QED  BY <3>6, <3>7 DEF Lane
  <2> QED  BY <1>2, <2>1, <2>2, <2>3
<1>7. ASSUME NEW u \in Txn, DispatchFailed(u)
      PROVE  \A t \in Own : Lane(t)'
  <2> DEFINE r == setup(tx[u])
             q == errorCode(r, "InternalError")
             s == finished(q, "failed")
  <2>1. Handling("createReply", u) /\ Becomes(u, s, Tail(queue)) /\ UNCHANGED <<srv, told, quitting, call>>
    BY <1>7 DEF DispatchFailed, External
  <2>2. Alive(tx[u]) /\ "InternalError" \in Error /\ "failed" \in Exit
    BY <1>4, <2>1 DEF Error, Exit
  <2>3. Forward(tx[u], r) /\ Alive(r)
    BY <2>2, SetupForward, ForwardAlive
  <2>4. Forward(r, q) /\ Alive(q)
    BY <2>2, <2>3, ErrorCodeForward, ForwardAlive
  <2>5. Forward(q, s)
    BY <2>2, <2>4, FinishedForward
  <2>6. Forward(tx[u], s)
    BY <2>3, <2>4, <2>5, ForwardTransitive
  <2> HIDE DEF s
  <2> QED  BY <1>5, <2>1, <2>6
<1>8. ASSUME NEW u \in Txn, CreateFailed(u) \/ RunFailed(u)
      PROVE  \A t \in Own : Lane(t)'
  <2> DEFINE s == callFailed(tx[u], Head(queue).arg)
  <2>1. PICK k \in {"createReply", "runReply"} : Handling(k, u)
    BY <1>8 DEF CreateFailed, RunFailed
  <2>2. /\ Becomes(u, s, Tail(queue)) /\ UNCHANGED <<srv, told, quitting, call>>
        /\ Head(queue).arg # "ok"
    BY <1>8 DEF CreateFailed, RunFailed, External
  <2>3. Forward(tx[u], s)
    BY <1>4, <2>1, CallFailedForward
  <2> HIDE DEF s
  <2> QED  BY <1>5, <2>1, <2>2, <2>3
<1>9. ASSUME NEW u \in Txn, HandleDestroy(u)
      PROVE  \A t \in Own : Lane(t)'
  <2>1. Forward(tx[u], destroy(tx[u])) /\ Handling("Destroy", u)
    BY <1>4, <1>9, DestroyForward DEF HandleDestroy
  <2> QED  BY <1>5, <1>9, <2>1 DEF HandleDestroy, External
<1>10. ASSUME NEW u \in Txn, HandleFinished(u)
       PROVE  \A t \in Own : Lane(t)'
  <2> DEFINE s == finished(tx[u], Head(queue).arg)
  <2>1. Head(queue).arg \in Exit /\ Handling("Finished", u)
    BY <1>1, <1>10, VerdictTyped DEF HandleFinished
  <2>2. Forward(tx[u], s) /\ Alive(tx[u])
    BY <1>4, <2>1, FinishedForward
  <2>3. ~Reported(tx[u]) => Reported(s) /\ s.exits[1] = Head(queue).arg
    <3>1. s.exits = Append(tx[u].exits, Head(queue).arg)
      BY <1>1 DEF finished, Object
    <3> QED  BY <3>1 DEF Reported
  <2>4. Becomes(u, s, Tail(queue)) /\ UNCHANGED <<srv, told, quitting, call>>
    BY <1>10 DEF HandleFinished, External
  <2>5. s.obj # "none" /\ (Reported(tx[u]) => Reported(s) /\ s.exits[1] = tx[u].exits[1])
    BY <2>2 DEF Forward, Alive
  <2> HIDE DEF s
  <2> QED  BY <1>3, <2>1, <2>3, <2>4, <2>5
<1>11. ASSUME NEW u \in Txn, HandleDelete(u)
       PROVE  \A t \in Own : Lane(t)'
  <2> DEFINE s == [tx[u] EXCEPT !.obj = "deleted", !.p = FALSE]
  <2>1. s.obj = "deleted" /\ s.exits = tx[u].exits
    BY <1>1 DEF Object
  <2>2. Handling("delete", u) /\ Becomes(u, s, Tail(queue)) /\ UNCHANGED <<srv, told, quitting, call>>
    BY <1>11 DEF HandleDelete, External
  <2> HIDE DEF s
  <2> QED  BY <1>3, <2>1, <2>2 DEF Reported
<1>12. ASSUME NEW u \in Txn, DaemonQuit(u)
       PROVE  \A t \in Own : Lane(t)'
  <2> DEFINE s == daemonQuit(tx[u])
  <2>1. /\ u \in quitting /\ Becomes(u, s, queue) /\ quitting' = quitting \ {u}
        /\ UNCHANGED <<call, srv, told>> /\ tx'[u] = s
    BY <1>1, <1>12 DEF DaemonQuit, External, Becomes, TypeOK
  <2>2. Follows(0, Event("delete", u)) /\ \A t \in Own : t # u => Lane(t)'
    <3>1. tx' = [tx EXCEPT ![u] = s]
      BY <2>1 DEF Becomes
    <3>2. Follows(0, Event("delete", u))
      BY <1>1, <2>1, BecomesFollows
    <3>3. /\ quitting' \subseteq quitting /\ UNCHANGED <<srv, told>>
          /\ \A t \in Own : t # u => call'[t] = call[t]
      BY <2>1
    <3>4. 0 = 1 => About(queue[1], u)
      OBVIOUS
    <3> HIDE DEF s
    <3>5. \A t \in Own : t # u => Lane(t)'
      BY <1>1, <3>1, <3>2, <3>3, <3>4, OthersKept
    <3> QED  BY <3>2, <3>5
  <2>3. ASSUME u \in Own, tx[u].p  PROVE Lane(u)'
    <3>1. /\ ~Working(u) /\ call[u] # "create"
          /\ \A i \in 1..Len(queue) : ~(About(queue[i], u) /\ queue[i].kind = "createReply")
      BY <1>1, <2>1, <2>3 DEF LossFirst, Working, Lane, Asking, Answered
    <3>2. Forward(tx[u], s) /\ tx[u].obj = "live"
      BY <1>1, <2>3, DaemonQuitForward DEF ObjectInv
    <3>3. told[u] # NoExit /\ call[u] # "late" => Reported(tx[u]) /\ tx[u].exits[1] = told[u]
      BY <1>1, <2>1, <2>3 DEF Lane, Announced, VerdictNext, Reported
    <3>4. s.obj # "none" /\ (Reported(tx[u]) => Reported(s) /\ s.exits[1] = tx[u].exits[1])
      BY <3>2 DEF Forward
    <3> HIDE DEF s
    <3> QED  BY <1>1, <2>1, <2>2, <2>3, <3>1, <3>3, <3>4, LaneClosed DEF Reported
  <2>4. ASSUME u \in Own, ~tx[u].p  PROVE Lane(u)'
    <3>1. s = tx[u]
      BY <2>4 DEF daemonQuit
    <3>2. queue' = queue /\ Alike(tx[u], tx'[u])
      BY <2>1, <3>1 DEF Becomes, Alike
    <3> QED  BY <1>1, <2>1, <2>4, <3>2, QueueKept
  <2> QED  BY <2>2, <2>3, <2>4
<1>13. ASSUME queue # <<>>, queue' = Tail(queue), UNCHANGED <<tx, call, srv, told>>,
              \A t \in Own : ~(queue[1].kind = "Finished" /\ About(queue[1], t) /\ tx[t].p),
              \A t \in quitting' : t \in quitting \/ Lost(queue[1])
       PROVE  \A t \in Own : Lane(t)'
  <2>1. \A t \in Own : Alike(tx[t], tx'[t])
    BY <1>13 DEF Alike
  <2> QED  BY <1>1, <1>13, <2>1, QueueKept
<1>14. ASSUME NEW u \in Txn, RunSucceeded(u)
       PROVE  \A t \in Own : Lane(t)'
  <2>1. queue # <<>> /\ queue[1] = Head(queue) /\ queue[1].kind = "runReply"
    BY <1>1, <1>14, QueueFollows DEF RunSucceeded, Handling, Ready, TypeOK, AnyEvent
  <2>2. queue' = Tail(queue) /\ UNCHANGED <<tx, call, srv, told, quitting>>
    BY <1>1, <1>14 DEF RunSucceeded, Becomes, External, TypeOK
  <2> QED  BY <1>13, <2>1, <2>2
<1>15. CASE OwnerChanged
  <2>1. queue # <<>> /\ queue[1] = Head(queue) /\ queue[1].kind = "owner"
    BY <1>1, <1>15, QueueFollows DEF OwnerChanged, Ready, TypeOK, AnyEvent
  <2>2. /\ queue' = Tail(queue) /\ UNCHANGED <<tx, call, srv, told>>
        /\ \A t \in quitting' : Lost(queue[1])
    BY <1>15, <2>1 DEF OwnerChanged, External, Lost
  <2> QED  BY <1>13, <2>1, <2>2
<1>16. CASE Discard
  <2>1. queue # <<>> /\ queue[1] = Head(queue) /\ ~Deliverable(queue[1])
    BY <1>1, <1>16, QueueFollows DEF Discard, Ready, TypeOK, AnyEvent
  <2>2. \A t \in Own : ~(queue[1].kind = "Finished" /\ About(queue[1], t) /\ tx[t].p)
    BY <2>1 DEF Deliverable, About
  <2> QED  BY <1>13, <1>16, <2>1, <2>2 DEF Discard, External
<1> QED
  BY <1>6, <1>7, <1>8, <1>9, <1>10, <1>11, <1>12, <1>14, <1>15, <1>16 DEF EventLoop

(***************************************************************************)
(* Steps of the daemon and the bus                                         *)
(***************************************************************************)
(* The daemon tells a client that listens the verdict of a transaction:    *)
(* nothing that could report is before it in the queue.                    *)
LEMMA FinishLane ==
  ASSUME TypeOK, NEW t \in Own, Lane(t), LossFirst(t), NEW x \in Verdict, FinishRun(t, x)
  PROVE  Lane(t)'
<1> DEFINE e == EventWith("Finished", t, x)
<1>1. /\ queue \in Seq(AnyEvent) /\ Len(queue) \in Nat /\ e \in AnyEvent /\ e.kind = "Finished"
  BY DEF TypeOK, AnyEvent, ObjectEvent, EventWith, Txn
<1>2. /\ UNCHANGED <<tx, quitting, call>> /\ srv[t] = "running" /\ srv'[t] = "done"
      /\ told'[t] \in {told[t], x} /\ queue' \in {queue, Append(queue, e)}
      /\ call[t] \in {"none", "late"} /\ told[t] = NoExit
  BY DEF FinishRun, TypeOK, Txn, Lane, Undisturbed, Announced
<1>3. Follows(0, e)
  BY <1>1, <1>2, QueueFollows
<1> HIDE DEF e
<1>4. \A i \in 1..Len(queue') : (i \in 1..Len(queue) /\ queue'[i] = queue[i]) \/ queue'[i] = e
  BY <1>3, FollowsFrom
<1>5. Unborn(t)' /\ Asking(t)' /\ Undisturbed(t)'
  BY <1>2 DEF Lane, Unborn, Asking, Undisturbed, Working
<1>6. Answered(t)'
  BY <1>1, <1>2, <1>4 DEF Lane, Answered
<1>7. ASSUME told'[t] # NoExit, call[t] # "late"
      PROVE  tx[t].exits = <<>> /\ VerdictNext(t)'
  <2>1. told'[t] = x /\ Listening(tx[t])
    BY <1>2, <1>7 DEF FinishRun, TypeOK, Txn
  <2>2. /\ Untouched(tx[t]) /\ tx[t].p /\ "Finished" \in tx[t].wired
        /\ \A i \in 1..Len(queue) : Harmless(queue[i], t)
    BY <1>2, <1>7, <2>1 DEF Lane, Undisturbed, Working, Wired
  <2>3. t \notin quitting /\ \A i \in 1..Len(queue) : ~Lost(queue[i])
    BY <1>2, <2>2 DEF LossFirst
  <2>4. queue' = Append(queue, e)
    BY <2>2 DEF FinishRun, e
  <2>5. /\ Len(queue) + 1 \in 1..Len(queue') /\ queue'[Len(queue) + 1] = e
        /\ \A j \in 1..Len(queue) : queue'[j] = queue[j]
    BY <1>1, <2>4
  <2>6. e = EventWith("Finished", t, told'[t])
    BY <2>1 DEF e
  <2>7. \A j \in 1..(Len(queue) + 1 - 1) : Harmless(queue'[j], t) /\ ~Lost(queue'[j])
    BY <1>1, <2>2, <2>3, <2>5
  <2> QED  BY <1>2, <2>2, <2>3, <2>5, <2>6, <2>7 DEF VerdictNext, Untouched
<1>8. Announced(t)'
  BY <1>2, <1>7 DEF Announced
<1> QED  BY <1>5, <1>6, <1>8 DEF Lane

(* The daemon answers, takes or refuses a call of the client.              *)
LEMMA AnsweringLane ==
  ASSUME TypeOK, NEW t \in Own, Lane(t),
         AnswerCreate(t) \/ FailCreate(t) \/ AcceptRun(t) \/ RejectRun(t) \/ FailRun(t)
  PROVE  Lane(t)'
<1>1. t \in Txn /\ queue \in Seq(AnyEvent) /\ Len(queue) \in Nat
      /\ call \in [Txn -> {"none", "create", "run", "late"}]
      /\ srv \in [Txn -> {"absent", "idle", "running", "done", "gone", "lost"}]
  BY DEF TypeOK, AnyEvent, Txn
<1>2. CASE AnswerCreate(t) \/ FailCreate(t)
  <2>1. PICK a \in {"ok", "denied", "error"} :
          /\ queue' = Append(queue, EventWith("createReply", t, a))
          /\ UNCHANGED <<tx, quitting, told>> /\ call[t] = "create" /\ call'[t] = "none"
          /\ srv'[t] \in {srv[t], "idle"}
    BY <1>1, <1>2 DEF AnswerCreate, FailCreate, Reply, External
  <2>2. /\ Untouched(tx[t]) /\ ~tx[t].p /\ srv[t] = "absent" /\ told[t] = NoExit
        /\ \A i \in 1..Len(queue) : ~About(queue[i], t)
    BY <2>1 DEF Lane, Asking, NoneAbout
  <2>3. /\ Len(queue') = Len(queue) + 1
        /\ \A i \in 1..Len(queue) : queue'[i] = queue[i]
    BY <1>1, <2>1
  <2>4. \A i \in 1..Len(queue') : About(queue'[i], t) => i = Len(queue) + 1
    BY <1>1, <2>2, <2>3
  <2>5. Answered(t)'
    BY <2>1, <2>2, <2>4 DEF Answered, Untouched
  <2>6. Unborn(t)' /\ Asking(t)' /\ Undisturbed(t)' /\ Announced(t)'
    BY <2>1, <2>2 DEF Unborn, Asking, Undisturbed, Working, Announced, Untouched
  <2> QED  BY <2>5, <2>6 DEF Lane
<1>3. CASE AcceptRun(t) \/ RejectRun(t) \/ FailRun(t)
  <2>1. /\ UNCHANGED <<tx, quitting, told>>
        /\ \/ UNCHANGED queue
           \/ \E a \in {"ok", "denied", "error"} : queue' = Append(queue, EventWith("runReply", t, a))
        /\ call[t] \in {"run", "late"} /\ call'[t] \in {"none", "late"}
        /\ call[t] = "run" \/ srv[t] = "idle"
    BY <1>1, <1>3 DEF AcceptRun, RejectRun, FailRun, Reply, External
  <2>2. /\ tx[t].obj # "none" /\ told[t] = NoExit
        /\ \A i \in 1..Len(queue) : ~(About(queue[i], t) /\ queue[i].kind = "createReply")
    BY <2>1 DEF Lane, Unborn, Announced, Answered
  <2>3. \A i \in 1..Len(queue') :
          \/ i \in 1..Len(queue) /\ queue'[i] = queue[i]
          \/ \E a \in {"ok", "denied", "error"} : queue'[i] = EventWith("runReply", t, a)
    BY <1>1, <2>1
  <2>4. Unborn(t)' /\ Asking(t)' /\ Announced(t)'
    BY <2>1, <2>2 DEF Unborn, Asking, Announced
  <2>5. Answered(t)'
    BY <2>2, <2>3 DEF Answered, EventWith
  <2>6. Undisturbed(t)'
    <3>1. CASE AcceptRun(t) /\ call[t] = "run"
      <4>1. /\ srv[t] = "idle" /\ call'[t] = "none"
            /\ queue' = Append(queue, EventWith("runReply", t, "ok"))
        BY <1>1, <3>1 DEF AcceptRun, Reply
      <4>2. /\ Untouched(tx[t]) /\ tx[t].p /\ Wired(tx[t])
            /\ \A i \in 1..Len(queue) : Harmless(queue[i], t)
        BY <3>1, <4>1 DEF Lane, Undisturbed, Working
      <4>3. Harmless(EventWith("runReply", t, "ok"), t)
        BY DEF Harmless, EventWith
      <4>4. \A i \in 1..Len(queue') : Harmless(queue'[i], t)
        BY <1>1, <4>1, <4>2, <4>3
      <4> QED  BY <2>1, <4>1, <4>2, <4>4 DEF Undisturbed, Untouched
    <3>2. CASE AcceptRun(t) /\ call[t] = "late"
      <4>1. call'[t] = "late" /\ srv'[t] = "running"
        BY <1>1, <3>2 DEF AcceptRun, Reply
      <4> QED  BY <4>1 DEF Undisturbed, Working
    <3>3. CASE RejectRun(t)
      <4>1. srv'[t] = "done"
        BY <1>1, <3>3 DEF RejectRun
      <4> QED  BY <4>1 DEF Undisturbed, Working
    <3>4. CASE FailRun(t)
      <4>1. srv'[t] \in {"idle", "gone", "lost"}
        BY <3>4 DEF FailRun, External
      <4> QED  BY <2>1, <4>1 DEF Undisturbed, Working
    <3> QED  BY <1>3, <2>1, <3>1, <3>2, <3>3, <3>4
  <2> QED  BY <2>4, <2>5, <2>6 DEF Lane
<1> QED  BY <1>2, <1>3

(* The daemon destroys a tid: behind the verdict, if there is one.         *)
LEMMA DestroyLane ==
  ASSUME TypeOK, NEW t \in Own, Lane(t), DestroyTid(t)
  PROVE  Lane(t)'
<1> DEFINE e == Event("Destroy", t)
<1>1. t \in Txn /\ Len(queue) \in Nat /\ e \in AnyEvent /\ e.kind = "Destroy"
  BY DEF TypeOK, AnyEvent, ObjectEvent, Event, Txn
<1>2. /\ UNCHANGED <<tx, quitting, call, told>> /\ srv[t] # "absent" /\ srv'[t] = "gone"
      /\ queue' = queue \/ (tx[t].p /\ queue' = Append(queue, e))
  BY <1>1 DEF DestroyTid, TypeOK
<1>3. Follows(0, e)
  BY <1>1, <1>2, QueueFollows
<1> HIDE DEF e
<1>4. /\ \A i \in 1..Len(queue') : (i \in 1..Len(queue) /\ queue'[i] = queue[i]) \/ queue'[i] = e
      /\ \A i \in 1..Len(queue) : i \in 1..Len(queue') /\ queue'[i] = queue[i]
  BY <1>1, <1>3, FollowsFrom
<1>5. Unborn(t)' /\ Asking(t)' /\ Undisturbed(t)'
  BY <1>2 DEF Lane, Unborn, Asking, Undisturbed, Working
<1>6. Answered(t)'
  <2>1. CASE tx[t].p
    BY <1>1, <1>4, <2>1 DEF Lane, Answered
  <2>2. CASE ~tx[t].p
    BY <1>2, <2>2 DEF Lane, Answered
  <2> QED  BY <2>1, <2>2
<1>7. VerdictNext(t) => VerdictNext(t)'
  <2> SUFFICES ASSUME VerdictNext(t)  PROVE VerdictNext(t)'
    OBVIOUS
  <2>1. PICK i \in 1..Len(queue) :
          /\ queue[i] = EventWith("Finished", t, told[t])
          /\ \A j \in 1..(i - 1) : Harmless(queue[j], t) /\ ~Lost(queue[j])
    BY DEF VerdictNext
  <2>2. \A j \in 1..(i - 1) : j \in 1..Len(queue)
    BY <1>1
  <2>3. /\ i \in 1..Len(queue') /\ queue'[i] = EventWith("Finished", t, told'[t])
        /\ \A j \in 1..(i - 1) : Harmless(queue'[j], t) /\ ~Lost(queue'[j])
    BY <1>2, <1>4, <2>1, <2>2
  <2> QED  BY <1>2, <2>3 DEF VerdictNext
<1>8. Announced(t)'
  BY <1>2, <1>7 DEF Lane, Announced
<1> QED  BY <1>5, <1>6, <1>8 DEF Lane

(* Every step of the daemon and the bus keeps the lanes.                   *)
LEMMA DaemonLanes ==
  ASSUME VerdictInv, Daemon
  PROVE  \A t \in Own : Lane(t)'
<1>1. /\ TypeOK /\ \A t \in Own : Lane(t) /\ LossFirst(t) /\ t \in Txn /\ t \notin Foreign
      /\ call \in [Txn -> {"none", "create", "run", "late"}]
      /\ srv \in [Txn -> {"absent", "idle", "running", "done", "gone", "lost"}]
      /\ told \in [Txn -> Verdict \cup {NoExit}]
  BY OwnershipAssumption DEF VerdictInv, Lanes, LossInv, TypeOK, Txn
<1>2. ASSUME NEW u \in Txn, NEW e \in AnyEvent, About(e, u), queue' \in {queue, Append(queue, e)},
             UNCHANGED <<tx, quitting>>, u \in Own => Lane(u)',
             \A t \in Own : t # u => call'[t] = call[t] /\ srv'[t] = srv[t] /\ told'[t] = told[t]
      PROVE  \A t \in Own : Lane(t)'
  <2>1. Follows(0, e)
    BY <1>1, <1>2, QueueFollows
  <2>2. ASSUME NEW t \in Own, t # u  PROVE Lane(t)'
    <3>1. ~About(e, t) /\ Alike(tx[t], tx'[t])
      BY <1>2, <2>2 DEF About, Alike
    <3> QED  BY <1>1, <1>2, <2>1, <2>2, <3>1, LaneKept
  <2> QED  BY <1>2, <2>2
<1>3. ASSUME NEW u \in Txn, AnswerCreate(u) \/ FailCreate(u) \/ AcceptRun(u) \/ RejectRun(u) \/ FailRun(u)
      PROVE  \A t \in Own : Lane(t)'
  <2>1. /\ UNCHANGED <<tx, quitting, told>>
        /\ \/ UNCHANGED queue
           \/ \E k \in {"createReply", "runReply"} : \E a \in {"ok", "denied", "error"} :
                 queue' = Append(queue, EventWith(k, u, a))
        /\ \A t \in Own : t # u => call'[t] = call[t] /\ srv'[t] = srv[t]
    BY <1>1, <1>3 DEF AnswerCreate, FailCreate, AcceptRun, RejectRun, FailRun, Reply, External
  <2>2. u \in Own => Lane(u)'
    BY <1>1, <1>3, AnsweringLane
  <2>3. \A k \in {"createReply", "runReply"} : \A a \in {"ok", "denied", "error"} :
          EventWith(k, u, a) \in AnyEvent /\ About(EventWith(k, u, a), u)
    BY DEF EventWith, AnyEvent, ObjectEvent, About
  <2> QED  BY <1>2, <2>1, <2>2, <2>3
<1>4. ASSUME NEW u \in Txn, NEW x \in Verdict, FinishRun(u, x)
      PROVE  \A t \in Own : Lane(t)'
  <2>1. /\ UNCHANGED <<tx, quitting, call>> /\ queue' \in {queue, Append(queue, EventWith("Finished", u, x))}
        /\ \A t \in Own : t # u => srv'[t] = srv[t] /\ told'[t] = told[t]
    BY <1>1, <1>4 DEF FinishRun
  <2>2. u \in Own => Lane(u)'
    BY <1>1, <1>4, FinishLane
  <2>3. EventWith("Finished", u, x) \in AnyEvent /\ About(EventWith("Finished", u, x), u)
    BY DEF EventWith, AnyEvent, ObjectEvent, About
  <2> QED  BY <1>2, <2>1, <2>2, <2>3
<1>5. ASSUME NEW u \in Txn, DestroyTid(u) \/ ForeignBegin(u)
      PROVE  \A t \in Own : Lane(t)'
  <2>1. /\ UNCHANGED <<tx, quitting, call, told>> /\ queue' \in {queue, Append(queue, Event("Destroy", u))}
        /\ \A t \in Own : t # u => srv'[t] = srv[t]
    BY <1>1, <1>5 DEF DestroyTid, ForeignBegin
  <2>2. u \in Own => Lane(u)'
    BY <1>1, <1>5, DestroyLane DEF ForeignBegin
  <2>3. Event("Destroy", u) \in AnyEvent /\ About(Event("Destroy", u), u)
    BY DEF Event, AnyEvent, ObjectEvent, About
  <2> QED  BY <1>2, <2>1, <2>2, <2>3
<1>6. CASE LoseOwner \/ StartOwner
  <2>1. PICK old \in BOOLEAN, new \in BOOLEAN : OwnerChange(old, new)
    BY <1>6 DEF LoseOwner, StartOwner
  <2> DEFINE e == [kind |-> "owner", old |-> old, new |-> new]
  <2>2. /\ e \in AnyEvent /\ queue' = Append(queue, e) /\ UNCHANGED <<tx, quitting, call, told>>
        /\ \A t \in Own : ~About(e, t)
    BY <2>1 DEF OwnerChange, AnyEvent, OwnerEvent, About
  <2>3. \A t \in Own : srv'[t] = srv[t] \/ (srv[t] # "absent" /\ srv'[t] = "lost")
    BY <1>1, <1>6 DEF LoseOwner, StartOwner
  <2> HIDE DEF e
  <2>4. Follows(0, e)
    BY <1>1, <2>2, QueueFollows
  <2>5. \A t \in Own : Alike(tx[t], tx'[t])
    BY <2>2 DEF Alike
  <2> QED  BY <1>1, <2>2, <2>3, <2>4, <2>5, LaneKept
<1> QED
  BY <1>3, <1>4, <1>5, <1>6 DEF Daemon, DaemonOf

(* The exit status that the daemon announced for an own transaction is the *)
(* one of its first finished(), unless the client had given up on it.      *)
THEOREM VerdictReported == Spec => []VerdictWins
<1>1. Init => Lanes
  <2> SUFFICES ASSUME Init, NEW t \in Own  PROVE Lane(t)
    BY DEF Lanes
  <2>1. /\ Len(queue) = 0 /\ call[t] = "none" /\ srv[t] = "absent" /\ told[t] = NoExit
    BY DEF Init, Txn
  <2> QED  BY <2>1 DEF Lane, Unborn, Asking, Answered, Undisturbed, Working, Announced, NoneAbout
<1>2. VerdictInv /\ [Next]_vars => Lanes'
  <2> SUFFICES ASSUME VerdictInv, [Next]_vars  PROVE \A t \in Own : Lane(t)'
    BY DEF Lanes
  <2>1. CASE Application
    BY <2>1, ApplicationLanes DEF Application
  <2>2. CASE EventLoop
    BY <2>2, HandlerLanes
  <2>3. CASE Bus
    BY <2>3, BusLanes DEF Bus
  <2>4. CASE Daemon
    BY <2>4, DaemonLanes
  <2>5. CASE UNCHANGED vars
    BY <2>5 DEF vars, VerdictInv, Lanes, Lane, Unborn, Asking, Answered, Undisturbed, Working,
                Announced, VerdictNext, NoneAbout
  <2> QED  BY <2>1, <2>2, <2>3, <2>4, <2>5 DEF Next
<1>3. Lanes => VerdictWins
  BY DEF Lanes, Lane, Announced, VerdictWins
<1> QED  BY <1>1, <1>2, <1>3, LossInvariant, ContractInvariant, PTL DEF Spec, VerdictInv
==============================================================================

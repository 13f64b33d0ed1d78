----------------------------- MODULE ProxyProofs -----------------------------
(***************************************************************************)
(* Proofs about DaemonProxy, for any faults of the bus and for all bounds: *)
(* once everything has been handled, the Daemon and Offline objects agree  *)
(* with the daemon, and nothing is counted twice or forgotten.             *)
(***************************************************************************)
EXTENDS DaemonProxy, FiniteSetTheorems, TLAPS

(***************************************************************************)
(* Queues                                                                  *)
(***************************************************************************)
(* The first element and the rest of a queue.                              *)
LEMMA HeadAndTail ==
  ASSUME NEW E, NEW q \in Seq(E), q # <<>>
  PROVE  /\ Head(q) \in E /\ Head(q) = q[1]
         /\ Tail(q) \in Seq(E)
         /\ Len(q) \in Nat /\ Len(q) >= 1 /\ Len(Tail(q)) = Len(q) - 1
         /\ \A i \in 1..Len(Tail(q)) : i + 1 \in 1..Len(q) /\ Tail(q)[i] = q[i + 1]
  OBVIOUS

(* A queue with one more element.                                          *)
LEMMA Appended ==
  ASSUME NEW E, NEW q \in Seq(E), NEW x \in E
  PROVE  /\ Append(q, x) \in Seq(E)
         /\ Len(q) \in Nat /\ Len(Append(q, x)) = Len(q) + 1
         /\ Append(q, x)[Len(q) + 1] = x
         /\ \A i \in 1..Len(q) : Append(q, x)[i] = q[i]
         /\ q \o <<x>> = Append(q, x)
  OBVIOUS

(* So many elements of a queue are of a kind: ...                          *)
LEMMA CountTyped ==
  ASSUME NEW E, NEW q \in Seq(E), NEW kind
  PROVE  /\ IsFiniteSet({i \in DOMAIN q : q[i] \in kind})
         /\ Count(q, kind) \in Nat
         /\ q = <<>> => Count(q, kind) = 0
<1> DEFINE S == {i \in DOMAIN q : q[i] \in kind}
<1>1. DOMAIN q = 1..Len(q) /\ Len(q) \in Nat
  OBVIOUS
<1>2. IsFiniteSet(1..Len(q))
  BY <1>1, FS_Interval
<1>3. IsFiniteSet(S)
  BY <1>1, <1>2, FS_Subset
<1>4. Cardinality(S) \in Nat
  BY <1>3, FS_CardinalityType
<1>5. ASSUME q = <<>>  PROVE S = {}
  BY <1>1, <1>5
<1> QED  BY <1>3, <1>4, <1>5, FS_EmptySet DEF Count

(* ... one more if one is appended, ...                                    *)
LEMMA CountAppended ==
  ASSUME NEW E, NEW q \in Seq(E), NEW x \in E, NEW kind
  PROVE  Count(Append(q, x), kind) = Count(q, kind) + IF x \in kind THEN 1 ELSE 0
<1> DEFINE S == {i \in DOMAIN q : q[i] \in kind}
           T == {i \in DOMAIN Append(q, x) : Append(q, x)[i] \in kind}
<1>1. /\ Append(q, x) \in Seq(E) /\ Len(q) \in Nat /\ Len(Append(q, x)) = Len(q) + 1
      /\ Append(q, x)[Len(q) + 1] = x
      /\ \A i \in 1..Len(q) : Append(q, x)[i] = q[i]
      /\ DOMAIN q = 1..Len(q) /\ DOMAIN Append(q, x) = 1..(Len(q) + 1)
  BY Appended
<1>2. IsFiniteSet(S) /\ Cardinality(S) \in Nat
  BY CountTyped DEF Count
<1>3. Count(q, kind) = Cardinality(S) /\ Count(Append(q, x), kind) = Cardinality(T)
  BY Zenon DEF Count
<1>4. CASE x \in kind
  <2>1. T = S \cup {Len(q) + 1} /\ Len(q) + 1 \notin S
    BY <1>1, <1>4
  <2> HIDE DEF S, T
  <2>2. Cardinality(T) = Cardinality(S) + 1
    BY <1>2, <2>1, FS_AddElement
  <2> QED  BY <1>4, <1>3, <2>2
<1>5. CASE x \notin kind
  <2>1. T = S
    BY <1>1, <1>5
  <2> HIDE DEF S, T
  <2> QED  BY <1>2, <1>5, <1>3, <2>1
<1> QED  BY <1>4, <1>5

(* ... and one less when the first one is taken.                           *)
LEMMA CountTail ==
  ASSUME NEW E, NEW q \in Seq(E), q # <<>>, NEW kind
  PROVE  Count(q, kind) = Count(Tail(q), kind) + IF Head(q) \in kind THEN 1 ELSE 0
<1> DEFINE S == {i \in DOMAIN q : q[i] \in kind}
           R == S \ {1}
           T == {i \in DOMAIN Tail(q) : Tail(q)[i] \in kind}
           f == [i \in T |-> i + 1]
<1>1. /\ Head(q) = q[1] /\ Tail(q) \in Seq(E)
      /\ Len(q) \in Nat /\ Len(q) >= 1 /\ Len(Tail(q)) = Len(q) - 1
      /\ \A i \in 1..Len(Tail(q)) : i + 1 \in 1..Len(q) /\ Tail(q)[i] = q[i + 1]
      /\ DOMAIN q = 1..Len(q) /\ DOMAIN Tail(q) = 1..(Len(q) - 1)
  BY HeadAndTail
<1>2. IsFiniteSet(S) /\ IsFiniteSet(T) /\ Cardinality(S) \in Nat /\ Cardinality(T) \in Nat
  BY <1>1, CountTyped DEF Count
<1>3. f \in Bijection(T, R)
  <2>1. f \in [T -> R]
    BY <1>1
  <2>2. \A a, b \in T : f[a] = f[b] => a = b
    BY <1>1
  <2>3. \A y \in R : \E a \in T : f[a] = y
    <3> SUFFICES ASSUME NEW y \in R  PROVE \E a \in T : f[a] = y
      OBVIOUS
    <3>1. y - 1 \in T
      BY <1>1
    <3> QED  BY <3>1
  <2> QED  BY <2>1, <2>2, <2>3 DEF Bijection, Injection, Surjection, IsInjective
<1>4. Cardinality(R) = Cardinality(T)
  <2>1. ExistsBijection(T, R)
    BY <1>3 DEF ExistsBijection
  <2> HIDE DEF S, R, T, f
  <2> QED  BY <1>2, <2>1, FS_Bijection
<1>5. Cardinality(R) = IF 1 \in S THEN Cardinality(S) - 1 ELSE Cardinality(S)
  <2> HIDE DEF S
  <2> QED  BY <1>2, FS_RemoveElement
<1>6. 1 \in S <=> Head(q) \in kind
  BY <1>1
<1>7. Count(q, kind) = Cardinality(S) /\ Count(Tail(q), kind) = Cardinality(T)
  BY Zenon DEF Count
<1> HIDE DEF S, R, T
<1> QED  BY <1>2, <1>4, <1>5, <1>6, <1>7

(* No event of a kind is in the queue; the last one is good or, if there   *)
(* is none, things are already as they should be.                          *)
None(q, kind) == \A i \in 1..Len(q) : q[i] \notin kind
Settles(q, kind, good, now) ==
  \/ None(q, kind) /\ now
  \/ \E i \in 1..Len(q) : q[i] \in good /\ \A j \in (i + 1)..Len(q) : q[j] \notin kind

(* An event is posted.                                                     *)
LEMMA NoneAppended ==
  ASSUME NEW E, NEW q \in Seq(E), NEW x \in E, NEW kind
  PROVE  None(Append(q, x), kind) <=> None(q, kind) /\ x \notin kind
<1>1. \A i \in 1..(Len(q) + 1) : i \in 1..Len(q) \/ i = Len(q) + 1
  BY Appended
<1>2. Len(q) + 1 \in 1..(Len(q) + 1) /\ \A i \in 1..Len(q) : i \in 1..(Len(q) + 1)
  BY Appended
<1> QED  BY <1>1, <1>2, Appended DEF None

(* The posted event is good, or has nothing to do with it.                 *)
LEMMA SettlesAppended ==
  ASSUME NEW E, NEW q \in Seq(E), NEW x \in E, NEW kind, NEW good, NEW now,
         x \in good \/ (x \notin kind /\ Settles(q, kind, good, now))
  PROVE  Settles(Append(q, x), kind, good, now)
<1>1. /\ Len(q) \in Nat /\ Len(Append(q, x)) = Len(q) + 1
      /\ Append(q, x)[Len(q) + 1] = x /\ \A i \in 1..Len(q) : Append(q, x)[i] = q[i]
  BY Appended
<1>2. CASE x \in good
  <2>1. Len(q) + 1 \in 1..Len(Append(q, x)) /\ (Len(q) + 2)..Len(Append(q, x)) = {}
    BY <1>1
  <2> QED  BY <1>1, <1>2, <2>1 DEF Settles
<1>3. CASE x \notin kind /\ None(q, kind) /\ now
  BY <1>3, NoneAppended DEF Settles
<1>4. ASSUME x \notin kind, NEW i \in 1..Len(q), q[i] \in good,
             \A j \in (i + 1)..Len(q) : q[j] \notin kind
      PROVE  Settles(Append(q, x), kind, good, now)
  <2>1. i \in 1..Len(Append(q, x)) /\ Append(q, x)[i] \in good
    BY <1>1, <1>4
  <2>2. \A j \in (i + 1)..Len(Append(q, x)) : Append(q, x)[j] \notin kind
    BY <1>1, <1>4
  <2> QED  BY <2>1, <2>2 DEF Settles
<1> QED  BY <1>2, <1>3, <1>4 DEF Settles

(* The first event is handled: now becomes then.                           *)
LEMMA NoneTail ==
  ASSUME NEW E, NEW q \in Seq(E), q # <<>>, NEW kind
  PROVE  None(q, kind) <=> None(Tail(q), kind) /\ Head(q) \notin kind
<1>1. 1 \in 1..Len(q) /\ \A i \in 1..Len(q) : i = 1 \/ i - 1 \in 1..Len(Tail(q))
  BY HeadAndTail
<1>2. \A i \in 1..Len(q) : i = 1 \/ Tail(q)[i - 1] = q[i]
  BY <1>1, HeadAndTail
<1> QED  BY <1>1, <1>2, HeadAndTail DEF None

(* It settles what it settled, if handling does what it should.            *)
LEMMA SettlesTail ==
  ASSUME NEW E, NEW q \in Seq(E), q # <<>>, NEW kind, NEW good, NEW now, NEW then,
         Settles(q, kind, good, now),
         Head(q) \in good => then,
         Head(q) \notin kind /\ now => then
  PROVE  Settles(Tail(q), kind, good, then)
<1>1. CASE None(q, kind) /\ now
  BY <1>1, NoneTail DEF Settles
<1>2. ASSUME NEW i \in 1..Len(q), q[i] \in good, \A j \in (i + 1)..Len(q) : q[j] \notin kind
      PROVE  Settles(Tail(q), kind, good, then)
  <2>1. CASE i = 1
    <3>1. None(Tail(q), kind)
      BY <1>2, <2>1, HeadAndTail DEF None
    <3>2. then
      BY <1>2, <2>1, HeadAndTail
    <3> QED  BY <3>1, <3>2 DEF Settles
  <2>2. CASE i # 1
    <3>1. i - 1 \in 1..Len(Tail(q)) /\ Tail(q)[i - 1] = q[i]
      BY <2>2, HeadAndTail
    <3>2. ASSUME NEW j \in i..Len(Tail(q))  PROVE Tail(q)[j] \notin kind
      <4>1. j \in 1..Len(Tail(q)) /\ j + 1 \in (i + 1)..Len(q)
        BY HeadAndTail
      <4> QED  BY <1>2, <4>1, HeadAndTail
    <3> QED  BY <1>2, <3>1, <3>2 DEF Settles
  <2> QED  BY <2>1, <2>2
<1> QED  BY <1>1, <1>2 DEF Settles

(***************************************************************************)
(* Events and calls                                                        *)
(***************************************************************************)
(* The fields of the events and calls.                                     *)
LEMMA EventTyped ==
  ASSUME NEW e \in Event
  PROVE  /\ e.kind \in {"owner", "list", "prepared", "properties", "changed"}
         /\ e.kind = "owner" => e.old \in BOOLEAN /\ e.new \in BOOLEAN
         /\ e.kind = "list" => e.tids \in Version
         /\ e.kind = "properties" =>
              /\ e.iface \in Interface /\ e.values # <<>>
              /\ e.iface = "daemon" => e.values[1] \in Version
              /\ e.iface = "offline" => e.values[1] \in ActionString
         /\ e.kind = "changed" =>
              /\ e.iface \in Interface /\ e.to \in Interface
              /\ e.values # <<>> =>
                   /\ e.iface = "daemon" => e.values[1] \in Version
                   /\ e.iface = "offline" => e.values[1] \in ActionString
<1>1. CASE e \in Owner
  BY <1>1 DEF Owner
<1>2. CASE e \in Others
  BY <1>2 DEF Others
<1>3. ASSUME NEW i \in Interface, e \in Reply(i)
      PROVE  /\ e.kind = "properties" /\ e.iface = i /\ e.values # <<>>
             /\ i = "daemon" => e.values[1] \in Version
             /\ i = "offline" => e.values[1] \in ActionString
  BY <1>3 DEF Reply, Property
<1>4. ASSUME NEW i \in Interface, e \in Changed(i)
      PROVE  /\ e.kind = "changed" /\ e.iface = i /\ e.to \in Interface
             /\ e.values # <<>> =>
                  /\ i = "daemon" => e.values[1] \in Version
                  /\ i = "offline" => e.values[1] \in ActionString
  BY <1>4 DEF Changed, Property
<1> QED  BY <1>1, <1>2, <1>3, <1>4 DEF Event

(* The events that are posted.                                             *)
LEMMA Events ==
  /\ \A o, n \in BOOLEAN : [kind |-> "owner", old |-> o, new |-> n] \in Event
  /\ \A l \in Version : [kind |-> "list", tids |-> l] \in Event
  /\ [kind |-> "prepared"] \in Event
  /\ \A i \in Interface : \A v \in Property(i) :
       [kind |-> "properties", iface |-> i, values |-> <<v>>] \in Event
  /\ \A i, t \in Interface : \A vs \in {<<>>} \cup {<<v>> : v \in Property(i)} :
       [kind |-> "changed", to |-> t, iface |-> i, values |-> vs] \in Event
  BY DEF Event, Owner, Others, Reply, Changed

(* The calls that are made.                                                *)
LEMMA Calls ==
  /\ \A i \in Interface : GetAll(i) \in Call
  /\ \A s \in ActionString : \A a \in Action :
       [method |-> "Trigger", action |-> s, meant |-> a] \in Call
  /\ [method |-> "GetPrepared"] \in Call
  /\ getTransactionList \in Call
  BY DEF Call, GetAll, getTransactionList

(* A call is told by its method.                                           *)
LEMMA CallTyped ==
  ASSUME NEW c \in Call
  PROVE  /\ c.method \in {"GetAll", "Trigger", "GetPrepared", "GetTransactionList"}
         /\ c.method = "GetAll" => c.iface \in Interface /\ c = GetAll(c.iface)
         /\ c.method = "Trigger" => c.action \in ActionString /\ c.meant \in Action
         /\ c.method = "GetPrepared" => c = [method |-> "GetPrepared"]
         /\ c.method = "GetTransactionList" => c = getTransactionList
  BY DEF Call, GetAll, getTransactionList

(* The strings of the bus and the actions they stand for.                  *)
LEMMA Actions ==
  /\ Parsed("unset") = "ActionUnset" /\ Parsed("reboot") = "ActionReboot"
  /\ Parsed("power-off") = "ActionPowerOff"
  /\ \A s \in ActionString : Parsed(s) \in Action
  /\ \A a \in Action : /\ actionStr(a) \in ActionString
                       /\ a # "ActionUnset" => Parsed(actionStr(a)) = a
<1>1. /\ Parsed("unset") = "ActionUnset" /\ Parsed("reboot") = "ActionReboot"
      /\ Parsed("power-off") = "ActionPowerOff"
  BY DEF Parsed
<1> QED  BY <1>1 DEF ActionString, Action, actionStr

(***************************************************************************)
(* Types                                                                   *)
(***************************************************************************)
(* The counters of the environment bound what it numbers.                  *)
Bounded ==
  /\ value["daemon"] <= 1 + history.ownerChanges + history.events
  /\ list <= history.events
  /\ app.asked <= history.events
  /\ history.losses <= history.ownerChanges

TypeInv == TypeOK /\ Bounded

(* The fields of the records.                                              *)
LEMMA Fields ==
  ASSUME TypeOK
  PROVE  /\ value["daemon"] \in Version /\ value["offline"] \in ActionString
         /\ cache["daemon"] \in Version /\ cache["offline"] \in Action
         /\ seen["daemon"] \in Version /\ seen["offline"] \in Action
         /\ history.losses \in Nat /\ history.ownerChanges \in Nat /\ history.events \in Nat
         /\ history.ownerChanges <= MaxOwnerChanges /\ history.events <= MaxEvents
         /\ history.meant \in Action
         /\ history.gap \in [Interface -> {"none", "withheld", "missed"}]
         /\ app.asked \in Nat /\ app.prepared \in Nat /\ app.list \in Version
         /\ app.listening \in BOOLEAN /\ app.informed \in BOOLEAN
         /\ MaxOwnerChanges \in Nat /\ MaxEvents \in Nat
         /\ list \in Nat
  BY BoundsAssumption DEF TypeOK, Values, Cached, History, App, Version

(* An event is handled, and what it carries has its type.                  *)
LEMMA Handled ==
  ASSUME TypeOK, NEW k, Handling(k)
  PROVE  /\ Head(queue) \in Event /\ Tail(queue) \in Seq(Event)
         /\ queue # <<>> /\ Head(queue).kind = k /\ stage = "ready"
  BY HeadAndTail DEF TypeOK, Handling

(* The list is told or not.                                                *)
LEMMA ToldTyped ==
  ASSUME TypeOK, NEW tids \in Version
  PROVE  /\ Told(tids) \in App
         /\ Told(tids).asked = app.asked /\ Told(tids).prepared = app.prepared
         /\ Told(tids).listening = app.listening /\ Told(tids).informed = app.informed
         /\ Told(tids).list = IF app.listening THEN tids ELSE app.list
<1>1. CASE app.listening
  BY <1>1 DEF Told, TypeOK, App
<1>2. CASE ~app.listening
  BY <1>2 DEF Told, TypeOK
<1> QED  BY <1>1, <1>2

(* A change of a property, as the objects that have subscribed are told.   *)
Notice(t, i, vs) == [kind |-> "changed", to |-> t, iface |-> i, values |-> vs]
Notified(i, vs) ==
  \/ stage = "none" /\ queue' = queue
  \/ stage = "watching" /\ queue' = Append(queue, Notice("offline", i, vs))
  \/ stage = "ready" /\ queue' = Append(Append(queue, Notice("offline", i, vs)),
                                        Notice("daemon", i, vs))

(* The subscribers of the model, spelled out.                              *)
LEMMA SubscribersTold ==
  ASSUME TypeOK, NEW i \in Interface, NEW vs \in {<<>>} \cup {<<v>> : v \in Property(i)},
         queue' = queue \o [n \in DOMAIN Subscribers |->
                     [kind |-> "changed", to |-> Subscribers[n], iface |-> i, values |-> vs]]
  PROVE  Notified(i, vs) /\ queue' \in Seq(Event)
<1> DEFINE o == Notice("offline", i, vs)
           d == Notice("daemon", i, vs)
           told == [n \in DOMAIN Subscribers |-> Notice(Subscribers[n], i, vs)]
<1>1. queue \in Seq(Event) /\ o \in Event /\ d \in Event /\ queue' = queue \o told
  BY Events DEF TypeOK, Notice, Interface
<1>2. CASE stage = "none"
  <2>1. told = <<>>
    BY <1>2 DEF Subscribers
  <2> QED  BY <1>1, <1>2, <2>1 DEF Notified
<1>3. CASE stage = "watching"
  <2>1. Subscribers = <<"offline">>
    BY <1>3 DEF Subscribers
  <2>2. told = <<o>>
    BY <2>1
  <2> HIDE DEF o, d, told
  <2>3. queue' = Append(queue, o) /\ queue' \in Seq(Event)
    BY <1>1, <2>2, Appended
  <2> QED  BY <1>3, <2>3 DEF Notified, o
<1>4. CASE stage = "ready"
  <2>1. Subscribers = <<"offline", "daemon">>
    BY <1>4 DEF Subscribers
  <2>2. told = <<o, d>>
    BY <2>1
  <2> HIDE DEF o, d, told
  <2>3. Append(queue, o) \in Seq(Event) /\ queue' = Append(Append(queue, o), d)
    BY <1>1, <2>2
  <2>4. queue' \in Seq(Event)
    <3>1. ASSUME NEW q \in Seq(Event)  PROVE Append(q, d) \in Seq(Event)
      BY <1>1
    <3> QED  BY <2>3, <3>1
  <2>5. Notified(i, vs)
    BY <1>4, <2>3, Zenon DEF Notified, o, d
  <2> QED  BY <2>4, <2>5
<1> QED  BY <1>2, <1>3, <1>4 DEF TypeOK

(* What a change leaves alone.                                             *)
LEMMA ChangeTyped ==
  ASSUME TypeOK, NEW i \in Interface, NEW v \in Property(i), NEW h \in History, Change(i, v, h)
  PROVE  /\ UNCHANGED <<stage, running, cache, seen, quits, app, lost, list, up>> /\ up
         /\ value' \in Values /\ value'[i] = v
         /\ \A j \in Interface \ {i} : value'[j] = value[j] /\ history'.gap[j] = h.gap[j]
         /\ history' \in History
         /\ history'.losses = h.losses /\ history'.ownerChanges = h.ownerChanges
         /\ history'.events = h.events /\ history'.meant = h.meant
         /\ queue' \in Seq(Event)
         /\ \E vs \in {<<v>>, <<>>} :
              /\ Notified(i, vs)
              /\ history'.gap[i] =
                   IF stage = "watching" /\ i = "daemon"
                     THEN IF Asked(i) THEN h.gap[i] ELSE "missed"
                     ELSE IF stage # "none" /\ vs = <<>> THEN "withheld" ELSE "none"
              /\ history'.sent = IF stage = "ready" /\ i = "daemon" /\ vs # <<>> THEN v ELSE h.sent
<1>1. PICK vs \in {<<v>>, <<>>} :
        /\ queue' = queue \o [n \in DOMAIN Subscribers |->
                     [kind |-> "changed", to |-> Subscribers[n], iface |-> i, values |-> vs]]
        /\ history' = [h EXCEPT !.gap[i] =
             IF stage = "watching" /\ i = "daemon" THEN IF Asked(i) THEN @ ELSE "missed"
             ELSE IF stage # "none" /\ vs = <<>> THEN "withheld" ELSE "none",
                            !.sent = IF stage = "ready" /\ i = "daemon" /\ vs # <<>> THEN v ELSE @]
  BY Zenon DEF Change
<1>2. Notified(i, vs) /\ queue' \in Seq(Event)
  BY <1>1, SubscribersTold
<1> DEFINE g == IF stage = "watching" /\ i = "daemon"
                  THEN IF Asked(i) THEN h.gap[i] ELSE "missed"
                  ELSE IF stage # "none" /\ vs = <<>> THEN "withheld" ELSE "none"
           s == IF stage = "ready" /\ i = "daemon" /\ vs # <<>> THEN v ELSE h.sent
<1>3. g \in {"none", "withheld", "missed"} /\ s \in Version
  BY DEF History, Property
<1>4. history' = [h EXCEPT !.gap[i] = g, !.sent = s]
  BY <1>1
<1> HIDE DEF g, s
<1>5. /\ history' \in History
      /\ history'.losses = h.losses /\ history'.ownerChanges = h.ownerChanges
      /\ history'.events = h.events /\ history'.meant = h.meant
      /\ history'.gap[i] = g /\ \A j \in Interface \ {i} : history'.gap[j] = h.gap[j]
      /\ history'.sent = s
  BY <1>3, <1>4 DEF History, Interface
<1>6. /\ value' \in Values /\ value'[i] = v
      /\ \A j \in Interface \ {i} : value'[j] = value[j]
  BY DEF Change, TypeOK, Values, Interface, Property
<1>7. UNCHANGED <<stage, running, cache, seen, quits, app, lost, list, up>> /\ up
  BY DEF Change, client
<1>8. /\ Notified(i, vs)
      /\ history'.gap[i] =
           IF stage = "watching" /\ i = "daemon"
             THEN IF Asked(i) THEN h.gap[i] ELSE "missed"
             ELSE IF stage # "none" /\ vs = <<>> THEN "withheld" ELSE "none"
      /\ history'.sent = IF stage = "ready" /\ i = "daemon" /\ vs # <<>> THEN v ELSE h.sent
  BY <1>2, <1>5, Zenon DEF g, s
<1> QED  BY <1>2, <1>5, <1>6, <1>7, <1>8, Zenon

(* The owner of the bus name changes.                                      *)
OwnerEvent(old, new) == [kind |-> "owner", old |-> old, new |-> new]

(* What the change of owner leaves alone, and what it posts.               *)
LEMMA OwnerTyped ==
  ASSUME TypeOK, NEW old \in BOOLEAN, NEW new \in BOOLEAN, NEW h \in History,
         h.ownerChanges = history.ownerChanges, OwnerChange(old, new, h)
  PROVE  /\ UNCHANGED <<stage, running, cache, seen, quits, app, calls>>
         /\ up = old /\ up' = new /\ list' = EmptyList
         /\ queue' \in Seq(Event)
         /\ IF stage = "none" THEN queue' = queue ELSE queue' = Append(queue, OwnerEvent(old, new))
         /\ history' \in History
         /\ history'.losses = h.losses /\ history'.events = h.events /\ history'.meant = h.meant
         /\ history'.ownerChanges = history.ownerChanges + 1
         /\ \A i \in Interface : history'.gap[i] = IF new THEN "none" ELSE h.gap[i]
<1>1. OwnerEvent(old, new) \in Event /\ queue \in Seq(Event)
  BY Events DEF OwnerEvent, TypeOK
<1>2. /\ queue' \in Seq(Event)
      /\ IF stage = "none" THEN queue' = queue ELSE queue' = Append(queue, OwnerEvent(old, new))
  BY <1>1, Appended DEF OwnerChange, OwnerEvent
<1>3. h.ownerChanges + 1 \in 0..MaxOwnerChanges
  BY Fields DEF OwnerChange
<1>4. /\ history' \in History
      /\ history'.losses = h.losses /\ history'.events = h.events /\ history'.meant = h.meant
      /\ history'.ownerChanges = history.ownerChanges + 1
      /\ \A i \in Interface : history'.gap[i] = IF new THEN "none" ELSE h.gap[i]
  BY <1>3 DEF OwnerChange, History
<1> QED  BY <1>2, <1>4 DEF OwnerChange, client

(* A call of the application.                                              *)
LEMMA SendTyped ==
  ASSUME TypeInv, NEW c \in Call, NEW a \in App, Send(c, a),
         a.asked <= app.asked + 1
  PROVE  /\ TypeInv'
         /\ UNCHANGED <<stage, running, cache, seen, quits, queue, lost, value, list, up>>
         /\ stage = "ready" /\ app' = a /\ calls' = Append(calls, c)
         /\ UNCHANGED <<history.losses, history.meant, history.gap>>
<1>1. calls' \in Seq(Call) /\ Len(calls') = Len(calls) + 1 /\ Len(calls) \in Nat
      /\ calls' = Append(calls, c)
  BY Appended DEF Send, TypeInv, TypeOK
<1>2. /\ history' \in History /\ history'.events = history.events + 1
      /\ UNCHANGED <<history.losses, history.meant, history.gap, history.ownerChanges>>
  <2>1. history \in History /\ history.events + 1 \in 0..MaxEvents
    BY Fields DEF Send, MoreEvents, TypeInv, TypeOK
  <2> QED  BY <2>1 DEF Send, Counted, History
<1>3. TypeOK'
  BY <1>1, <1>2 DEF Send, TypeInv, TypeOK
<1>4. Bounded'
  <2>1. a.asked \in Nat
    BY DEF App
  <2>2. app'.asked <= history'.events
    BY <1>2, <2>1, Fields DEF Send, TypeInv, Bounded
  <2>3. value' = value /\ list' = list
    BY DEF Send
  <2>4. value["daemon"] \in Nat
    BY Fields DEF TypeInv, Version
  <2> QED  BY <1>2, <2>2, <2>3, <2>4, Fields DEF TypeInv, Bounded
<1> QED  BY <1>1, <1>2, <1>3, <1>4 DEF Send, TypeInv

(* What the client does keeps the types, ...                               *)
LEMMA ClientTyped ==
  ASSUME TypeInv, Client
  PROVE  TypeInv'
<1> USE DEF TypeInv
<1>1. CASE Construct
  <2>1. /\ getAllProperties \in Seq(Call) /\ Len(getAllProperties) = 2
        /\ calls \in Seq(Call) /\ lost \in 0..Len(calls)
    BY Calls DEF getAllProperties, Interface, TypeOK
  <2>2. calls' \in Seq(Call) /\ lost \in 0..Len(calls')
    BY <1>1, <2>1 DEF Construct
  <2> QED  BY <1>1, <2>2 DEF Construct, TypeOK, Bounded, external
<1>2. CASE Subscribe
  BY <1>2 DEF Subscribe, TypeOK, Bounded, external
<1>3. CASE OwnerChanged
  <2>1. Head(queue) \in Event /\ Tail(queue) \in Seq(Event) /\ Head(queue).kind = "owner"
    BY <1>3, Handled DEF OwnerChanged
  <2>2. Head(queue).new \in BOOLEAN
    BY <2>1, EventTyped
  <2>3. /\ getAllProperties \in Seq(Call) /\ Len(getAllProperties) = 2
        /\ calls \in Seq(Call) /\ lost \in 0..Len(calls)
    BY Calls DEF getAllProperties, Interface, TypeOK
  <2>4. calls \o getAllProperties \in Seq(Call) /\ lost \in 0..Len(calls \o getAllProperties)
    BY <2>3
  <2>5. EmptyList \in Version
    BY BoundsAssumption DEF EmptyList, Version
  <2>6. calls' \in Seq(Call) /\ lost \in 0..Len(calls') /\ app' \in App /\ app'.asked = app.asked
    BY <1>3, <2>3, <2>4, <2>5, ToldTyped DEF OwnerChanged, OwnerFound, TypeOK
  <2>7. quits' \in Nat
    BY <1>3 DEF OwnerChanged, TypeOK
  <2> QED  BY <1>3, <2>1, <2>2, <2>6, <2>7 DEF OwnerChanged, TypeOK, Bounded, external
<1>4. CASE UpdateProperties
  <2>1. Head(queue) \in Event /\ Tail(queue) \in Seq(Event) /\ Head(queue).kind = "properties"
    BY <1>4, Handled DEF UpdateProperties
  <2>2. Head(queue).values[1] \in Version
    BY <1>4, <2>1, EventTyped DEF UpdateProperties
  <2>3. cache' \in Cached /\ seen' \in Cached
    BY <1>4, <2>2 DEF UpdateProperties, Store, TypeOK, Cached
  <2> QED  BY <1>4, <2>1, <2>3 DEF UpdateProperties, TypeOK, Bounded, external
<1>5. CASE InitializeProperties
  <2>1. Head(queue) \in Event /\ Tail(queue) \in Seq(Event) /\ Head(queue).kind = "properties"
    BY <1>5, Handled DEF InitializeProperties
  <2>2. Parsed(Head(queue).values[1]) \in Action
    BY <1>5, <2>1, EventTyped, Actions DEF InitializeProperties
  <2>3. cache' \in Cached
    BY <1>5, <2>2 DEF InitializeProperties, TypeOK, Cached
  <2> QED  BY <1>5, <2>1, <2>3 DEF InitializeProperties, TypeOK, Bounded, external
<1>6. CASE DaemonPropertiesChanged
  <2>1. Head(queue) \in Event /\ Tail(queue) \in Seq(Event) /\ Head(queue).kind = "changed"
    BY <1>6, Handled DEF DaemonPropertiesChanged
  <2>2. Head(queue).values # <<>> => Head(queue).values[1] \in Version
    BY <1>6, <2>1, EventTyped DEF DaemonPropertiesChanged
  <2>3. cache' \in Cached /\ seen' \in Cached
    BY <1>6, <2>2 DEF DaemonPropertiesChanged, Store, TypeOK, Cached
  <2> QED  BY <1>6, <2>1, <2>3 DEF DaemonPropertiesChanged, TypeOK, Bounded, external
<1>7. CASE OfflinePropertiesChanged
  <2>1. Head(queue) \in Event /\ Tail(queue) \in Seq(Event) /\ Head(queue).kind = "changed"
    BY <1>7, Handled DEF OfflinePropertiesChanged
  <2>2. updatedAction(Head(queue).values) \in Action
    BY <1>7, <2>1, EventTyped, Actions DEF OfflinePropertiesChanged, updatedAction, Action
  <2>3. cache' \in Cached /\ seen' \in Cached
    BY <1>7, <2>2 DEF OfflinePropertiesChanged, Store, TypeOK, Cached
  <2> QED  BY <1>7, <2>1, <2>3 DEF OfflinePropertiesChanged, TypeOK, Bounded, external
<1>8. CASE OfflineIgnores
  <2>1. Tail(queue) \in Seq(Event)
    BY <1>8, Handled DEF OfflineIgnores
  <2> QED  BY <1>8, <2>1 DEF OfflineIgnores, TypeOK, Bounded, client, external
<1>9. CASE ListTold
  <2>1. Head(queue) \in Event /\ Tail(queue) \in Seq(Event) /\ Head(queue).kind = "list"
    BY <1>9, Handled DEF ListTold
  <2>2. Told(Head(queue).tids) \in App /\ Told(Head(queue).tids).asked = app.asked
    BY <2>1, EventTyped, ToldTyped
  <2>3. app' \in App /\ app'.asked = app.asked
    BY <1>9, <2>2 DEF ListTold, App
  <2> QED  BY <1>9, <2>1, <2>3 DEF ListTold, TypeOK, Bounded, external
<1>10. CASE PreparedUpdates
  <2>1. Tail(queue) \in Seq(Event)
    BY <1>10, Handled DEF PreparedUpdates
  <2>2. app' \in App /\ app'.asked = app.asked
    BY <1>10 DEF PreparedUpdates, TypeOK, App
  <2> QED  BY <1>10, <2>1, <2>2 DEF PreparedUpdates, TypeOK, Bounded, external
<1> QED  BY <1>1, <1>2, <1>3, <1>4, <1>5, <1>6, <1>7, <1>8, <1>9, <1>10 DEF Client

(* ... so does the application, ...                                        *)
LEMMA ApplicationTyped ==
  ASSUME TypeInv, Application
  PROVE  TypeInv'
<1>1. app \in App /\ app.asked \in Nat /\ app.asked <= history.events
  BY Fields DEF TypeInv, TypeOK, Bounded
<1>2. CASE FollowList
  <2> DEFINE a == [app EXCEPT !.listening = TRUE]
  <2>1. a \in App /\ a.asked = app.asked /\ Send(getTransactionList, a)
    BY <1>1, <1>2 DEF App, FollowList
  <2> HIDE DEF a
  <2>2. a.asked <= app.asked + 1
    BY <1>1, <2>1
  <2> QED  BY <2>1, <2>2, Calls, SendTyped
<1>3. CASE GetPrepared
  <2>1. app.asked + 1 \in 0..MaxEvents
    BY <1>1, <1>3, Fields DEF GetPrepared, Send, MoreEvents, TypeInv
  <2> DEFINE a == [app EXCEPT !.asked = @ + 1]
  <2>2. a \in App /\ a.asked = app.asked + 1 /\ Send([method |-> "GetPrepared"], a)
    BY <1>1, <1>3, <2>1 DEF App, GetPrepared
  <2> HIDE DEF a
  <2>3. a.asked <= app.asked + 1
    BY <1>1, <2>2
  <2> QED  BY <2>2, <2>3, Calls, SendTyped
<1>4. CASE Cancel
  <2>1. [method |-> "Trigger", action |-> "unset", meant |-> "ActionUnset"] \in Call
    BY Calls DEF ActionString, Action
  <2> QED  BY <1>1, <1>4, <2>1, SendTyped DEF Cancel
<1>5. ASSUME NEW a \in Action, Trigger(a)
      PROVE  TypeInv'
  <2>1. [method |-> "Trigger", action |-> actionStr(a), meant |-> a] \in Call
    BY Calls, Actions
  <2> QED  BY <1>1, <1>5, <2>1, SendTyped DEF Trigger
<1> QED  BY <1>2, <1>3, <1>4, <1>5 DEF Application

(* ... so do the answers, ...                                              *)
LEMMA AnswerTyped ==
  ASSUME TypeInv, Answer
  PROVE  TypeInv'
<1> USE DEF TypeInv
<1>1. calls # <<>> /\ calls \in Seq(Call) /\ calls' = Tail(calls)
  BY DEF Answer, AnswerGetAll, AnswerList, AnswerPrepared, AnswerTrigger, RefuseTrigger,
         FailCall, Serving, TypeOK
<1>2. /\ Head(calls) \in Call /\ calls' \in Seq(Call) /\ Len(calls') = Len(calls) - 1
      /\ Len(calls) \in Nat /\ Len(calls) >= 1
  BY <1>1, HeadAndTail
<1>3. lost' \in 0..Len(calls')
  <2>1. lost \in 0..Len(calls)
    BY DEF TypeOK
  <2>2. CASE FailCall
    BY <1>2, <2>1, <2>2 DEF FailCall
  <2>3. CASE ~FailCall
    <3>1. lost = 0 /\ lost' = lost
      BY <2>3 DEF Answer, AnswerGetAll, AnswerList, AnswerPrepared, AnswerTrigger,
                  RefuseTrigger, Serving, Change, external
    <3> QED  BY <1>2, <3>1
  <2> QED  BY <2>2, <2>3
<1>4. CASE AnswerGetAll
  <2> DEFINE i == Head(calls).iface
             e == [kind |-> "properties", iface |-> i, values |-> <<value[i]>>]
             s == IF i = "daemon" THEN value[i] ELSE history.sent
  <2>1. i \in Interface
    BY <1>2, <1>4, CallTyped DEF AnswerGetAll, Serving
  <2>2. value[i] \in Property(i)
    BY <2>1, Fields DEF Interface, Property
  <2>3. e \in Event
    BY <2>1, <2>2, Events
  <2>4. queue' = Append(queue, e) /\ history' = [history EXCEPT !.gap[i] = "none", !.sent = s]
    BY <1>4 DEF AnswerGetAll
  <2>7. s \in Version
    BY <2>2 DEF TypeOK, History, Property
  <2> HIDE DEF e, i, s
  <2>5. queue' \in Seq(Event)
    BY <2>3, <2>4 DEF TypeOK
  <2>6. /\ history' \in History /\ history'.losses = history.losses
        /\ history'.ownerChanges = history.ownerChanges /\ history'.events = history.events
    BY <2>1, <2>4, <2>7 DEF TypeOK, History
  <2> QED  BY <1>2, <1>3, <1>4, <2>5, <2>6 DEF AnswerGetAll, TypeOK, Bounded, client
<1>5. CASE AnswerList
  <2>1. list \in Version
    BY DEF TypeOK
  <2>2. queue' \in Seq(Event)
    BY <1>5, <2>1, Events DEF AnswerList, TypeOK
  <2> QED  BY <1>2, <1>3, <1>5, <2>2 DEF AnswerList, TypeOK, Bounded, client, external
<1>6. CASE AnswerPrepared
  <2>1. queue' \in Seq(Event)
    BY <1>6, Events DEF AnswerPrepared, TypeOK
  <2> QED  BY <1>2, <1>3, <1>6, <2>1 DEF AnswerPrepared, TypeOK, Bounded, client, external
<1>7. CASE AnswerTrigger
  <2> DEFINE h == [history EXCEPT !.meant = Head(calls).meant]
  <2>1. Head(calls).action \in Property("offline") /\ Head(calls).meant \in Action
    BY <1>2, <1>7, CallTyped DEF AnswerTrigger, Serving, Property
  <2>2. /\ h \in History /\ h.losses = history.losses
        /\ h.ownerChanges = history.ownerChanges /\ h.events = history.events
    BY <2>1 DEF TypeOK, History
  <2>3. Change("offline", Head(calls).action, h)
    BY <1>7 DEF AnswerTrigger
  <2> HIDE DEF h
  <2>4. /\ UNCHANGED <<stage, running, cache, seen, quits, app, list, up>>
        /\ value' \in Values /\ value'["daemon"] = value["daemon"]
        /\ history' \in History /\ history'.losses = h.losses
        /\ history'.ownerChanges = h.ownerChanges /\ history'.events = h.events
        /\ queue' \in Seq(Event)
    BY <2>1, <2>2, <2>3, ChangeTyped DEF Interface
  <2> QED  BY <1>2, <1>3, <2>2, <2>4 DEF TypeOK, Bounded
<1>8. CASE RefuseTrigger
  BY <1>2, <1>3, <1>8 DEF RefuseTrigger, TypeOK, Bounded, client, external
<1>9. CASE FailCall
  <2>1. queue' \in Seq(Event)
    BY <1>9, Events DEF FailCall, FailureTold, TypeOK
  <2>2. /\ history' \in History /\ history'.losses = history.losses
        /\ history'.ownerChanges = history.ownerChanges /\ history'.events = history.events
    <3>1. CASE lost = 0 /\ up /\ Head(calls).method = "GetAll"
      <4>1. Head(calls).iface \in Interface
        BY <1>2, <3>1, CallTyped
      <4> QED  BY <1>9, <3>1, <4>1 DEF FailCall, TypeOK, History
    <3>2. CASE ~(lost = 0 /\ up /\ Head(calls).method = "GetAll")
      BY <1>9, <3>2 DEF FailCall, TypeOK
    <3> QED  BY <3>1, <3>2
  <2> QED  BY <1>2, <1>3, <1>9, <2>1, <2>2 DEF FailCall, TypeOK, Bounded, client
<1> QED  BY <1>4, <1>5, <1>6, <1>7, <1>8, <1>9 DEF Answer

(* The bounds of what the environment numbers.                             *)
LEMMA VersionBound ==
  ASSUME NEW v \in Nat, NEW o \in Nat, NEW n \in Nat, v <= 1 + o + n
  PROVE  /\ o <= MaxOwnerChanges /\ n < MaxEvents => v + 1 \in Version
         /\ o < MaxOwnerChanges /\ n <= MaxEvents => v + 1 \in Version
         /\ v + 1 <= 1 + o + (n + 1) /\ v + 1 <= 1 + (o + 1) + n
         /\ v <= 1 + o + (n + 1) /\ v <= 1 + (o + 1) + n
  BY BoundsAssumption DEF Version

(* ... and what happens inside the daemon and to it.                       *)
LEMMA ServiceTyped ==
  ASSUME TypeInv, Service
  PROVE  TypeInv'
<1> USE DEF TypeInv
<1>1. /\ history \in History /\ value["daemon"] \in Nat
      /\ calls \in Seq(Call) /\ Len(calls) \in Nat /\ lost \in 0..Len(calls)
  BY Fields DEF TypeOK, Version
<1>2. ASSUME MoreEvents
      PROVE  /\ Counted \in History /\ Counted.losses = history.losses
             /\ Counted.ownerChanges = history.ownerChanges
             /\ Counted.events = history.events + 1 /\ Counted.events \in 0..MaxEvents
  <2>1. history.events + 1 \in 0..MaxEvents
    BY <1>2, Fields DEF MoreEvents
  <2> QED  BY <1>1, <2>1 DEF Counted, History
<1>3. CASE ChangeDaemon
  <2>1. value["daemon"] + 1 \in Property("daemon")
    <3>1. history.events < MaxEvents
      BY <1>3 DEF ChangeDaemon, MoreEvents
    <3>2. value["daemon"] <= 1 + history.ownerChanges + history.events
      BY DEF Bounded
    <3>3. value["daemon"] + 1 \in Version
      BY <1>1, <3>1, <3>2, Fields, VersionBound
    <3> QED  BY <3>3 DEF Property
  <2>2. /\ UNCHANGED <<stage, running, cache, seen, quits, app, lost, list, up>>
        /\ value' \in Values /\ value'["daemon"] = value["daemon"] + 1
        /\ history' \in History /\ history'.losses = Counted.losses
        /\ history'.ownerChanges = Counted.ownerChanges /\ history'.events = Counted.events
        /\ queue' \in Seq(Event)
    BY <1>2, <1>3, <2>1, ChangeTyped DEF ChangeDaemon, Interface
  <2>3. MoreEvents /\ calls' = calls
    BY <1>3 DEF ChangeDaemon
  <2>4. TypeOK'
    BY <2>2, <2>3 DEF TypeOK
  <2>5. Bounded'
    <3>1. /\ history'.losses = history.losses /\ history'.ownerChanges = history.ownerChanges
          /\ history'.events = history.events + 1 /\ list' = list /\ app' = app
      BY <1>2, <2>2, <2>3
    <3>2. value'["daemon"] <= 1 + history'.ownerChanges + history'.events
      BY <1>1, <2>2, <3>1, Fields, VersionBound DEF Bounded
    <3> QED  BY <3>1, <3>2, Fields DEF Bounded
  <2> QED  BY <2>4, <2>5
<1>4. CASE ChangeOffline
  <2> DEFINE h == [Counted EXCEPT !.meant = "ActionPowerOff"]
  <2>1. MoreEvents /\ calls' = calls /\ Change("offline", "power-off", h)
    BY <1>4 DEF ChangeOffline
  <2>2. /\ h \in History /\ h.losses = history.losses
        /\ h.ownerChanges = history.ownerChanges /\ h.events = history.events + 1
    BY <1>2, <2>1 DEF History, Action
  <2>3. "power-off" \in Property("offline")
    BY DEF Property, ActionString
  <2> HIDE DEF h
  <2>4. /\ UNCHANGED <<stage, running, cache, seen, quits, app, lost, list, up>>
        /\ value' \in Values /\ value'["daemon"] = value["daemon"]
        /\ history' \in History /\ history'.losses = h.losses
        /\ history'.ownerChanges = h.ownerChanges /\ history'.events = h.events
        /\ queue' \in Seq(Event)
    BY <2>1, <2>2, <2>3, ChangeTyped DEF Interface
  <2>5. TypeOK'
    BY <2>1, <2>4 DEF TypeOK
  <2>6. Bounded'
    <3>1. /\ history'.losses = history.losses /\ history'.ownerChanges = history.ownerChanges
          /\ history'.events = history.events + 1 /\ list' = list /\ app' = app
      BY <2>2, <2>4
    <3>2. value'["daemon"] <= 1 + history'.ownerChanges + history'.events
      <4>1. value["daemon"] <= 1 + history.ownerChanges + history.events
        BY DEF Bounded
      <4> QED  BY <1>1, <2>4, <3>1, <4>1, Fields, VersionBound
    <3>3. list <= history.events + 1 /\ app.asked <= history.events + 1
      BY Fields DEF Bounded
    <3>4. history.losses <= history.ownerChanges
      BY DEF Bounded
    <3> QED  BY <3>1, <3>2, <3>3, <3>4 DEF Bounded
  <2> QED  BY <2>5, <2>6
<1>5. CASE ChangeList
  <2>1. MoreEvents /\ history' = Counted /\ list' = history.events + 1
    BY <1>5 DEF ChangeList
  <2>2. list' \in Version
    BY <1>2, <2>1, Fields DEF Version
  <2>3. queue' \in Seq(Event)
    BY <1>5, <2>2, Events DEF ChangeList, TypeOK
  <2>4. TypeOK'
    BY <1>2, <1>5, <2>1, <2>2, <2>3 DEF ChangeList, client, TypeOK
  <2>5. Bounded'
    <3>1. /\ history'.losses = history.losses /\ history'.ownerChanges = history.ownerChanges
          /\ history'.events = history.events + 1 /\ value' = value /\ app' = app
      BY <1>2, <1>5, <2>1 DEF ChangeList, client
    <3>2. value["daemon"] <= 1 + history.ownerChanges + (history.events + 1)
      <4>1. value["daemon"] <= 1 + history.ownerChanges + history.events
        BY DEF Bounded
      <4> QED  BY <1>1, <4>1, Fields, VersionBound
    <3>3. list' <= history.events + 1 /\ app.asked <= history.events + 1
      BY <2>1, Fields DEF Bounded
    <3>4. history.losses <= history.ownerChanges
      BY DEF Bounded
    <3> QED  BY <3>1, <3>2, <3>3, <3>4 DEF Bounded
  <2> QED  BY <2>4, <2>5
<1>6. CASE LoseOwner
  <2> DEFINE h == [history EXCEPT !.losses = @ + IF stage = "none" THEN 0 ELSE 1]
  <2>1. PICK new \in BOOLEAN :
          /\ OwnerChange(TRUE, new, h)
          /\ value' = [value EXCEPT !.daemon = IF new THEN @ + 1 ELSE @]
    BY <1>6 DEF LoseOwner
  <2>2. history.ownerChanges + 1 <= MaxOwnerChanges
    BY <2>1, Fields DEF OwnerChange
  <2>3. history.losses + (IF stage = "none" THEN 0 ELSE 1) \in 0..MaxOwnerChanges
    BY <2>2, Fields DEF Bounded
  <2>4. /\ h \in History /\ h.ownerChanges = history.ownerChanges /\ h.events = history.events
        /\ h.losses \in Nat /\ h.losses <= history.losses + 1
    BY <1>1, <2>3, Fields DEF History
  <2> HIDE DEF h
  <2>5. /\ UNCHANGED <<stage, running, cache, seen, quits, app, calls>>
        /\ up' = new /\ list' = EmptyList /\ queue' \in Seq(Event)
        /\ history' \in History /\ history'.losses = h.losses /\ history'.events = h.events
        /\ history'.ownerChanges = history.ownerChanges + 1
    BY <2>1, <2>4, OwnerTyped
  <2>6. value["daemon"] + 1 \in Version
    <3>1. value["daemon"] <= 1 + history.ownerChanges + history.events
      BY DEF Bounded
    <3> QED  BY <1>1, <2>2, <3>1, Fields, VersionBound
  <2>7. /\ value' \in Values
        /\ value'["daemon"] \in Nat /\ value'["daemon"] <= value["daemon"] + 1
    BY <1>1, <2>1, <2>6 DEF TypeOK, Values, Version
  <2>8. lost' \in 0..Len(calls)
    BY <1>1, <1>6 DEF LoseOwner
  <2>9. TypeOK'
    BY <2>5, <2>7, <2>8, Fields DEF TypeOK, EmptyList, Version
  <2>10. Bounded'
    <3>1. /\ history'.losses <= history.losses + 1 /\ history'.events = history.events
          /\ list' = 0 /\ app' = app /\ history'.losses \in Nat
      BY <2>4, <2>5 DEF EmptyList
    <3>2. value'["daemon"] <= 1 + history'.ownerChanges + history'.events
      <4> DEFINE bound == 1 + history'.ownerChanges + history'.events
      <4>1. value["daemon"] + 1 <= bound /\ bound \in Nat
        <5>1. value["daemon"] <= 1 + history.ownerChanges + history.events
          BY DEF Bounded
        <5>2. value["daemon"] + 1 <= 1 + (history.ownerChanges + 1) + history.events
          BY <1>1, <5>1, Fields, VersionBound
        <5>3. history'.ownerChanges = history.ownerChanges + 1 /\ history'.events = history.events
          BY <2>5, <3>1
        <5> QED  BY <5>2, <5>3, Fields
      <4> HIDE DEF bound
      <4>2. value'["daemon"] <= bound
        BY <1>1, <2>7, <4>1
      <4> QED  BY <4>2 DEF bound
    <3> QED  BY <2>5, <3>1, <3>2, Fields DEF Bounded
  <2> QED  BY <2>9, <2>10
<1>7. CASE StartOwner
  <2>1. PICK a \in {[value |-> value.offline, meant |-> history.meant],
                    [value |-> "unset", meant |-> "ActionUnset"]} :
          /\ OwnerChange(FALSE, TRUE, [history EXCEPT !.meant = a.meant])
          /\ value' = [daemon |-> value.daemon + 1, offline |-> a.value]
    BY <1>7 DEF StartOwner
  <2>2. a.value \in ActionString /\ a.meant \in Action
    BY Fields DEF ActionString, Action
  <2> DEFINE h == [history EXCEPT !.meant = a.meant]
  <2>3. /\ h \in History /\ h.ownerChanges = history.ownerChanges /\ h.events = history.events
        /\ h.losses = history.losses
    BY <1>1, <2>2 DEF History
  <2>4. OwnerChange(FALSE, TRUE, h) /\ history.ownerChanges + 1 <= MaxOwnerChanges
    BY <2>1, Fields DEF OwnerChange
  <2> HIDE DEF h
  <2>5. /\ UNCHANGED <<stage, running, cache, seen, quits, app, calls>>
        /\ up' = TRUE /\ list' = EmptyList /\ queue' \in Seq(Event)
        /\ history' \in History /\ history'.losses = h.losses /\ history'.events = h.events
        /\ history'.ownerChanges = history.ownerChanges + 1
    BY <2>3, <2>4, OwnerTyped
  <2>6. /\ value["daemon"] + 1 \in Version
        /\ value["daemon"] + 1 <= 1 + (history.ownerChanges + 1) + history.events
    <3>1. value["daemon"] <= 1 + history.ownerChanges + history.events
      BY DEF Bounded
    <3>2. history.ownerChanges < MaxOwnerChanges
      BY <2>4, Fields
    <3> QED  BY <1>1, <3>1, <3>2, Fields, VersionBound
  <2>7. value' \in Values /\ value'["daemon"] = value["daemon"] + 1
    BY <2>1, <2>2, <2>6 DEF Values
  <2>8. lost' = lost
    BY <1>7 DEF StartOwner
  <2>9. TypeOK'
    BY <1>1, <2>5, <2>7, <2>8, Fields DEF TypeOK, EmptyList, Version
  <2>10. Bounded'
    <3>1. /\ history'.losses = history.losses /\ history'.events = history.events
          /\ list' = 0 /\ app' = app
      BY <2>3, <2>5 DEF EmptyList
    <3>2. value'["daemon"] <= 1 + history'.ownerChanges + history'.events
      BY <2>5, <2>6, <2>7, <3>1
    <3>3. history.losses <= history.ownerChanges + 1 /\ 0 <= history.events
      BY Fields DEF Bounded
    <3>4. app.asked <= history.events
      BY DEF Bounded
    <3> QED  BY <2>5, <3>1, <3>2, <3>3, <3>4 DEF Bounded
  <2> QED  BY <2>9, <2>10
<1> QED  BY <1>3, <1>4, <1>5, <1>6, <1>7 DEF Service

(* The types hold at first.                                                *)
LEMMA TypeInitial ==
  Init => TypeInv
<1> SUFFICES ASSUME Init  PROVE TypeInv
  OBVIOUS
<1>1. queue \in Seq(Event) /\ calls \in Seq(Call) /\ Len(calls) = 0
  BY DEF Init
<1>2. /\ cache \in Cached /\ seen \in Cached /\ value \in Values /\ list \in Version
      /\ app \in App
  BY BoundsAssumption DEF Init, Cached, Values, Version, Action, ActionString, App, EmptyList
<1>3. history \in History
  BY BoundsAssumption DEF Init, History, Action, Version
<1>4. Bounded
  BY BoundsAssumption DEF Init, Bounded, EmptyList
<1>5. lost \in 0..Len(calls)
  BY <1>1 DEF Init
<1> QED  BY <1>1, <1>2, <1>3, <1>4, <1>5 DEF Init, TypeInv, TypeOK

(* The types hold in every step.                                           *)
LEMMA TypeKept ==
  TypeInv /\ [Next]_vars => TypeInv'
<1> SUFFICES ASSUME TypeInv, [Next]_vars  PROVE TypeInv'
  OBVIOUS
<1>1. CASE UNCHANGED vars
  BY <1>1 DEF vars, TypeInv, TypeOK, Bounded
<1> QED  BY <1>1, ClientTyped, ApplicationTyped, AnswerTyped, ServiceTyped DEF Next

(* Every variable keeps its type: the client makes no call and the bus     *)
(* delivers no event of another form, and the counters keep their bounds.  *)
THEOREM TypeCorrect == Spec => []TypeOK
<1>1. TypeInv => TypeOK
  BY DEF TypeInv
<1> QED  BY <1>1, TypeInitial, TypeKept, PTL DEF Spec

(***************************************************************************)
(* What the client has is right or will be replaced                        *)
(***************************************************************************)
(* A call that the present daemon has yet to answer; a new daemon that the *)
(* client has yet to notice, and will then ask for its properties.         *)
Awaited(c) == \E n \in (lost + 1)..Len(calls) : calls[n] = c
Restarts == {e \in Owner : e.new}
Refetched(i) == stage = "none" \/ Awaited(GetAll(i)) \/ ~None(queue, Restarts)

(* The answers to getPrepared().                                           *)
Prepared == {[kind |-> "prepared"]}

(* The events that set running, those that set it to FALSE, the events     *)
(* that are stored in a cache, and those that bring a list.                *)
RunningSet == Owner \cup Reply("daemon") \cup {e \in Changed("daemon") : e.to = "daemon"}
Stopped == {e \in Owner : ~e.new}

DaemonStored == Reply("daemon")
                \cup {e \in Changed("daemon") : e.to = "daemon" /\ e.values # <<>>}
OfflineStored == Reply("offline") \cup Changed("offline")

Listed == [kind: {"list"}, tids: Version]
Tellings == Restarts \cup Listed
TidsThen(e) == IF e.kind = "list" THEN e.tids ELSE EmptyList

(* running ends up FALSE without a daemon, and TRUE with one unless it has *)
(* left GetAll without an answer.                                          *)
RunningInv ==
  /\ stage = "none" => queue = <<>> /\ calls = <<>> /\ ~running /\ ~app.listening
  /\ ~up => Settles(queue, RunningSet, Stopped, ~running)
  /\ up /\ history.gap["daemon"] # "missed" =>
       \/ stage = "none" \/ Awaited(GetAll("daemon"))
       \/ Settles(queue, RunningSet, RunningSet \ Stopped, running)

(* What the client has of the daemon's properties will be replaced or is   *)
(* what the daemon has.                                                    *)
DaemonInv ==
  /\ seen["daemon"] = cache["daemon"]
  /\ up /\ history.gap["daemon"] = "none" =>
       \/ Refetched("daemon")
       \/ Settles(queue, DaemonStored, {e \in DaemonStored : e.values[1] = value["daemon"]},
                  cache["daemon"] = value["daemon"])

(* The same for the Offline object: Wanted is the action of the daemon, or *)
(* the default if that was only invalidated.                               *)
Meant ==
  /\ Parsed(value["offline"]) = history.meant
  /\ \A n \in 1..Len(calls) :
       calls[n].method = "Trigger" => Parsed(calls[n].action) = calls[n].meant
Wanted == IF history.gap["offline"] = "none" THEN history.meant ELSE "ActionUnset"
OfflineInv ==
  up /\ history.gap["offline"] # "missed" =>
    \/ Refetched("offline")
    \/ Settles(queue, OfflineStored, {e \in OfflineStored : updatedAction(e.values) = Wanted},
               cache["offline"] = Wanted)

(* The application's list will be replaced or is the daemon's.             *)
Unfollowed ==
  /\ app.listening => stage = "ready"
  /\ ~app.listening => /\ ~app.informed
                       /\ None(queue, Listed)
                       /\ None(calls, {getTransactionList})
ListInv ==
  /\ Unfollowed
  /\ up /\ app.listening =>
       \/ Awaited(getTransactionList)
       \/ Settles(queue, Tellings, {e \in Tellings : TidsThen(e) = list},
                  app.informed => app.list = list)

(* The kinds of events in terms of their fields.                           *)
LEMMA EventKinds ==
  ASSUME NEW e \in Event
  PROVE  /\ e \in Owner <=> e.kind = "owner"
         /\ e \in Restarts <=> e.kind = "owner" /\ e.new
         /\ e \in Stopped <=> e.kind = "owner" /\ ~e.new
         /\ e \in RunningSet <=> \/ e.kind = "owner"
                                 \/ e.kind = "properties" /\ e.iface = "daemon"
                                 \/ e.kind = "changed" /\ e.iface = "daemon" /\ e.to = "daemon"
         /\ e \in DaemonStored <=> \/ e.kind = "properties" /\ e.iface = "daemon"
                                   \/ /\ e.kind = "changed" /\ e.iface = "daemon"
                                      /\ e.to = "daemon" /\ e.values # <<>>
         /\ e \in OfflineStored <=> \/ e.kind = "properties" /\ e.iface = "offline"
                                    \/ e.kind = "changed" /\ e.iface = "offline"
         /\ e \in Tellings <=> (e.kind = "owner" /\ e.new) \/ e.kind = "list"
         /\ e \in Listed <=> e.kind = "list"
         /\ e \in Prepared <=> e.kind = "prepared"
         /\ e \in Losses <=> e.kind = "owner" /\ (e.old \/ ~e.new)
<1>1. e \in Owner <=> e.kind = "owner"
  BY DEF Event, Owner, Others, Reply, Changed
<1>2. \A i \in Interface : e \in Reply(i) <=> e.kind = "properties" /\ e.iface = i
  BY DEF Event, Owner, Others, Reply, Changed
<1>3. \A i \in Interface : e \in Changed(i) <=> e.kind = "changed" /\ e.iface = i
  BY DEF Event, Owner, Others, Reply, Changed
<1>4. e \in Listed <=> e.kind = "list"
  BY DEF Event, Owner, Others, Reply, Changed, Listed
<1>8. e \in Prepared <=> e.kind = "prepared"
  BY DEF Event, Owner, Others, Reply, Changed, Prepared
<1>9. e \in Losses <=> e.kind = "owner" /\ (e.old \/ ~e.new)
  BY <1>1 DEF Losses
<1>5. "daemon" \in Interface /\ "offline" \in Interface
  BY DEF Interface
<1>6. e \in Restarts <=> e.kind = "owner" /\ e.new
  BY <1>1 DEF Restarts
<1>7. e \in Stopped <=> e.kind = "owner" /\ ~e.new
  BY <1>1 DEF Stopped
<1> QED  BY <1>1, <1>2, <1>3, <1>4, <1>5, <1>6, <1>7, <1>8, <1>9
         DEF RunningSet, DaemonStored, OfflineStored, Tellings

(* A step that changes nothing about the events of a kind.                 *)
Passes(kind) ==
  \/ queue' = queue
  \/ queue # <<>> /\ Head(queue) \notin kind /\ queue' = Tail(queue)
  \/ \E x \in Event : x \notin kind /\ queue' = Append(queue, x)
  \/ \E x, y \in Event : x \notin kind /\ y \notin kind /\ queue' = Append(Append(queue, x), y)

(* It settles nothing anew and unsettles nothing.                          *)
LEMMA Passed ==
  ASSUME TypeOK, NEW kind, NEW good, good \subseteq kind, NEW now, Passes(kind)
  PROVE  /\ Settles(queue, kind, good, now) => Settles(queue', kind, good, now)
         /\ None(queue', kind) <=> None(queue, kind)
<1>1. queue \in Seq(Event)
  BY DEF TypeOK
<1>2. CASE queue' = queue
  BY <1>2
<1>3. CASE queue # <<>> /\ Head(queue) \notin kind /\ queue' = Tail(queue)
  BY <1>1, <1>3, SettlesTail, NoneTail
<1>4. ASSUME NEW x \in Event, x \notin kind, queue' = Append(queue, x)
      PROVE  /\ Settles(queue, kind, good, now) => Settles(queue', kind, good, now)
             /\ None(queue', kind) <=> None(queue, kind)
  BY <1>1, <1>4, SettlesAppended, NoneAppended
<1>5. ASSUME NEW x \in Event, NEW y \in Event, x \notin kind, y \notin kind,
             queue' = Append(Append(queue, x), y)
      PROVE  /\ Settles(queue, kind, good, now) => Settles(queue', kind, good, now)
             /\ None(queue', kind) <=> None(queue, kind)
  <2> DEFINE q == Append(queue, x)
  <2>1. q \in Seq(Event) /\ queue' = Append(q, y)
    BY <1>1, <1>5, Appended
  <2>2. /\ Settles(queue, kind, good, now) => Settles(q, kind, good, now)
        /\ None(q, kind) <=> None(queue, kind)
    BY <1>1, <1>5, SettlesAppended, NoneAppended
  <2> HIDE DEF q
  <2> QED  BY <1>5, <2>1, <2>2, SettlesAppended, NoneAppended
<1> QED  BY <1>2, <1>3, <1>4, <1>5 DEF Passes

(* What passes a kind of events passes a smaller kind.                     *)
LEMMA PassesFewer ==
  ASSUME NEW kind, NEW fewer, fewer \subseteq kind, Passes(kind)
  PROVE  Passes(fewer)
  BY DEF Passes

(* Events that a step passes are counted as before.                        *)
LEMMA PassedCounted ==
  ASSUME TypeOK, NEW kind, Passes(kind)
  PROVE  Count(queue', kind) = Count(queue, kind)
<1>1. queue \in Seq(Event) /\ Count(queue, kind) \in Nat
  BY CountTyped DEF TypeOK
<1>2. CASE queue' = queue
  BY <1>2
<1>3. CASE queue # <<>> /\ Head(queue) \notin kind /\ queue' = Tail(queue)
  <2>1. Count(queue, kind) = Count(queue', kind) + 0 /\ queue' \in Seq(Event)
    BY <1>1, <1>3, CountTail, HeadAndTail
  <2>2. Count(queue', kind) \in Nat
    BY <2>1, CountTyped
  <2> QED  BY <2>1, <2>2
<1>4. ASSUME NEW x \in Event, x \notin kind, queue' = Append(queue, x)
      PROVE  Count(queue', kind) = Count(queue, kind)
  BY <1>1, <1>4, CountAppended
<1>5. ASSUME NEW x \in Event, NEW y \in Event, x \notin kind, y \notin kind,
             queue' = Append(Append(queue, x), y)
      PROVE  Count(queue', kind) = Count(queue, kind)
  <2> DEFINE q == Append(queue, x)
  <2>1. q \in Seq(Event) /\ queue' = Append(q, y)
    BY <1>1, <1>5, Appended
  <2>2. Count(q, kind) = Count(queue, kind)
    BY <1>1, <1>5, CountAppended
  <2> HIDE DEF q
  <2>3. Count(queue', kind) = Count(q, kind) + 0
    BY <1>5, <2>1, CountAppended
  <2> QED  BY <1>1, <2>2, <2>3
<1> QED  BY <1>2, <1>3, <1>4, <1>5 DEF Passes

(* A step whose last event is good.                                        *)
Lands(good) ==
  \/ \E x \in Event : x \in good /\ queue' = Append(queue, x)
  \/ \E x, y \in Event : y \in good /\ queue' = Append(Append(queue, x), y)

(* It settles things whatever went before.                                 *)
LEMMA Landed ==
  ASSUME TypeOK, NEW kind, NEW good, NEW now, Lands(good)
  PROVE  Settles(queue', kind, good, now)
<1>1. queue \in Seq(Event)
  BY DEF TypeOK
<1>2. ASSUME NEW x \in Event, x \in good, queue' = Append(queue, x)
      PROVE  Settles(queue', kind, good, now)
  BY <1>1, <1>2, SettlesAppended
<1>3. ASSUME NEW x \in Event, NEW y \in Event, y \in good, queue' = Append(Append(queue, x), y)
      PROVE  Settles(queue', kind, good, now)
  <2> DEFINE q == Append(queue, x)
  <2>1. q \in Seq(Event) /\ queue' = Append(q, y)
    BY <1>1, <1>3, Appended
  <2> HIDE DEF q
  <2> QED  BY <1>3, <2>1, SettlesAppended
<1> QED  BY <1>2, <1>3 DEF Lands

(* A call stays awaited when others follow it, ...                         *)
LEMMA AwaitedFollowed ==
  ASSUME TypeOK, NEW s \in Seq(Call), calls' = calls \o s, UNCHANGED lost, NEW c
  PROVE  /\ Awaited(c) => Awaited(c)'
         /\ (\E n \in 1..Len(s) : s[n] = c) => Awaited(c)'
<1>1. /\ calls \in Seq(Call) /\ Len(calls) \in Nat /\ lost \in 0..Len(calls)
      /\ Len(s) \in Nat /\ Len(calls') = Len(calls) + Len(s)
      /\ \A n \in 1..Len(calls) : calls'[n] = calls[n]
      /\ \A n \in 1..Len(s) : calls'[Len(calls) + n] = s[n]
  BY DEF TypeOK
<1>2. ASSUME NEW n \in (lost + 1)..Len(calls), calls[n] = c
      PROVE  Awaited(c)'
  <2>1. n \in (lost' + 1)..Len(calls') /\ calls'[n] = c
    BY <1>1, <1>2
  <2> QED  BY <2>1 DEF Awaited
<1>3. ASSUME NEW n \in 1..Len(s), s[n] = c
      PROVE  Awaited(c)'
  <2>1. Len(calls) + n \in (lost' + 1)..Len(calls') /\ calls'[Len(calls) + n] = c
    BY <1>1, <1>3
  <2> QED  BY <2>1 DEF Awaited
<1> QED  BY <1>2, <1>3 DEF Awaited

(* ... and when the one before it has been answered or has failed.         *)
LEMMA AwaitedNext ==
  ASSUME TypeOK, calls # <<>>, calls' = Tail(calls),
         lost' = IF lost > 0 THEN lost - 1 ELSE 0,
         NEW c, lost = 0 => Head(calls) # c, Awaited(c)
  PROVE  Awaited(c)'
<1>1. PICK n \in (lost + 1)..Len(calls) : calls[n] = c
  BY DEF Awaited
<1>2. /\ Head(calls) = calls[1] /\ Len(calls) \in Nat /\ lost \in 0..Len(calls)
      /\ Len(calls') = Len(calls) - 1
      /\ \A i \in 1..Len(calls') : calls'[i] = calls[i + 1]
  BY HeadAndTail DEF TypeOK
<1>3. n # 1
  BY <1>1, <1>2
<1>4. n - 1 \in (lost' + 1)..Len(calls') /\ calls'[n - 1] = c
  BY <1>1, <1>2, <1>3
<1> QED  BY <1>4 DEF Awaited

(* The steps of the client and of the application keep a call awaited, ... *)
LEMMA AwaitedKept ==
  ASSUME TypeInv, NEW c, Awaited(c), Client \/ Application
  PROVE  Awaited(c)'
<1> USE DEF TypeInv
<1>1. CASE UNCHANGED <<calls, lost>>
  BY <1>1 DEF Awaited
<1>2. CASE Construct \/ OwnerChanged
  <2>1. getAllProperties \in Seq(Call) /\ UNCHANGED lost
    BY <1>2, Calls DEF getAllProperties, Interface, Construct, OwnerChanged, external
  <2>2. calls' = calls \o getAllProperties \/ calls' = calls
    BY <1>2 DEF Construct, OwnerChanged, OwnerFound
  <2> QED  BY <1>1, <2>1, <2>2, AwaitedFollowed
<1>3. CASE Application
  <2>1. PICK d \in Call : \E a : Send(d, a)
    BY <1>3, Calls, Actions DEF Application, FollowList, GetPrepared, Cancel, Trigger, ActionString, Action
  <2>2. <<d>> \in Seq(Call) /\ calls' = calls \o <<d>> /\ UNCHANGED lost
    BY <2>1, Appended DEF Send, TypeOK
  <2> QED  BY <2>2, AwaitedFollowed
<1>4. CASE Client /\ ~Construct /\ ~OwnerChanged
  BY <1>1, <1>4 DEF Client, Subscribe, UpdateProperties, InitializeProperties,
       DaemonPropertiesChanged, OfflinePropertiesChanged, OfflineIgnores, ListTold,
       PreparedUpdates, external
<1> QED  BY <1>2, <1>3, <1>4

(* ... and so do the answers, but for the one to that call.                *)
LEMMA AnswerTakes ==
  ASSUME TypeInv, Answer
  PROVE  /\ calls # <<>> /\ Head(calls) \in Call /\ Head(calls) = calls[1] /\ 1 \in 1..Len(calls)
         /\ calls' = Tail(calls)
         /\ lost' = IF lost > 0 THEN lost - 1 ELSE 0
         /\ UNCHANGED client /\ up' = up
<1>1. CASE FailCall
  BY <1>1, HeadAndTail DEF FailCall, TypeInv, TypeOK
<1>2. CASE ~FailCall
  <2>1. lost = 0 /\ lost' = lost /\ calls # <<>> /\ calls' = Tail(calls) /\ UNCHANGED client
        /\ up' = up
    BY <1>2 DEF Answer, AnswerGetAll, AnswerList, AnswerPrepared, AnswerTrigger,
                RefuseTrigger, Serving, Change, external
  <2> QED  BY <2>1, HeadAndTail DEF TypeInv, TypeOK
<1> QED  BY <1>1, <1>2

(* The answers to other calls keep a call awaited.                         *)
LEMMA AwaitedAnswered ==
  ASSUME TypeInv, NEW c, Awaited(c), Answer, lost = 0 => Head(calls) # c
  PROVE  Awaited(c)'
  BY AnswerTakes, AwaitedNext DEF TypeInv

(* A reply to GetAll, ...                                                  *)
LEMMA GetAllAnswered ==
  ASSUME TypeInv, AnswerGetAll
  PROVE  \E i \in Interface :
           /\ lost = 0 /\ Head(calls) = GetAll(i) /\ up /\ UNCHANGED <<client, value, list, up>>
           /\ \E e \in Event : /\ e.kind = "properties" /\ e.iface = i /\ e.values = <<value[i]>>
                              /\ queue' = Append(queue, e)
           /\ history'.gap[i] = "none"
           /\ \A j \in Interface : j # i => history'.gap[j] = history.gap[j]
           /\ history'.meant = history.meant /\ history'.losses = history.losses
           /\ history'.sent = IF i = "daemon" THEN value[i] ELSE history.sent
<1> DEFINE i == Head(calls).iface
           e == [kind |-> "properties", iface |-> i, values |-> <<value[i]>>]
           s == IF i = "daemon" THEN value[i] ELSE history.sent
<1>1. Head(calls) \in Call /\ Head(calls).method = "GetAll" /\ lost = 0 /\ up
  BY AnswerTakes DEF AnswerGetAll, Serving, Answer
<1>2. i \in Interface /\ Head(calls) = GetAll(i)
  BY <1>1, CallTyped
<1>3. value[i] \in Property(i)
  BY <1>2, Fields DEF Interface, Property, TypeInv
<1>4. e \in Event /\ e.kind = "properties" /\ e.iface = i /\ e.values = <<value[i]>>
  BY <1>2, <1>3, Events
<1>5. queue' = Append(queue, e) /\ history' = [history EXCEPT !.gap[i] = "none", !.sent = s]
      /\ UNCHANGED <<client, value, list, up>>
  BY DEF AnswerGetAll
<1>7. s = IF i = "daemon" THEN value[i] ELSE history.sent
  OBVIOUS
<1> HIDE DEF e, i, s
<1>6. /\ history'.gap[i] = "none"
      /\ \A j \in Interface : j # i => history'.gap[j] = history.gap[j]
      /\ history'.meant = history.meant /\ history'.losses = history.losses
      /\ history'.sent = s
  BY <1>2, <1>5 DEF TypeInv, TypeOK, History
<1> QED  BY <1>1, <1>2, <1>4, <1>5, <1>6, <1>7

(* ... a call that fails, ...                                              *)
LEMMA CallFailed ==
  ASSUME TypeInv, FailCall
  PROVE  /\ UNCHANGED <<client, value, list, up>>
         /\ \/ queue' = queue
            \/ /\ Head(calls).method = "GetPrepared"
               /\ queue' = Append(queue, [kind |-> "prepared"])
         /\ \A i \in Interface :
              /\ history'.gap[i] \in {history.gap[i], "missed"}
              /\ lost = 0 /\ up /\ Head(calls) = GetAll(i) => history'.gap[i] = "missed"
         /\ lost = 0 /\ up => Head(calls).method = "GetAll"
         /\ history'.meant = history.meant /\ history'.losses = history.losses
<1>1. Head(calls) \in Call /\ lost \in Nat
  BY AnswerTakes DEF Answer, TypeInv, TypeOK
<1>2. \/ queue' = queue
      \/ /\ Head(calls).method = "GetPrepared"
         /\ queue' = Append(queue, [kind |-> "prepared"])
  <2>1. queue \in Seq(Event) /\ [kind |-> "prepared"] \in Event
    BY Events DEF TypeInv, TypeOK
  <2> QED  BY <2>1, Appended DEF FailCall, FailureTold
<1>3. lost = 0 /\ up => Head(calls).method = "GetAll"
  BY DEF FailCall
<1>4. CASE lost = 0 /\ up /\ Head(calls).method = "GetAll"
  <2>1. Head(calls).iface \in Interface /\ Head(calls) = GetAll(Head(calls).iface)
    BY <1>1, <1>4, CallTyped
  <2>2. history' = [history EXCEPT !.gap[Head(calls).iface] = "missed"]
    BY <1>4 DEF FailCall
  <2>3. \A i \in Interface : Head(calls) = GetAll(i) => Head(calls).iface = i
    BY DEF GetAll
  <2>4. /\ \A i \in Interface :
              /\ history'.gap[i] \in {history.gap[i], "missed"}
              /\ Head(calls).iface = i => history'.gap[i] = "missed"
        /\ history'.meant = history.meant /\ history'.losses = history.losses
    BY <2>1, <2>2 DEF TypeInv, TypeOK, History
  <2> QED  BY <1>2, <1>3, <2>3, <2>4 DEF FailCall
<1>5. CASE ~(lost = 0 /\ up /\ Head(calls).method = "GetAll")
  <2>1. history' = history
    BY <1>5 DEF FailCall
  <2>2. \A i \in Interface : Head(calls) = GetAll(i) => Head(calls).method = "GetAll"
    BY DEF GetAll
  <2> QED  BY <1>2, <1>3, <1>5, <2>1, <2>2 DEF FailCall
<1> QED  BY <1>4, <1>5

(* ... and a change of a property, as its events are seen.                 *)
LEMMA Noticed ==
  ASSUME TypeInv, NEW i \in Interface, NEW vs \in {<<>>} \cup {<<v>> : v \in Property(i)},
         Notified(i, vs)
  PROVE  \/ stage = "none" /\ queue' = queue
         \/ /\ stage = "watching"
            /\ \E x \in Event : /\ x.kind = "changed" /\ x.to = "offline" /\ x.iface = i /\ x.values = vs
                               /\ queue' = Append(queue, x)
         \/ /\ stage = "ready"
            /\ \E x, y \in Event :
                 /\ x.kind = "changed" /\ x.to = "offline" /\ x.iface = i /\ x.values = vs
                 /\ y.kind = "changed" /\ y.to = "daemon" /\ y.iface = i /\ y.values = vs
                 /\ queue' = Append(Append(queue, x), y)
<1>1. \A t \in Interface : /\ Notice(t, i, vs) \in Event /\ Notice(t, i, vs).kind = "changed"
                          /\ Notice(t, i, vs).to = t /\ Notice(t, i, vs).iface = i
                          /\ Notice(t, i, vs).values = vs
  BY Events DEF Notice
<1>2. "offline" \in Interface /\ "daemon" \in Interface
  BY DEF Interface
<1> QED  BY <1>1, <1>2 DEF Notified

(* What happens to the properties of the daemon.                           *)
LEMMA CountedTyped ==
  ASSUME TypeInv, MoreEvents
  PROVE  /\ Counted \in History /\ Counted.gap = history.gap /\ Counted.losses = history.losses
         /\ Counted.meant = history.meant
         /\ \E h \in History :
              /\ h = [Counted EXCEPT !.meant = "ActionPowerOff"]
              /\ h.gap = history.gap /\ h.meant = "ActionPowerOff" /\ h.losses = history.losses
<1>1. history.events + 1 \in 0..MaxEvents
  BY Fields DEF MoreEvents, TypeInv
<1>2. /\ Counted \in History /\ Counted.gap = history.gap /\ Counted.losses = history.losses
      /\ Counted.meant = history.meant
  BY <1>1 DEF TypeInv, TypeOK, History, Counted
<1> DEFINE h == [Counted EXCEPT !.meant = "ActionPowerOff"]
<1>3. /\ h \in History /\ h.gap = Counted.gap /\ h.meant = "ActionPowerOff"
      /\ h.losses = Counted.losses
  BY <1>2 DEF History, Action
<1> HIDE DEF h
<1> QED  BY <1>2, <1>3 DEF h

(* A change of the daemon's properties, by how far the client has got.     *)
LEMMA DaemonChanged ==
  ASSUME TypeInv, ChangeDaemon
  PROVE  /\ UNCHANGED <<stage, running, cache, seen, quits, app, calls, lost, list, up>> /\ up
         /\ value'["offline"] = value["offline"]
         /\ history'.gap["offline"] = history.gap["offline"]
         /\ history'.losses = history.losses /\ history'.meant = history.meant
         /\ \/ stage = "none" /\ queue' = queue
            \/ /\ stage = "watching"
               /\ \E x \in Event : /\ x.kind = "changed" /\ x.to = "offline" /\ x.iface = "daemon"
                                  /\ queue' = Append(queue, x)
               /\ \/ history'.gap["daemon"] = "missed"
                  \/ /\ Awaited(GetAll("daemon")) /\ Awaited(GetAll("daemon"))'
                     /\ history'.gap["daemon"] = history.gap["daemon"]
            \/ /\ stage = "ready"
               /\ \E x, y \in Event :
                    /\ x.kind = "changed" /\ x.to = "offline" /\ x.iface = "daemon"
                    /\ y.kind = "changed" /\ y.to = "daemon" /\ y.iface = "daemon"
                    /\ queue' = Append(Append(queue, x), y)
                    /\ \/ y.values = <<value'["daemon"]>>
                       \/ history'.gap["daemon"] = "withheld"
<1> DEFINE v == value["daemon"] + 1
<1>1. /\ MoreEvents /\ Change("daemon", v, Counted) /\ UNCHANGED calls
      /\ "daemon" \in Interface /\ "offline" \in Interface /\ "offline" # "daemon"
  BY DEF ChangeDaemon, Interface
<1>2. v \in Property("daemon")
  <2>1. history.events < MaxEvents /\ value["daemon"] <= 1 + history.ownerChanges + history.events
    BY <1>1 DEF MoreEvents, TypeInv, Bounded
  <2>2. value["daemon"] \in Nat
    BY Fields DEF TypeInv, Version
  <2> QED  BY <2>1, <2>2, Fields, VersionBound DEF TypeInv, Property
<1>3. /\ Counted \in History /\ Counted.gap = history.gap /\ Counted.losses = history.losses
      /\ Counted.meant = history.meant
  BY <1>1, CountedTyped
<1> HIDE DEF v
<1>4. /\ UNCHANGED <<stage, running, cache, seen, quits, app, lost, list, up>> /\ up
      /\ value'["daemon"] = v /\ value'["offline"] = value["offline"]
      /\ history'.gap["offline"] = history.gap["offline"]
      /\ history'.losses = history.losses /\ history'.meant = history.meant
  <2>1. TypeOK
    BY DEF TypeInv
  <2>2. /\ UNCHANGED <<stage, running, cache, seen, quits, app, lost, list, up>> /\ up
        /\ value'["daemon"] = v
        /\ \A j \in Interface \ {"daemon"} : value'[j] = value[j] /\ history'.gap[j] = Counted.gap[j]
        /\ history'.losses = Counted.losses /\ history'.meant = Counted.meant
    BY <1>1, <1>2, <1>3, <2>1, ChangeTyped, Zenon
  <2> QED  BY <1>1, <1>3, <2>2
<1>5. PICK vs \in {<<v>>, <<>>} :
        /\ Notified("daemon", vs)
        /\ history'.gap["daemon"] =
             IF stage = "watching" /\ "daemon" = "daemon"
               THEN IF Asked("daemon") THEN Counted.gap["daemon"] ELSE "missed"
               ELSE IF stage # "none" /\ vs = <<>> THEN "withheld" ELSE "none"
  BY <1>1, <1>2, <1>3, ChangeTyped, Zenon DEF TypeInv
<1>6. vs \in {<<>>} \cup {<<w>> : w \in Property("daemon")}
  BY <1>2
<1>7. stage = "watching" =>
        history'.gap["daemon"] = IF Asked("daemon") THEN history.gap["daemon"] ELSE "missed"
  BY <1>3, <1>5
<1>8. stage = "ready" /\ vs = <<>> => history'.gap["daemon"] = "withheld"
  BY <1>5
<1>9. Asked("daemon") <=> Awaited(GetAll("daemon"))
  BY DEF Asked, Awaited
<1>10. Awaited(GetAll("daemon"))' <=> Awaited(GetAll("daemon"))
  BY <1>1, <1>4 DEF Awaited
<1>11. CASE stage = "none"
  BY <1>1, <1>4, <1>5, <1>6, <1>11, Noticed
<1>12. CASE stage = "watching"
  <2>1. \E x \in Event : /\ x.kind = "changed" /\ x.to = "offline" /\ x.iface = "daemon"
                       /\ queue' = Append(queue, x)
    BY <1>1, <1>5, <1>6, <1>12, Noticed
  <2> QED  BY <1>1, <1>4, <1>7, <1>9, <1>10, <1>12, <2>1
<1>13. CASE stage = "ready"
  <2>1. \E x, y \in Event :
          /\ x.kind = "changed" /\ x.to = "offline" /\ x.iface = "daemon"
          /\ y.kind = "changed" /\ y.to = "daemon" /\ y.iface = "daemon" /\ y.values = vs
          /\ queue' = Append(Append(queue, x), y)
    BY <1>1, <1>5, <1>6, <1>13, Noticed
  <2> QED  BY <1>1, <1>4, <1>5, <1>8, <1>13, <2>1
<1> QED  BY <1>11, <1>12, <1>13 DEF TypeInv, TypeOK

(* A daemon goes or comes.                                                 *)
LEMMA OwnerChanges ==
  ASSUME TypeInv, LoseOwner \/ StartOwner
  PROVE  /\ UNCHANGED <<stage, running, cache, seen, quits, app, calls>> /\ list' = EmptyList
         /\ up' \in BOOLEAN
         /\ StartOwner => ~up /\ up'
         /\ LoseOwner => up /\ history'.losses = history.losses + IF stage = "none" THEN 0 ELSE 1
         /\ StartOwner => history'.losses = history.losses
         /\ up' => \A i \in Interface : history'.gap[i] = "none"
         /\ Parsed(value["offline"]) = history.meant => Parsed(value'["offline"]) = history'.meant
         /\ IF stage = "none"
              THEN queue' = queue
              ELSE \E e \in Event :
                     /\ e.kind = "owner" /\ e.new = up' /\ queue' = Append(queue, e)
                     /\ LoseOwner => e.old
                     /\ StartOwner => ~e.old
<1>1. CASE LoseOwner
  <2> DEFINE h == [history EXCEPT !.losses = @ + IF stage = "none" THEN 0 ELSE 1]
  <2>1. PICK new \in BOOLEAN :
          /\ OwnerChange(TRUE, new, h)
          /\ value' = [value EXCEPT !.daemon = IF new THEN @ + 1 ELSE @]
    BY <1>1 DEF LoseOwner
  <2>2. history.losses + (IF stage = "none" THEN 0 ELSE 1) \in 0..MaxOwnerChanges
    BY <2>1, Fields DEF OwnerChange, TypeInv, Bounded
  <2>3. /\ h \in History /\ h.ownerChanges = history.ownerChanges /\ h.meant = history.meant
        /\ h.losses = history.losses + IF stage = "none" THEN 0 ELSE 1
    BY <2>2 DEF TypeInv, TypeOK, History
  <2> HIDE DEF h
  <2>4. /\ UNCHANGED <<stage, running, cache, seen, quits, app, calls>>
        /\ up = TRUE /\ up' = new /\ list' = EmptyList
        /\ IF stage = "none" THEN queue' = queue ELSE queue' = Append(queue, OwnerEvent(TRUE, new))
        /\ history'.losses = h.losses /\ history'.meant = h.meant
        /\ \A i \in Interface : history'.gap[i] = IF new THEN "none" ELSE h.gap[i]
    BY <2>1, <2>3, OwnerTyped DEF TypeInv
  <2>5. value'["offline"] = value["offline"]
    BY <2>1 DEF TypeInv, TypeOK, Values
  <2>6. /\ OwnerEvent(TRUE, new) \in Event /\ OwnerEvent(TRUE, new).kind = "owner"
        /\ OwnerEvent(TRUE, new).new = new /\ OwnerEvent(TRUE, new).old = TRUE
    BY Events DEF OwnerEvent
  <2>7. ~StartOwner
    BY <2>4 DEF StartOwner, OwnerChange
  <2> QED  BY <1>1, <2>3, <2>4, <2>5, <2>6, <2>7
<1>2. CASE StartOwner
  <2>1. PICK a \in {[value |-> value.offline, meant |-> history.meant],
                    [value |-> "unset", meant |-> "ActionUnset"]} :
          /\ OwnerChange(FALSE, TRUE, [history EXCEPT !.meant = a.meant])
          /\ value' = [daemon |-> value.daemon + 1, offline |-> a.value]
    BY <1>2 DEF StartOwner
  <2> DEFINE h == [history EXCEPT !.meant = a.meant]
  <2>2. a.meant \in Action
    BY Fields DEF Action, TypeInv
  <2>3. /\ h \in History /\ h.ownerChanges = history.ownerChanges /\ h.losses = history.losses
        /\ h.meant = a.meant
    BY <2>2 DEF TypeInv, TypeOK, History
  <2>4. OwnerChange(FALSE, TRUE, h)
    BY <2>1
  <2> HIDE DEF h
  <2>5. /\ UNCHANGED <<stage, running, cache, seen, quits, app, calls>>
        /\ up = FALSE /\ up' = TRUE /\ list' = EmptyList
        /\ IF stage = "none" THEN queue' = queue ELSE queue' = Append(queue, OwnerEvent(FALSE, TRUE))
        /\ history'.losses = h.losses /\ history'.meant = h.meant
        /\ \A i \in Interface : history'.gap[i] = "none"
    BY <2>3, <2>4, OwnerTyped DEF TypeInv
  <2>6. /\ OwnerEvent(FALSE, TRUE) \in Event /\ OwnerEvent(FALSE, TRUE).kind = "owner"
        /\ OwnerEvent(FALSE, TRUE).new = TRUE /\ OwnerEvent(FALSE, TRUE).old = FALSE
    BY Events DEF OwnerEvent
  <2>7. ~LoseOwner
    BY <2>5 DEF LoseOwner, OwnerChange
  <2>8. Parsed(value["offline"]) = history.meant => Parsed(value'["offline"]) = history'.meant
    BY <2>1, <2>3, <2>5, Actions
  <2> QED  BY <1>2, <2>3, <2>5, <2>6, <2>7, <2>8
<1> QED  BY <1>1, <1>2


(***************************************************************************)
(* isRunning()                                                             *)
(***************************************************************************)
(* A step that has nothing to do with running, ...                         *)
LEMMA RunningUnaffected ==
  ASSUME TypeInv, RunningInv, Passes(RunningSet), UNCHANGED <<running, up>>,
         stage # "none" => stage' # "none", stage = "none" => queue' = queue /\ calls' = calls /\ app' = app,
         history'.gap["daemon"] \in {history.gap["daemon"], "missed"},
         \/ Awaited(GetAll("daemon"))' \/ history'.gap["daemon"] = "missed"
         \/ stage' = stage /\ ~Awaited(GetAll("daemon"))
  PROVE  RunningInv'
<1>1. Stopped \subseteq RunningSet /\ RunningSet \ Stopped \subseteq RunningSet
  BY DEF Stopped, RunningSet
<1>2. /\ Settles(queue, RunningSet, Stopped, ~running)
           => Settles(queue', RunningSet, Stopped, ~running)
      /\ Settles(queue, RunningSet, RunningSet \ Stopped, running)
           => Settles(queue', RunningSet, RunningSet \ Stopped, running)
  BY <1>1, Passed DEF TypeInv
<1> QED  BY <1>2 DEF RunningInv

(* ... one that sets it, with a daemon, ...                                *)
LEMMA RunningSetTrue ==
  ASSUME TypeInv, RunningInv, up, up', stage' # "none",
         Lands(RunningSet \ Stopped)
  PROVE  RunningInv'
<1>1. Settles(queue', RunningSet, RunningSet \ Stopped, running')
  BY Landed DEF TypeInv
<1> QED  BY <1>1 DEF RunningInv

(* ... and one that handles an event that sets it.                         *)
LEMMA RunningHandled ==
  ASSUME TypeInv, RunningInv, queue # <<>>, queue' = Tail(queue), UNCHANGED <<stage, up, history>>,
         stage = "ready", Head(queue) \in RunningSet,
         running' = (Head(queue) \notin Stopped),
         Awaited(GetAll("daemon")) => Awaited(GetAll("daemon"))'
  PROVE  RunningInv'
<1>1. queue \in Seq(Event)
  BY DEF TypeInv, TypeOK
<1>2. /\ Settles(queue, RunningSet, Stopped, ~running)
           => Settles(queue', RunningSet, Stopped, ~running')
      /\ Settles(queue, RunningSet, RunningSet \ Stopped, running)
           => Settles(queue', RunningSet, RunningSet \ Stopped, running')
  BY <1>1, SettlesTail
<1> QED  BY <1>2 DEF RunningInv

(* The client.                                                             *)
LEMMA RunningClient ==
  ASSUME TypeInv, RunningInv, Client
  PROVE  RunningInv'
<1> DEFINE c == GetAll("daemon")
<1>1. Awaited(c) => Awaited(c)'
  BY AwaitedKept
<1>2. CASE Construct
  <2>1. Awaited(c)'
    <3>1. getAllProperties \in Seq(Call) /\ 1 \in 1..Len(getAllProperties) /\ getAllProperties[1] = c
      BY Calls DEF getAllProperties, Interface
    <3> QED  BY <1>2, <3>1, AwaitedFollowed DEF Construct, external, TypeInv
  <2> QED  BY <1>2, <2>1 DEF Construct, external, RunningInv
<1>3. CASE Subscribe
  BY <1>1, <1>3 DEF Subscribe, external, RunningInv
<1>4. CASE OwnerChanged
  <2>1. /\ Head(queue) \in Event /\ Head(queue).kind = "owner" /\ stage = "ready" /\ queue # <<>>
        /\ UNCHANGED <<stage, up, history>>
        /\ queue' = Tail(queue) /\ running' = Head(queue).new
    BY <1>4, Handled DEF OwnerChanged, external, TypeInv
  <2>2. Head(queue).new \in BOOLEAN /\ Head(queue) \in RunningSet
        /\ (Head(queue) \in Stopped <=> ~Head(queue).new)
    BY <2>1, EventTyped, EventKinds
  <2>3. running' = (Head(queue) \notin Stopped)
    BY <2>1, <2>2
  <2> QED  BY <1>1, <2>1, <2>2, <2>3, RunningHandled
<1>5. CASE UpdateProperties \/ DaemonPropertiesChanged
  <2>1. /\ Head(queue) \in Event /\ stage = "ready" /\ queue # <<>>
        /\ Head(queue).iface = "daemon"
        /\ \/ Head(queue).kind = "properties"
           \/ Head(queue).kind = "changed" /\ Head(queue).to = "daemon"
        /\ UNCHANGED <<stage, up, history>>
        /\ queue' = Tail(queue) /\ running' = TRUE
    BY <1>5, Handled DEF UpdateProperties, DaemonPropertiesChanged, external, TypeInv
  <2>2. Head(queue) \in RunningSet /\ Head(queue) \notin Stopped
    BY <2>1, EventKinds
  <2> QED  BY <1>1, <2>1, <2>2, RunningHandled
<1>6. CASE \/ InitializeProperties \/ OfflinePropertiesChanged \/ OfflineIgnores
           \/ ListTold \/ PreparedUpdates
  <2>1. /\ Head(queue) \in Event /\ stage = "ready" /\ queue # <<>>
        /\ \/ Head(queue).kind \in {"list", "prepared"}
           \/ Head(queue).kind \in {"properties", "changed"} /\ Head(queue).iface = "offline"
           \/ Head(queue).kind = "changed" /\ Head(queue).to = "offline"
        /\ UNCHANGED <<stage, running, up, history>>
        /\ queue' = Tail(queue)
    <3>1. CASE InitializeProperties
      BY <3>1, Handled DEF InitializeProperties, external, TypeInv
    <3>2. CASE OfflinePropertiesChanged
      BY <3>2, Handled DEF OfflinePropertiesChanged, external, TypeInv
    <3>3. CASE OfflineIgnores
      BY <3>3, Handled DEF OfflineIgnores, client, external, TypeInv
    <3>4. CASE ListTold
      BY <3>4, Handled DEF ListTold, external, TypeInv
    <3>5. CASE PreparedUpdates
      BY <3>5, Handled DEF PreparedUpdates, external, TypeInv
    <3> QED  BY <1>6, <3>1, <3>2, <3>3, <3>4, <3>5
  <2>2. Passes(RunningSet)
    BY <2>1, EventKinds DEF Passes
  <2> QED  BY <1>1, <2>1, <2>2, RunningUnaffected
<1> QED  BY <1>2, <1>3, <1>4, <1>5, <1>6 DEF Client

(* The application.                                                        *)
LEMMA SendKeeps ==
  ASSUME Application
  PROVE  /\ UNCHANGED <<stage, running, cache, seen, quits, queue, lost, value, list, up>>
         /\ stage = "ready"
  BY DEF Application, FollowList, GetPrepared, Cancel, Trigger, Send

(* The calls of the application change nothing in the daemon.              *)
LEMMA ApplicationHistory ==
  ASSUME TypeInv, Application
  PROVE  history'.gap = history.gap /\ history'.meant = history.meant
         /\ history'.losses = history.losses
<1>1. history' = [history EXCEPT !.events = @ + 1] /\ history \in History
  BY DEF Application, FollowList, GetPrepared, Cancel, Trigger, Send, Counted, TypeInv, TypeOK
<1> QED  BY <1>1 DEF History

(* They have nothing to do with running.                                   *)
LEMMA RunningApplication ==
  ASSUME TypeInv, RunningInv, Application
  PROVE  RunningInv'
<1>1. Awaited(GetAll("daemon")) => Awaited(GetAll("daemon"))'
  BY AwaitedKept
<1>2. Passes(RunningSet)
  BY SendKeeps DEF Passes
<1> QED  BY <1>1, <1>2, SendKeeps, ApplicationHistory, RunningUnaffected

(* The Offline object is told of a change.                                 *)
LEMMA OfflineChanged ==
  ASSUME TypeInv, NEW v \in Property("offline"), NEW h \in History, h.gap = history.gap,
         Change("offline", v, h)
  PROVE  /\ UNCHANGED <<stage, running, cache, seen, quits, app, lost, list, up>> /\ up
         /\ value'["offline"] = v /\ value'["daemon"] = value["daemon"]
         /\ history'.gap["daemon"] = history.gap["daemon"]
         /\ history'.losses = h.losses /\ history'.meant = h.meant
         /\ \E vs \in {<<v>>, <<>>} :
              /\ history'.gap["offline"] = IF stage # "none" /\ vs = <<>> THEN "withheld" ELSE "none"
              /\ \/ stage = "none" /\ queue' = queue
                 \/ /\ stage # "none"
                    /\ \E x \in Event : /\ x.kind = "changed" /\ x.iface = "offline" /\ x.values = vs
                                       /\ queue' = Append(queue, x)
                 \/ /\ stage # "none"
                    /\ \E x, y \in Event :
                         /\ x.kind = "changed" /\ x.iface = "offline"
                         /\ y.kind = "changed" /\ y.iface = "offline" /\ y.values = vs
                         /\ queue' = Append(Append(queue, x), y)
<1>1. "offline" \in Interface /\ "daemon" \in Interface \ {"offline"} /\ TypeOK
  BY DEF Interface, TypeInv
<1>2. /\ UNCHANGED <<stage, running, cache, seen, quits, app, lost, list, up>> /\ up
      /\ value'["offline"] = v
      /\ \A j \in Interface \ {"offline"} : value'[j] = value[j] /\ history'.gap[j] = h.gap[j]
      /\ history'.losses = h.losses /\ history'.meant = h.meant
  BY <1>1, ChangeTyped, ZenonT(30)
<1>3. PICK vs \in {<<v>>, <<>>} :
        /\ Notified("offline", vs)
        /\ history'.gap["offline"] =
             IF stage = "watching" /\ "offline" = "daemon"
               THEN IF Asked("offline") THEN h.gap["offline"] ELSE "missed"
               ELSE IF stage # "none" /\ vs = <<>> THEN "withheld" ELSE "none"
  BY <1>1, ChangeTyped, Zenon
<1>4. vs \in {<<>>} \cup {<<w>> : w \in Property("offline")}
  OBVIOUS
<1>5. history'.gap["offline"] = IF stage # "none" /\ vs = <<>> THEN "withheld" ELSE "none"
  BY <1>3
<1>6. \/ stage = "none" /\ queue' = queue
      \/ /\ stage # "none"
         /\ \E x \in Event : /\ x.kind = "changed" /\ x.iface = "offline" /\ x.values = vs
                            /\ queue' = Append(queue, x)
      \/ /\ stage # "none"
         /\ \E x, y \in Event :
              /\ x.kind = "changed" /\ x.iface = "offline"
              /\ y.kind = "changed" /\ y.iface = "offline" /\ y.values = vs
              /\ queue' = Append(Append(queue, x), y)
  BY <1>1, <1>3, <1>4, Noticed
<1> QED  BY <1>1, <1>2, <1>5, <1>6

(* It passes the other kinds of events.                                    *)
LEMMA OfflineChangePasses ==
  ASSUME TypeInv, NEW v \in Property("offline"), NEW h \in History, h.gap = history.gap,
         Change("offline", v, h)
  PROVE  /\ Passes(RunningSet) /\ Passes(DaemonStored) /\ Passes(Tellings) /\ Passes(Owner \cup Prepared)
         /\ stage = "none" => queue' = queue
         /\ history'.gap["daemon"] = history.gap["daemon"]
<1>1. ASSUME NEW x \in Event, x.kind = "changed", x.iface = "offline"
      PROVE  x \notin RunningSet /\ x \notin DaemonStored /\ x \notin Tellings
             /\ x \notin Owner \cup Prepared
  BY <1>1, EventKinds
<1>2. \/ queue' = queue
      \/ /\ stage # "none"
         /\ \E x \in Event : /\ x.kind = "changed" /\ x.iface = "offline"
                             /\ queue' = Append(queue, x)
      \/ /\ stage # "none"
         /\ \E x, y \in Event : /\ x.kind = "changed" /\ x.iface = "offline"
                                /\ y.kind = "changed" /\ y.iface = "offline"
                                /\ queue' = Append(Append(queue, x), y)
  BY OfflineChanged
<1>3. history'.gap["daemon"] = history.gap["daemon"]
  BY OfflineChanged
<1> QED  BY <1>1, <1>2, <1>3 DEF Passes

(* A trigger that is accepted.                                             *)
LEMMA TriggerTyped ==
  ASSUME TypeInv, AnswerTrigger
  PROVE  /\ Head(calls).method = "Trigger" /\ lost = 0 /\ up
         /\ Head(calls).action \in Property("offline") /\ Head(calls).meant \in Action
         /\ \E h \in History : /\ h.gap = history.gap /\ h.meant = Head(calls).meant
                               /\ h.losses = history.losses
                               /\ Change("offline", Head(calls).action, h)
<1>1. Head(calls) \in Call /\ Head(calls).method = "Trigger" /\ lost = 0 /\ up
  BY AnswerTakes DEF AnswerTrigger, Serving, Answer
<1>2. Head(calls).action \in Property("offline") /\ Head(calls).meant \in Action
  BY <1>1, CallTyped DEF Property
<1> DEFINE h == [history EXCEPT !.meant = Head(calls).meant]
<1>3. /\ h \in History /\ h.gap = history.gap /\ h.meant = Head(calls).meant
      /\ h.losses = history.losses
  BY <1>2 DEF TypeInv, TypeOK, History
<1>4. Change("offline", Head(calls).action, h)
  BY DEF AnswerTrigger
<1> HIDE DEF h
<1> QED  BY <1>1, <1>2, <1>3, <1>4

(* The answers.                                                            *)
LEMMA RunningAnswer ==
  ASSUME TypeInv, RunningInv, Answer
  PROVE  RunningInv'
<1> DEFINE c == GetAll("daemon")
<1>1. /\ calls # <<>> /\ Head(calls) \in Call /\ UNCHANGED <<stage, running, up>> /\ stage # "none"
  BY AnswerTakes DEF client, RunningInv
<1>2. Awaited(c) => Awaited(c)' \/ (lost = 0 /\ Head(calls) = c)
  BY AwaitedAnswered
<1>3. c.method = "GetAll" /\ "daemon" \in Interface
  BY DEF GetAll, Interface
<1>4. ASSUME Passes(RunningSet), history'.gap["daemon"] = history.gap["daemon"],
             lost # 0 \/ Head(calls) # c
      PROVE  RunningInv'
  BY <1>1, <1>2, <1>4, RunningUnaffected
<1>5. CASE AnswerGetAll
  <2>1. PICK i \in Interface :
          /\ lost = 0 /\ Head(calls) = GetAll(i) /\ up /\ up' = up
          /\ \E e \in Event : /\ e.kind = "properties" /\ e.iface = i
                              /\ queue' = Append(queue, e)
          /\ \A j \in Interface : j # i => history'.gap[j] = history.gap[j]
    BY <1>5, GetAllAnswered
  <2>2. CASE i = "daemon"
    <3>1. Lands(RunningSet \ Stopped)
      BY <2>1, <2>2, EventKinds DEF Lands
    <3> QED  BY <1>1, <2>1, <3>1, RunningSetTrue
  <2>3. CASE i # "daemon"
    <3>1. Passes(RunningSet)
      BY <2>1, <2>3, EventKinds DEF Passes
    <3>2. Head(calls) # c
      BY <2>1, <2>3 DEF GetAll
    <3> QED  BY <1>3, <1>4, <2>1, <2>3, <3>1, <3>2
  <2> QED  BY <2>2, <2>3
<1>6. CASE AnswerList \/ AnswerPrepared \/ RefuseTrigger
  <2>1. \/ queue' = queue
        \/ \E e \in Event : e.kind \in {"list", "prepared"} /\ queue' = Append(queue, e)
    BY <1>6, Events DEF AnswerList, AnswerPrepared, RefuseTrigger, external, TypeInv, TypeOK
  <2>2. Passes(RunningSet)
    BY <2>1, EventKinds DEF Passes
  <2>3. Head(calls) # c /\ history' = history
    BY <1>3, <1>6 DEF AnswerList, AnswerPrepared, RefuseTrigger, Serving, external
  <2> QED  BY <1>4, <2>2, <2>3
<1>7. CASE AnswerTrigger
  <2>1. Passes(RunningSet) /\ history'.gap["daemon"] = history.gap["daemon"]
    BY <1>7, TriggerTyped, OfflineChangePasses
  <2>2. Head(calls) # c
    BY <1>3, <1>7, TriggerTyped
  <2> QED  BY <1>4, <2>1, <2>2
<1>8. CASE FailCall
  <2>1. \/ queue' = queue
        \/ \E e \in Event : e.kind = "prepared" /\ queue' = Append(queue, e)
    BY <1>8, CallFailed, Events
  <2>2. Passes(RunningSet)
    BY <2>1, EventKinds DEF Passes
  <2>3. /\ history'.gap["daemon"] \in {history.gap["daemon"], "missed"}
        /\ lost = 0 /\ up /\ Head(calls) = c => history'.gap["daemon"] = "missed"
    BY <1>3, <1>8, CallFailed
  <2>4. CASE up
    BY <1>1, <1>2, <2>2, <2>3, <2>4, RunningUnaffected
  <2>5. CASE ~up
    <3>1. Settles(queue', RunningSet, Stopped, ~running)
      <4>1. Stopped \subseteq RunningSet
        BY DEF Stopped, RunningSet
      <4> QED  BY <2>2, <2>5, <4>1, Passed DEF TypeInv, RunningInv
    <3> QED  BY <1>1, <2>5, <3>1 DEF RunningInv
  <2> QED  BY <2>4, <2>5
<1> QED  BY <1>5, <1>6, <1>7, <1>8 DEF Answer

(* What a change of the list posts.                                        *)
LEMMA ListChanged ==
  ASSUME TypeInv, ChangeList
  PROVE  /\ UNCHANGED <<stage, running, cache, seen, quits, app, calls, lost, value, up>> /\ up
         /\ history'.gap = history.gap /\ history'.meant = history.meant
         /\ history'.losses = history.losses
         /\ IF app.listening
              THEN \E e \in Event : /\ e.kind = "list" /\ e.tids = list'
                                    /\ queue' = Append(queue, e)
              ELSE queue' = queue
<1>1. MoreEvents /\ history' = Counted /\ list' = history.events + 1
  BY DEF ChangeList
<1>2. list' \in Version
  BY <1>1, Fields DEF MoreEvents, TypeInv, Version
<1>3. /\ Counted.gap = history.gap /\ Counted.meant = history.meant
      /\ Counted.losses = history.losses
  BY <1>1, CountedTyped
<1> DEFINE e == [kind |-> "list", tids |-> list']
<1>4. e \in Event /\ e.kind = "list" /\ e.tids = list'
  BY <1>2, Events
<1>5. queue' = IF app.listening THEN Append(queue, e) ELSE queue
  BY DEF ChangeList
<1> HIDE DEF e
<1>6. UNCHANGED <<stage, running, cache, seen, quits, app, calls, lost, value, up>> /\ up
  BY DEF ChangeList, client
<1> QED  BY <1>1, <1>3, <1>4, <1>5, <1>6

(* What happens to the daemon.                                             *)
LEMMA RunningService ==
  ASSUME TypeInv, RunningInv, Service
  PROVE  RunningInv'
<1> DEFINE c == GetAll("daemon")
<1>1. CASE ChangeDaemon
  <2>1. /\ UNCHANGED <<stage, running, app, calls, lost, up>> /\ up
    BY <1>1, DaemonChanged
  <2>2. Awaited(c)' <=> Awaited(c)
    BY <2>1 DEF Awaited
  <2>3. CASE stage = "none"
    BY <1>1, <2>1, <2>3, DaemonChanged DEF RunningInv
  <2>4. CASE stage = "watching"
    <3>1. /\ \E x \in Event : /\ x.kind = "changed" /\ x.to = "offline" /\ x.iface = "daemon"
                              /\ queue' = Append(queue, x)
          /\ \/ history'.gap["daemon"] = "missed"
             \/ Awaited(c)' /\ history'.gap["daemon"] = history.gap["daemon"]
      BY <1>1, <2>4, DaemonChanged
    <3>2. Passes(RunningSet)
      BY <3>1, EventKinds DEF Passes
    <3> QED  BY <2>1, <2>4, <3>1, <3>2, RunningUnaffected
  <2>5. CASE stage = "ready"
    <3>1. \E x, y \in Event : /\ y.kind = "changed" /\ y.to = "daemon" /\ y.iface = "daemon"
                              /\ queue' = Append(Append(queue, x), y)
      BY <1>1, <2>5, DaemonChanged
    <3>2. Lands(RunningSet \ Stopped)
      BY <3>1, EventKinds DEF Lands
    <3> QED  BY <2>1, <2>5, <3>2, RunningSetTrue
  <2> QED  BY <2>3, <2>4, <2>5 DEF TypeInv, TypeOK
<1>2. CASE ChangeOffline
  <2>1. PICK h \in History : h.gap = history.gap /\ Change("offline", "power-off", h)
    BY <1>2, CountedTyped DEF ChangeOffline
  <2>2. "power-off" \in Property("offline")
    BY DEF Property, ActionString
  <2>3. /\ Passes(RunningSet)
        /\ stage = "none" => queue' = queue
        /\ history'.gap["daemon"] = history.gap["daemon"]
    BY <2>1, <2>2, OfflineChangePasses
  <2>4. UNCHANGED <<stage, running, app, lost, up, calls>>
    BY <1>2, <2>1, <2>2, OfflineChanged DEF ChangeOffline
  <2>5. Awaited(c)' <=> Awaited(c)
    BY <2>4 DEF Awaited
  <2> QED  BY <2>3, <2>4, <2>5, RunningUnaffected
<1>3. CASE ChangeList
  <2>1. /\ UNCHANGED <<stage, running, app, calls, lost, up>> /\ history'.gap = history.gap
        /\ IF app.listening
             THEN \E e \in Event : e.kind = "list" /\ queue' = Append(queue, e)
             ELSE queue' = queue
    BY <1>3, ListChanged
  <2>2. Passes(RunningSet)
    BY <2>1, EventKinds DEF Passes
  <2>3. Awaited(c)' <=> Awaited(c)
    BY <2>1 DEF Awaited
  <2>4. stage = "none" => queue' = queue
    BY <2>1 DEF RunningInv
  <2> QED  BY <2>1, <2>2, <2>3, <2>4, RunningUnaffected
<1>4. CASE LoseOwner \/ StartOwner
  <2>1. /\ UNCHANGED <<stage, running, app, calls>> /\ up' \in BOOLEAN
        /\ stage = "none" => queue' = queue
        /\ stage # "none" => \E e \in Event : /\ e.kind = "owner" /\ e.new = up'
                                              /\ queue' = Append(queue, e)
    BY <1>4, OwnerChanges
  <2>2. CASE stage = "none"
    <3>1. queue' = <<>> /\ ~running' /\ \A i \in 1..Len(queue') : FALSE
      BY <2>1, <2>2 DEF RunningInv
    <3> QED  BY <2>1, <2>2, <3>1 DEF RunningInv, Settles, None
  <2>3. CASE stage # "none" /\ up'
    <3>1. Lands(RunningSet \ Stopped)
      BY <2>1, <2>3, EventKinds DEF Lands
    <3>2. Settles(queue', RunningSet, RunningSet \ Stopped, running')
      BY <3>1, Landed DEF TypeInv
    <3> QED  BY <2>1, <2>3, <3>2 DEF RunningInv
  <2>4. CASE stage # "none" /\ ~up'
    <3>1. Lands(Stopped)
      BY <2>1, <2>4, EventKinds DEF Lands
    <3>2. Settles(queue', RunningSet, Stopped, ~running')
      BY <3>1, Landed DEF TypeInv
    <3> QED  BY <2>1, <2>4, <3>2 DEF RunningInv
  <2> QED  BY <2>1, <2>2, <2>3, <2>4
<1> QED  BY <1>1, <1>2, <1>3, <1>4 DEF Service

(* Every step keeps what is claimed about running, ...                     *)
LEMMA RunningKept ==
  TypeInv /\ RunningInv /\ [Next]_vars => RunningInv'
<1> SUFFICES ASSUME TypeInv, RunningInv, [Next]_vars  PROVE RunningInv'
  OBVIOUS
<1>1. CASE UNCHANGED vars
  BY <1>1 DEF vars, RunningInv, Awaited
<1> QED  BY <1>1, RunningClient, RunningApplication, RunningAnswer, RunningService DEF Next

(* ... and it holds at first.                                              *)
LEMMA RunningInitial ==
  Init => RunningInv
<1> SUFFICES ASSUME Init  PROVE RunningInv
  OBVIOUS
<1>1. \A i \in 1..Len(queue) : FALSE
  BY DEF Init
<1> QED  BY <1>1 DEF Init, RunningInv, Settles, None

(* Nothing is left to be handled.                                          *)
LEMMA Settled ==
  ASSUME queue = <<>>
  PROVE  /\ \A kind, good, now : Settles(queue, kind, good, now) => now
         /\ \A kind : None(queue, kind)
<1>1. \A i \in 1..Len(queue) : FALSE
  OBVIOUS
<1> QED  BY <1>1 DEF Settles, None

(* Without calls none is awaited.                                          *)
LEMMA NothingAwaited ==
  ASSUME TypeOK, calls = <<>>
  PROVE  \A c : ~Awaited(c)
<1>1. Len(calls) = 0 /\ lost = 0
  BY DEF TypeOK
<1> QED  BY <1>1 DEF Awaited

(* isRunning() is right once everything has been handled: whatever the     *)
(* order in which NameOwnerChanged, PropertiesChanged and the replies to   *)
(* GetAll arrive, running is never left TRUE without a daemon, nor FALSE   *)
(* with one unless it has said nothing at all.                             *)
THEOREM RunningRight == Spec => []RunningConverges
<1>1. ASSUME TypeInv, RunningInv, Quiet  PROVE RunningConverges
  <2>1. ~up => ~running
    BY <1>1, Settled DEF RunningInv, Quiet
  <2>2. up /\ history.gap["daemon"] # "missed" => running
    BY <1>1, Settled, NothingAwaited DEF RunningInv, Quiet, TypeInv
  <2> QED  BY <2>1, <2>2 DEF RunningConverges
<1>2. TypeInv /\ RunningInv => RunningConverges
  BY <1>1 DEF RunningConverges
<1> QED  BY <1>2, TypeInitial, TypeKept, RunningInitial, RunningKept, PTL DEF Spec

(***************************************************************************)
(* The caches                                                              *)
(***************************************************************************)
(* What the steps of the client do to the queue.                           *)
LEMMA ClientTakes ==
  ASSUME TypeInv, Client
  PROVE  /\ UNCHANGED external
         /\ Construct \/ Subscribe => UNCHANGED <<running, cache, seen, quits, app, queue>>
         /\ ~(Construct \/ Subscribe) =>
              /\ queue # <<>> /\ queue \in Seq(Event)
              /\ Head(queue) \in Event /\ queue' = Tail(queue)
              /\ stage = "ready" /\ stage' = stage
         /\ ~Construct /\ ~OwnerChanged => calls' = calls
<1>1. CASE Construct \/ Subscribe
  BY <1>1 DEF Construct, Subscribe
<1>2. CASE OwnerChanged
  BY <1>2, Handled DEF OwnerChanged, Construct, Subscribe, TypeInv, TypeOK
<1>3. CASE UpdateProperties \/ InitializeProperties \/ DaemonPropertiesChanged
  BY <1>3, Handled
     DEF UpdateProperties, InitializeProperties, DaemonPropertiesChanged,
         Construct, Subscribe, TypeInv, TypeOK
<1>4. CASE OfflinePropertiesChanged \/ OfflineIgnores \/ ListTold \/ PreparedUpdates
  BY <1>4, Handled DEF OfflinePropertiesChanged, OfflineIgnores, ListTold, PreparedUpdates,
                       Construct, Subscribe, client, TypeInv, TypeOK
<1> QED  BY <1>1, <1>2, <1>3, <1>4 DEF Client

(* What happens inside the daemon and to it makes and answers no call.     *)
LEMMA ServiceTakes ==
  ASSUME TypeInv, Service
  PROVE  /\ UNCHANGED <<stage, running, cache, seen, quits, app, calls>>
         /\ ~(LoseOwner \/ StartOwner) =>
              /\ UNCHANGED <<lost, up>> /\ up
              /\ Passes(Owner \cup Prepared)
              /\ stage = "none" /\ ~app.listening => queue' = queue
         /\ LoseOwner \/ StartOwner =>
              /\ stage = "none" => queue' = queue
              /\ stage # "none" => \E e \in Event : /\ e.kind = "owner" /\ e.new = up'
                                                    /\ queue' = Append(queue, e)
<1>1. CASE LoseOwner \/ StartOwner
  BY <1>1, OwnerChanges
<1>2. CASE ChangeDaemon /\ ~(LoseOwner \/ StartOwner)
  <2>1. \/ stage = "none" /\ queue' = queue
        \/ /\ stage # "none"
           /\ \E x \in Event : x.kind = "changed" /\ queue' = Append(queue, x)
        \/ /\ stage # "none"
           /\ \E x, y \in Event : /\ x.kind = "changed" /\ y.kind = "changed"
                                  /\ queue' = Append(Append(queue, x), y)
    BY <1>2, DaemonChanged
  <2>2. Passes(Owner \cup Prepared)
    BY <2>1, EventKinds DEF Passes
  <2> QED  BY <1>2, <2>1, <2>2, DaemonChanged
<1>3. CASE ChangeOffline /\ ~(LoseOwner \/ StartOwner)
  <2>1. PICK h \in History : h.gap = history.gap /\ Change("offline", "power-off", h)
    BY <1>3, CountedTyped DEF ChangeOffline
  <2>2. "power-off" \in Property("offline") /\ calls' = calls
    BY <1>3 DEF Property, ActionString, ChangeOffline
  <2> QED  BY <1>3, <2>1, <2>2, OfflineChangePasses, OfflineChanged
<1>4. CASE ChangeList /\ ~(LoseOwner \/ StartOwner)
  <2>1. IF app.listening
          THEN \E e \in Event : e.kind = "list" /\ queue' = Append(queue, e)
          ELSE queue' = queue
    BY <1>4, ListChanged
  <2>2. Passes(Owner \cup Prepared)
    BY <2>1, EventKinds DEF Passes
  <2> QED  BY <1>4, <2>1, <2>2, ListChanged
<1> QED  BY <1>1, <1>2, <1>3, <1>4 DEF Service

(* The answers restart nothing.                                            *)
LEMMA AnswerAnnouncesNothing ==
  ASSUME TypeInv, Answer
  PROVE  Passes(Owner)
<1>1. CASE AnswerGetAll
  <2>1. \E e \in Event : e.kind = "properties" /\ queue' = Append(queue, e)
    BY <1>1, GetAllAnswered
  <2> QED  BY <2>1, EventKinds DEF Passes
<1>2. CASE AnswerList \/ AnswerPrepared \/ RefuseTrigger
  <2>1. \/ queue' = queue
        \/ \E e \in Event : e.kind \in {"list", "prepared"} /\ queue' = Append(queue, e)
    BY <1>2, Events DEF AnswerList, AnswerPrepared, RefuseTrigger, external, TypeInv, TypeOK
  <2> QED  BY <2>1, EventKinds DEF Passes
<1>3. CASE AnswerTrigger
  BY <1>3, TriggerTyped, OfflineChangePasses, PassesFewer
<1>4. CASE FailCall
  <2>1. \/ queue' = queue
        \/ \E e \in Event : e.kind = "prepared" /\ queue' = Append(queue, e)
    BY <1>4, CallFailed, Events
  <2> QED  BY <2>1, EventKinds DEF Passes
<1> QED  BY <1>1, <1>2, <1>3, <1>4 DEF Answer

(* How the kinds of events are contained in each other.                    *)
LEMMA Owners ==
  /\ Restarts \subseteq Owner /\ Losses \subseteq Owner
  /\ Owner \subseteq Owner \cup Prepared /\ Restarts \subseteq Owner \cup Prepared
  /\ Losses \subseteq Owner \cup Prepared /\ Prepared \subseteq Owner \cup Prepared
  /\ Listed \subseteq Tellings
  BY DEF Restarts, Losses, Tellings

(* A new daemon is announced to a client that watches the owner.           *)
LEMMA RestartNoticed ==
  ASSUME TypeInv, LoseOwner \/ StartOwner, up', NEW i
  PROVE  Refetched(i)'
<1>1. CASE stage # "none"
  <2>1. PICK e \in Event : e.kind = "owner" /\ e.new = up' /\ queue' = Append(queue, e)
    BY <1>1, OwnerChanges
  <2>2. e \in Restarts
    BY <2>1, EventKinds
  <2>3. ~None(queue', Restarts)
    BY <2>1, <2>2, NoneAppended DEF TypeInv, TypeOK
  <2> QED  BY <2>3 DEF Refetched
<1>2. CASE stage = "none"
  BY <1>2, OwnerChanges DEF Refetched
<1> QED  BY <1>1, <1>2

(* The client asks again for what it has not been told: that stays so      *)
(* until its call is answered, unless the daemon goes.                     *)
LEMMA RefetchedKept ==
  ASSUME TypeInv, NEW i \in Interface, Refetched(i), up',
         \/ Client \/ Application \/ Service
         \/ Answer /\ (lost # 0 \/ Head(calls) # GetAll(i))
  PROVE  Refetched(i)'
<1> DEFINE c == GetAll(i)
<1>1. None(queue', Restarts) => None(queue, Restarts) \/ ~Passes(Restarts)
  BY Passed, Restarts \subseteq Restarts DEF TypeInv
<1>2. CASE Client
  <2>1. CASE Construct \/ (OwnerChanged /\ Head(queue) \in Restarts)
    <3>1. /\ getAllProperties \in Seq(Call) /\ UNCHANGED lost
          /\ \E n \in 1..Len(getAllProperties) : getAllProperties[n] = c
      <4>1. getAllProperties[1] = GetAll("daemon") /\ getAllProperties[2] = GetAll("offline")
            /\ Len(getAllProperties) = 2 /\ getAllProperties \in Seq(Call)
        BY Calls DEF getAllProperties, Interface
      <4>2. UNCHANGED lost
        BY <2>1 DEF Construct, OwnerChanged, external
      <4>3. 1 \in 1..2 /\ 2 \in 1..2 /\ (i = "daemon" \/ i = "offline")
        BY DEF Interface
      <4> QED  BY <4>1, <4>2, <4>3
    <3>2. calls' = calls \o getAllProperties
      BY <2>1 DEF Construct, OwnerChanged, OwnerFound, Restarts
    <3>3. Awaited(c)'
      BY <3>1, <3>2, AwaitedFollowed DEF TypeInv
    <3> QED  BY <3>3 DEF Refetched
  <2>2. CASE Subscribe
    BY <2>2, AwaitedKept DEF Subscribe, external, Refetched, Awaited
  <2>3. CASE ~Construct /\ ~Subscribe /\ ~(OwnerChanged /\ Head(queue) \in Restarts)
    <3>1. /\ queue # <<>> /\ Head(queue) \in Event /\ queue' = Tail(queue)
          /\ stage = "ready" /\ stage' = stage
      BY <1>2, <2>3, ClientTakes
    <3>2. Head(queue) \notin Restarts
      <4>1. CASE OwnerChanged
        BY <2>3, <4>1
      <4>2. CASE ~OwnerChanged
        <5>1. Head(queue).kind # "owner"
          BY <1>2, <2>3, <4>2 DEF Client, UpdateProperties, InitializeProperties,
             DaemonPropertiesChanged, OfflinePropertiesChanged, OfflineIgnores, ListTold,
             PreparedUpdates, Handling
        <5> QED  BY <3>1, <5>1, EventKinds
      <4> QED  BY <4>1, <4>2
    <3>3. Passes(Restarts)
      BY <3>1, <3>2 DEF Passes
    <3>4. Awaited(c) => Awaited(c)'
      BY <1>2, AwaitedKept
    <3> QED  BY <1>1, <3>1, <3>3, <3>4 DEF Refetched
  <2> QED  BY <2>1, <2>2, <2>3
<1>3. CASE Application
  <2>1. Passes(Restarts) /\ stage' = stage
    BY <1>3, SendKeeps DEF Passes
  <2>2. Awaited(c) => Awaited(c)'
    BY <1>3, AwaitedKept
  <2> QED  BY <1>1, <2>1, <2>2 DEF Refetched
<1>4. CASE Answer /\ (lost # 0 \/ Head(calls) # GetAll(i))
  <2>1. Passes(Restarts)
    BY <1>4, AnswerAnnouncesNothing, PassesFewer, Owners
  <2>2. Awaited(c) => Awaited(c)'
    BY <1>4, AwaitedAnswered
  <2>3. stage' = stage
    BY <1>4, AnswerTakes DEF client
  <2> QED  BY <1>1, <2>1, <2>2, <2>3 DEF Refetched
<1>5. CASE Service
  <2>1. CASE ~(LoseOwner \/ StartOwner)
    <3>1. Passes(Restarts) /\ UNCHANGED <<stage, calls, lost>>
      BY <1>5, <2>1, ServiceTakes, PassesFewer, Owners
    <3>2. Awaited(c) => Awaited(c)'
      BY <3>1 DEF Awaited
    <3> QED  BY <1>1, <3>1, <3>2 DEF Refetched
  <2>2. CASE LoseOwner \/ StartOwner
    BY <2>2, RestartNoticed
  <2> QED  BY <2>1, <2>2
<1> QED  BY <1>2, <1>3, <1>4, <1>5

(* A step that has nothing to do with the daemon's properties.             *)
LEMMA DaemonUnaffected ==
  ASSUME TypeInv, DaemonInv, Passes(DaemonStored), UNCHANGED up,
         cache'["daemon"] = cache["daemon"], seen'["daemon"] = seen["daemon"],
         value'["daemon"] = value["daemon"],
         history'.gap["daemon"] \in {history.gap["daemon"], "missed"},
         up' /\ history'.gap["daemon"] = "none" /\ Refetched("daemon") => Refetched("daemon")'
  PROVE  DaemonInv'
<1> DEFINE good == {e \in DaemonStored : e.values[1] = value["daemon"]}
           now == cache["daemon"] = value["daemon"]
<1>1. good \subseteq DaemonStored
  OBVIOUS
<1>2. up /\ history.gap["daemon"] = "none" =>
        Refetched("daemon") \/ Settles(queue, DaemonStored, good, now)
  BY DEF DaemonInv
<1>3. seen'["daemon"] = cache'["daemon"]
  BY DEF DaemonInv
<1>4. Settles(queue, DaemonStored, good, now) => Settles(queue', DaemonStored, good, now)
  <2> HIDE DEF good, now
  <2> QED  BY <1>1, Passed DEF TypeInv
<1>5. good = {e \in DaemonStored : e.values[1] = value'["daemon"]}
      /\ now = (cache'["daemon"] = value'["daemon"])
  OBVIOUS
<1> HIDE DEF good, now
<1>6. up' /\ history'.gap["daemon"] = "none" =>
        Refetched("daemon")' \/ Settles(queue', DaemonStored, good, now)
  BY <1>2, <1>4
<1> QED  BY <1>3, <1>5, <1>6 DEF DaemonInv

(* The client stores the daemon's properties or leaves them alone.         *)
LEMMA DaemonHandled ==
  ASSUME TypeInv, Client
  PROVE  \/ /\ queue # <<>> /\ queue \in Seq(Event) /\ queue' = Tail(queue)
            /\ Head(queue) \in DaemonStored
            /\ cache'["daemon"] = Head(queue).values[1] /\ seen'["daemon"] = Head(queue).values[1]
         \/ /\ Passes(DaemonStored)
            /\ cache'["daemon"] = cache["daemon"] /\ seen'["daemon"] = seen["daemon"]
<1>1. CASE UpdateProperties \/ (DaemonPropertiesChanged /\ Head(queue).values # <<>>)
  <2> DEFINE v == Head(queue).values[1]
  <2>1. /\ queue # <<>> /\ queue \in Seq(Event)
        /\ Head(queue) \in Event /\ queue' = Tail(queue)
    BY <1>1, Handled DEF UpdateProperties, DaemonPropertiesChanged, TypeInv, TypeOK
  <2>2. /\ Head(queue).iface = "daemon" /\ Store("daemon", v)
        /\ \/ Head(queue).kind = "properties"
           \/ Head(queue).kind = "changed" /\ Head(queue).to = "daemon" /\ Head(queue).values # <<>>
    BY <1>1 DEF UpdateProperties, DaemonPropertiesChanged, Handling
  <2>3. Head(queue) \in DaemonStored
    BY <2>1, <2>2, EventKinds
  <2>4. cache'["daemon"] = v /\ seen'["daemon"] = v
    BY <2>2 DEF Store, TypeInv, TypeOK, Cached
  <2> QED  BY <2>1, <2>3, <2>4
<1>2. CASE ~(UpdateProperties \/ (DaemonPropertiesChanged /\ Head(queue).values # <<>>))
  <2>1. cache'["daemon"] = cache["daemon"] /\ seen'["daemon"] = seen["daemon"]
    <3>1. CASE InitializeProperties
      BY <3>1 DEF InitializeProperties, TypeInv, TypeOK, Cached
    <3>2. CASE OfflinePropertiesChanged
      BY <3>2 DEF OfflinePropertiesChanged, Store, TypeInv, TypeOK, Cached
    <3>3. CASE ~InitializeProperties /\ ~OfflinePropertiesChanged
      BY <1>2, <3>3 DEF Client, Construct, Subscribe, OwnerChanged, DaemonPropertiesChanged,
         OfflineIgnores, ListTold, PreparedUpdates, client
    <3> QED  BY <3>1, <3>2, <3>3
  <2>2. CASE Construct \/ Subscribe
    BY <2>1, <2>2, ClientTakes DEF Passes
  <2>3. CASE ~(Construct \/ Subscribe)
    <3>1. queue # <<>> /\ Head(queue) \in Event /\ queue' = Tail(queue)
      BY <2>3, ClientTakes
    <3>2. Head(queue) \notin DaemonStored
      <4>1. \/ Head(queue).kind \in {"owner", "list", "prepared"}
            \/ Head(queue).kind \in {"properties", "changed"} /\ Head(queue).iface = "offline"
            \/ /\ Head(queue).kind = "changed"
               /\ Head(queue).to = "offline" \/ Head(queue).values = <<>>
        BY <1>2, <2>3 DEF Client, OwnerChanged, InitializeProperties, DaemonPropertiesChanged,
           OfflinePropertiesChanged, OfflineIgnores, ListTold, PreparedUpdates, Handling
      <4> QED  BY <3>1, <4>1, EventKinds
    <3> QED  BY <2>1, <3>1, <3>2 DEF Passes
  <2> QED  BY <2>2, <2>3
<1> QED  BY <1>1, <1>2

(* The client.                                                             *)
LEMMA DaemonClient ==
  ASSUME TypeInv, DaemonInv, Client
  PROVE  DaemonInv'
<1>1. "daemon" \in Interface
  BY DEF Interface
<1>2. up' /\ Refetched("daemon") => Refetched("daemon")'
  BY <1>1, RefetchedKept
<1>3. UNCHANGED <<lost, value, list, up, history>>
  BY ClientTakes DEF external
<1>4. ASSUME queue # <<>>, queue \in Seq(Event), queue' = Tail(queue), Head(queue) \in DaemonStored,
             cache'["daemon"] = Head(queue).values[1], seen'["daemon"] = Head(queue).values[1]
      PROVE  DaemonInv'
  <2> DEFINE good == {e \in DaemonStored : e.values[1] = value["daemon"]}
             now == cache["daemon"] = value["daemon"]
             then == cache'["daemon"] = value["daemon"]
  <2>1. Settles(queue, DaemonStored, good, now) => Settles(queue', DaemonStored, good, then)
    <3>1. Head(queue) \in good => then
      BY <1>4
    <3> HIDE DEF good, now, then
    <3> QED  BY <1>4, <3>1, SettlesTail
  <2>2. up /\ history.gap["daemon"] = "none" =>
          Refetched("daemon") \/ Settles(queue, DaemonStored, good, now)
    BY DEF DaemonInv
  <2>3. good = {e \in DaemonStored : e.values[1] = value'["daemon"]}
        /\ then = (cache'["daemon"] = value'["daemon"])
    BY <1>3
  <2> HIDE DEF good, now, then
  <2>4. up' /\ history'.gap["daemon"] = "none" =>
          Refetched("daemon")' \/ Settles(queue', DaemonStored, good, then)
    BY <1>2, <1>3, <2>1, <2>2
  <2> QED  BY <1>4, <2>3, <2>4 DEF DaemonInv
<1>5. ASSUME Passes(DaemonStored),
             cache'["daemon"] = cache["daemon"], seen'["daemon"] = seen["daemon"]
      PROVE  DaemonInv'
  BY <1>2, <1>3, <1>5, DaemonUnaffected
<1> QED  BY <1>4, <1>5, DaemonHandled

(* A step whose last event brings the daemon's properties.                 *)
LEMMA DaemonLands ==
  ASSUME TypeInv, DaemonInv, UNCHANGED <<cache, seen>>,
         \/ \E x \in Event : /\ x \in DaemonStored /\ x.values[1] = value'["daemon"]
                             /\ queue' = Append(queue, x)
         \/ \E x, y \in Event : /\ y \in DaemonStored /\ y.values[1] = value'["daemon"]
                                /\ queue' = Append(Append(queue, x), y)
  PROVE  DaemonInv'
<1> DEFINE good == {e \in DaemonStored : e.values[1] = value'["daemon"]}
           now == cache'["daemon"] = value'["daemon"]
<1>1. Lands(good)
  BY DEF Lands
<1>2. Settles(queue', DaemonStored, good, now)
  <2> HIDE DEF good, now
  <2> QED  BY <1>1, Landed DEF TypeInv
<1> QED  BY <1>2 DEF DaemonInv

(* The application.                                                        *)
LEMMA DaemonApplication ==
  ASSUME TypeInv, DaemonInv, Application
  PROVE  DaemonInv'
<1>1. Passes(DaemonStored)
  BY SendKeeps DEF Passes
<1>2. up' /\ Refetched("daemon") => Refetched("daemon")'
  BY RefetchedKept DEF Interface
<1> QED  BY <1>1, <1>2, SendKeeps, ApplicationHistory, DaemonUnaffected

(* The answers.                                                            *)
LEMMA DaemonAnswer ==
  ASSUME TypeInv, DaemonInv, Answer
  PROVE  DaemonInv'
<1> DEFINE c == GetAll("daemon")
<1>1. Head(calls) \in Call /\ UNCHANGED <<stage, cache, seen, up>>
  BY AnswerTakes DEF client
<1>2. up' /\ Refetched("daemon") => Refetched("daemon")' \/ (lost = 0 /\ Head(calls) = c)
  BY RefetchedKept DEF Interface
<1>3. c.method = "GetAll" /\ "daemon" \in Interface
  BY DEF GetAll, Interface
<1>4. ASSUME Passes(DaemonStored), history'.gap["daemon"] = history.gap["daemon"],
             value'["daemon"] = value["daemon"], lost # 0 \/ Head(calls) # c
      PROVE  DaemonInv'
  BY <1>1, <1>2, <1>4, DaemonUnaffected
<1>5. CASE AnswerGetAll
  <2>1. PICK i \in Interface :
          /\ Head(calls) = GetAll(i) /\ value' = value
          /\ \E e \in Event : /\ e.kind = "properties" /\ e.iface = i /\ e.values = <<value[i]>>
                              /\ queue' = Append(queue, e)
          /\ \A j \in Interface : j # i => history'.gap[j] = history.gap[j]
    BY <1>5, GetAllAnswered DEF client
  <2>2. CASE i = "daemon"
    <3>1. PICK e \in Event : /\ e.kind = "properties" /\ e.iface = "daemon"
                             /\ e.values = <<value["daemon"]>> /\ queue' = Append(queue, e)
      BY <2>1, <2>2
    <3>2. e \in DaemonStored /\ e.values[1] = value'["daemon"]
      BY <2>1, <3>1, EventKinds
    <3> QED  BY <1>1, <3>1, <3>2, DaemonLands
  <2>3. CASE i # "daemon"
    <3>1. Passes(DaemonStored)
      BY <2>1, <2>3, EventKinds DEF Passes
    <3>2. Head(calls) # c
      BY <2>1, <2>3 DEF GetAll
    <3> QED  BY <1>3, <1>4, <2>1, <2>3, <3>1, <3>2
  <2> QED  BY <2>2, <2>3
<1>6. CASE AnswerList \/ AnswerPrepared \/ RefuseTrigger
  <2>1. \/ queue' = queue
        \/ \E e \in Event : e.kind \in {"list", "prepared"} /\ queue' = Append(queue, e)
    BY <1>6, Events DEF AnswerList, AnswerPrepared, RefuseTrigger, external, TypeInv, TypeOK
  <2>2. Passes(DaemonStored)
    BY <2>1, EventKinds DEF Passes
  <2>3. Head(calls) # c /\ history' = history /\ value' = value
    BY <1>3, <1>6 DEF AnswerList, AnswerPrepared, RefuseTrigger, Serving, external
  <2> QED  BY <1>4, <2>2, <2>3
<1>7. CASE AnswerTrigger
  <2>1. /\ Passes(DaemonStored) /\ history'.gap["daemon"] = history.gap["daemon"]
        /\ value'["daemon"] = value["daemon"]
    BY <1>7, TriggerTyped, OfflineChangePasses, OfflineChanged
  <2>2. Head(calls) # c
    BY <1>3, <1>7, TriggerTyped
  <2> QED  BY <1>4, <2>1, <2>2
<1>8. CASE FailCall
  <2>1. \/ queue' = queue
        \/ \E e \in Event : e.kind = "prepared" /\ queue' = Append(queue, e)
    BY <1>8, CallFailed, Events
  <2>2. Passes(DaemonStored)
    BY <2>1, EventKinds DEF Passes
  <2>3. /\ history'.gap["daemon"] \in {history.gap["daemon"], "missed"}
        /\ lost = 0 /\ up /\ Head(calls) = c => history'.gap["daemon"] = "missed"
        /\ value' = value
    BY <1>3, <1>8, CallFailed
  <2> QED  BY <1>1, <1>2, <2>2, <2>3, DaemonUnaffected
<1> QED  BY <1>5, <1>6, <1>7, <1>8 DEF Answer

(* What happens to the daemon.                                             *)
LEMMA DaemonService ==
  ASSUME TypeInv, DaemonInv, Service
  PROVE  DaemonInv'
<1>1. up' /\ Refetched("daemon") => Refetched("daemon")'
  BY RefetchedKept DEF Interface
<1>2. UNCHANGED <<stage, running, cache, seen, calls>>
  BY ServiceTakes
<1>3. CASE ChangeDaemon
  <2>1. CASE stage = "none" \/ (stage = "ready" /\ history'.gap["daemon"] = "withheld")
    BY <1>2, <2>1 DEF DaemonInv, Refetched
  <2>2. CASE stage = "watching"
    <3>1. \/ history'.gap["daemon"] = "missed"
          \/ Awaited(GetAll("daemon"))'
      BY <1>3, <2>2, DaemonChanged
    <3> QED  BY <1>2, <3>1 DEF DaemonInv, Refetched
  <2>3. CASE stage = "ready" /\ history'.gap["daemon"] # "withheld"
    <3>1. PICK x \in Event, y \in Event :
            /\ y.kind = "changed" /\ y.to = "daemon" /\ y.iface = "daemon"
            /\ queue' = Append(Append(queue, x), y)
            /\ y.values = <<value'["daemon"]>>
      BY <1>3, <2>3, DaemonChanged
    <3>2. y.values # <<>> /\ y.values[1] = value'["daemon"]
      BY <3>1
    <3>3. y \in DaemonStored
      BY <3>1, <3>2, EventKinds
    <3> QED  BY <1>2, <3>1, <3>2, <3>3, DaemonLands
  <2> QED  BY <2>1, <2>2, <2>3 DEF TypeInv, TypeOK
<1>4. CASE ChangeOffline
  <2>1. PICK h \in History : h.gap = history.gap /\ Change("offline", "power-off", h)
    BY <1>4, CountedTyped DEF ChangeOffline
  <2>2. "power-off" \in Property("offline")
    BY DEF Property, ActionString
  <2>3. /\ Passes(DaemonStored) /\ history'.gap["daemon"] = history.gap["daemon"]
        /\ value'["daemon"] = value["daemon"] /\ UNCHANGED up
    BY <2>1, <2>2, OfflineChangePasses, OfflineChanged
  <2> QED  BY <1>1, <1>2, <2>3, DaemonUnaffected
<1>5. CASE ChangeList
  <2>1. /\ UNCHANGED <<value, up>> /\ history'.gap = history.gap
        /\ IF app.listening
             THEN \E e \in Event : e.kind = "list" /\ queue' = Append(queue, e)
             ELSE queue' = queue
    BY <1>5, ListChanged
  <2>2. Passes(DaemonStored)
    BY <2>1, EventKinds DEF Passes
  <2> QED  BY <1>1, <1>2, <2>1, <2>2, DaemonUnaffected
<1>6. CASE LoseOwner \/ StartOwner
  <2>1. up' => Refetched("daemon")'
    BY <1>6, RestartNoticed
  <2> QED  BY <1>2, <2>1 DEF DaemonInv
<1> QED  BY <1>3, <1>4, <1>5, <1>6 DEF Service

(* Every step keeps what is claimed about the daemon's properties, ...     *)
LEMMA DaemonKept ==
  TypeInv /\ DaemonInv /\ [Next]_vars => DaemonInv'
<1> SUFFICES ASSUME TypeInv, DaemonInv, [Next]_vars  PROVE DaemonInv'
  OBVIOUS
<1>1. CASE UNCHANGED vars
  BY <1>1 DEF vars, DaemonInv, Refetched, Awaited
<1> QED  BY <1>1, DaemonClient, DaemonApplication, DaemonAnswer, DaemonService DEF Next

(* ... and it holds at first.                                              *)
LEMMA DaemonInitial ==
  Init => DaemonInv
BY DEF Init, DaemonInv, Refetched

(* Each change of a daemon property is shown: an application that reads    *)
(* the getters whenever changed() is emitted has the daemon's value once   *)
(* everything has been handled, also after a restart and also when a       *)
(* change overtakes the reply to GetAll.                                   *)
THEOREM DaemonShown == Spec => []DaemonChangesShown
<1>1. ASSUME TypeInv, DaemonInv, Quiet, up, history.gap["daemon"] = "none"
      PROVE  seen["daemon"] = value["daemon"]
  <2>1. ~Refetched("daemon")
    BY <1>1, Settled, NothingAwaited DEF Refetched, Quiet, TypeInv
  <2> QED  BY <1>1, <2>1, Settled DEF DaemonInv, Quiet
<1>2. TypeInv /\ DaemonInv => DaemonChangesShown
  BY <1>1 DEF DaemonChangesShown
<1> QED  BY <1>2, TypeInitial, TypeKept, DaemonInitial, DaemonKept, PTL DEF Spec

(* The meaning of a trigger is what the daemon reads.                      *)
Triggers(q) == \A n \in 1..Len(q) : q[n].method = "Trigger" => Parsed(q[n].action) = q[n].meant

(* One more call, whose action means what was meant.                       *)
LEMMA TriggersAppended ==
  ASSUME NEW q \in Seq(Call), NEW c \in Call, Triggers(q),
         c.method = "Trigger" => Parsed(c.action) = c.meant
  PROVE  Triggers(Append(q, c))
<1>1. \A n \in 1..(Len(q) + 1) : n \in 1..Len(q) \/ n = Len(q) + 1
  BY Appended
<1> QED  BY <1>1, Appended DEF Triggers

(* The daemon has the action that was meant.                               *)
LEMMA MeantKept ==
  TypeInv /\ Meant /\ [Next]_vars => Meant'
<1> SUFFICES ASSUME TypeInv, Meant, [Next]_vars  PROVE Meant'
  OBVIOUS
<1>1. Triggers(calls) /\ calls \in Seq(Call) /\ Parsed(value["offline"]) = history.meant
  BY DEF Meant, Triggers, TypeInv, TypeOK
<1>2. ASSUME Triggers(calls'), Parsed(value'["offline"]) = history'.meant
      PROVE  Meant'
  BY <1>2 DEF Meant, Triggers
<1>3. CASE UNCHANGED vars
  BY <1>3 DEF vars, Meant
<1>4. CASE Client
  <2>1. UNCHANGED <<value, history>>
    BY <1>4, ClientTakes DEF external
  <2>2. CASE calls' = calls \o getAllProperties
    <3> DEFINE d == GetAll("daemon")
               o == GetAll("offline")
    <3>1. d \in Call /\ d.method = "GetAll" /\ o \in Call /\ o.method = "GetAll"
      BY Calls DEF GetAll, Interface
    <3>2. getAllProperties = <<d, o>>
      BY DEF getAllProperties
    <3> HIDE DEF d, o
    <3>3. calls' = Append(Append(calls, d), o) /\ Append(calls, d) \in Seq(Call)
      BY <1>1, <2>2, <3>1, <3>2
    <3>4. Triggers(Append(calls, d))
      BY <1>1, <3>1, TriggersAppended
    <3>5. Triggers(calls')
      BY <3>1, <3>3, <3>4, TriggersAppended
    <3> QED  BY <1>1, <1>2, <2>1, <3>5
  <2>3. CASE calls' = calls
    BY <1>1, <1>2, <2>1, <2>3
  <2>4. calls' = calls \o getAllProperties \/ calls' = calls
    BY <1>4, ClientTakes DEF Construct, OwnerChanged, OwnerFound
  <2> QED  BY <2>2, <2>3, <2>4
<1>5. CASE Application
  <2>1. PICK c \in Call : calls' = Append(calls, c) /\ (c.method = "Trigger" => Parsed(c.action) = c.meant)
    <3>1. CASE FollowList
      BY <3>1, Calls DEF FollowList, Send, getTransactionList
    <3>2. CASE GetPrepared
      BY <3>2, Calls DEF GetPrepared, Send
    <3>3. CASE Cancel
      BY <3>3, Calls, Actions DEF Cancel, Send, ActionString, Action
    <3>4. ASSUME NEW a \in Action, Trigger(a)
          PROVE  \E c \in Call : /\ calls' = Append(calls, c)
                                 /\ c.method = "Trigger" => Parsed(c.action) = c.meant
      BY <3>4, Calls, Actions DEF Trigger, Send
    <3> QED  BY <1>5, <3>1, <3>2, <3>3, <3>4 DEF Application
  <2>2. Triggers(calls')
    BY <1>1, <2>1, TriggersAppended
  <2> QED  BY <1>1, <1>2, <1>5, <2>2, SendKeeps, ApplicationHistory
<1>6. CASE Answer
  <2>1. /\ calls # <<>> /\ calls' = Tail(calls) /\ Head(calls) = calls[1] /\ 1 \in 1..Len(calls)
    BY <1>6, AnswerTakes
  <2>2. Triggers(calls')
    BY <1>1, <2>1, HeadAndTail DEF Triggers
  <2>3. CASE AnswerTrigger
    <3>1. Parsed(Head(calls).action) = Head(calls).meant
      BY <1>1, <2>1, <2>3, TriggerTyped DEF Triggers
    <3>2. value'["offline"] = Head(calls).action /\ history'.meant = Head(calls).meant
      BY <2>3, TriggerTyped, OfflineChanged
    <3> QED  BY <1>2, <2>2, <3>1, <3>2
  <2>4. CASE AnswerGetAll
    BY <1>1, <1>2, <2>2, <2>4, GetAllAnswered
  <2>5. CASE FailCall
    BY <1>1, <1>2, <2>2, <2>5, CallFailed
  <2>6. CASE AnswerList \/ AnswerPrepared \/ RefuseTrigger
    BY <1>1, <1>2, <2>2, <2>6 DEF AnswerList, AnswerPrepared, RefuseTrigger, external
  <2> QED  BY <1>6, <2>3, <2>4, <2>5, <2>6 DEF Answer
<1>7. CASE Service
  <2>1. Triggers(calls')
    BY <1>1, <1>7, ServiceTakes
  <2>2. CASE ChangeDaemon
    BY <1>1, <1>2, <2>1, <2>2, DaemonChanged
  <2>3. CASE ChangeOffline
    <3>1. PICK h \in History : /\ h.gap = history.gap /\ h.meant = "ActionPowerOff"
                               /\ Change("offline", "power-off", h)
      BY <2>3, CountedTyped DEF ChangeOffline
    <3>2. "power-off" \in Property("offline")
      BY DEF Property, ActionString
    <3>3. value'["offline"] = "power-off" /\ history'.meant = "ActionPowerOff"
      BY <3>1, <3>2, OfflineChanged
    <3> QED  BY <1>2, <2>1, <3>3, Actions
  <2>4. CASE ChangeList
    BY <1>1, <1>2, <2>1, <2>4, ListChanged
  <2>5. CASE LoseOwner \/ StartOwner
    BY <1>1, <1>2, <2>1, <2>5, OwnerChanges
  <2> QED  BY <1>7, <2>2, <2>3, <2>4, <2>5 DEF Service
<1> QED  BY <1>3, <1>4, <1>5, <1>6, <1>7 DEF Next

(* A step that has nothing to do with the Offline properties.              *)
LEMMA OfflineUnaffected ==
  ASSUME TypeInv, OfflineInv, Passes(OfflineStored), UNCHANGED up,
         cache'["offline"] = cache["offline"], history'.meant = history.meant,
         history'.gap["offline"] \in {history.gap["offline"], "missed"},
         up' /\ history'.gap["offline"] # "missed" /\ Refetched("offline") => Refetched("offline")'
  PROVE  OfflineInv'
<1> DEFINE good == {e \in OfflineStored : updatedAction(e.values) = Wanted}
           now == cache["offline"] = Wanted
<1>1. good \subseteq OfflineStored
  OBVIOUS
<1>2. up /\ history.gap["offline"] # "missed" =>
        Refetched("offline") \/ Settles(queue, OfflineStored, good, now)
  BY DEF OfflineInv
<1>3. Settles(queue, OfflineStored, good, now) => Settles(queue', OfflineStored, good, now)
  <2> HIDE DEF good, now
  <2> QED  BY <1>1, Passed DEF TypeInv
<1>4. history'.gap["offline"] # "missed" =>
        /\ good = {e \in OfflineStored : updatedAction(e.values) = Wanted'}
        /\ now = (cache'["offline"] = Wanted')
  BY DEF Wanted
<1> HIDE DEF good, now
<1>5. up' /\ history'.gap["offline"] # "missed" =>
        Refetched("offline")' \/ Settles(queue', OfflineStored, good, now)
  BY <1>2, <1>3
<1> QED  BY <1>4, <1>5 DEF OfflineInv

(* A step whose last event brings the Offline properties.                  *)
LEMMA OfflineLands ==
  ASSUME TypeInv, UNCHANGED cache,
         \/ \E x \in Event : /\ x \in OfflineStored /\ updatedAction(x.values) = Wanted'
                             /\ queue' = Append(queue, x)
         \/ \E x, y \in Event : /\ y \in OfflineStored /\ updatedAction(y.values) = Wanted'
                                /\ queue' = Append(Append(queue, x), y)
  PROVE  OfflineInv'
<1> DEFINE good == {e \in OfflineStored : updatedAction(e.values) = Wanted'}
           now == cache'["offline"] = Wanted'
<1>1. Lands(good)
  BY DEF Lands
<1>2. Settles(queue', OfflineStored, good, now)
  <2> HIDE DEF good, now
  <2> QED  BY <1>1, Landed DEF TypeInv
<1> QED  BY <1>2 DEF OfflineInv

(* An event that is handled.                                               *)
LEMMA OfflineHandled ==
  ASSUME TypeInv, OfflineInv, queue # <<>>, queue' = Tail(queue), UNCHANGED <<up, history>>,
         Head(queue) \in OfflineStored, cache'["offline"] = updatedAction(Head(queue).values),
         up' /\ Refetched("offline") => Refetched("offline")'
  PROVE  OfflineInv'
<1> DEFINE good == {e \in OfflineStored : updatedAction(e.values) = Wanted}
           now == cache["offline"] = Wanted
           then == cache'["offline"] = Wanted
<1>1. Settles(queue, OfflineStored, good, now) => Settles(queue', OfflineStored, good, then)
  <2>1. Head(queue) \in good => then
    OBVIOUS
  <2>2. queue \in Seq(Event)
    BY DEF TypeInv, TypeOK
  <2> HIDE DEF good, now, then
  <2> QED  BY <2>1, <2>2, SettlesTail
<1>2. up /\ history.gap["offline"] # "missed" =>
        Refetched("offline") \/ Settles(queue, OfflineStored, good, now)
  BY DEF OfflineInv
<1>3. good = {e \in OfflineStored : updatedAction(e.values) = Wanted'}
      /\ then = (cache'["offline"] = Wanted')
  BY DEF Wanted
<1> HIDE DEF good, now, then
<1>4. up' /\ history'.gap["offline"] # "missed" =>
        Refetched("offline")' \/ Settles(queue', OfflineStored, good, then)
  BY <1>1, <1>2
<1> QED  BY <1>3, <1>4 DEF OfflineInv

(* The client.                                                             *)
LEMMA OfflineClient ==
  ASSUME TypeInv, OfflineInv, Client
  PROVE  OfflineInv'
<1>1. up' /\ Refetched("offline") => Refetched("offline")'
  BY RefetchedKept DEF Interface
<1>2. UNCHANGED <<lost, value, list, up, history>>
  BY ClientTakes DEF external
<1>3. CASE InitializeProperties
  <2>1. /\ queue # <<>> /\ Head(queue) \in Event /\ queue' = Tail(queue)
        /\ Head(queue).kind = "properties" /\ Head(queue).iface = "offline"
    BY <1>3, Handled DEF InitializeProperties, TypeInv
  <2>2. Head(queue).values # <<>> /\ Head(queue) \in OfflineStored
    BY <2>1, EventTyped, EventKinds
  <2>3. cache'["offline"] = updatedAction(Head(queue).values)
    BY <1>3, <2>2 DEF InitializeProperties, updatedAction, TypeInv, TypeOK, Cached
  <2> QED  BY <1>1, <1>2, <2>1, <2>2, <2>3, OfflineHandled
<1>4. CASE OfflinePropertiesChanged
  <2>1. /\ queue # <<>> /\ Head(queue) \in Event /\ queue' = Tail(queue)
        /\ Head(queue).kind = "changed" /\ Head(queue).iface = "offline"
    BY <1>4, Handled DEF OfflinePropertiesChanged, TypeInv
  <2>2. Head(queue) \in OfflineStored
    BY <2>1, EventKinds
  <2>3. cache'["offline"] = updatedAction(Head(queue).values)
    BY <1>4 DEF OfflinePropertiesChanged, Store, TypeInv, TypeOK, Cached
  <2> QED  BY <1>1, <1>2, <2>1, <2>2, <2>3, OfflineHandled
<1>5. CASE ~InitializeProperties /\ ~OfflinePropertiesChanged
  <2>1. cache'["offline"] = cache["offline"]
    <3>1. CASE UpdateProperties
      BY <3>1 DEF UpdateProperties, Store, TypeInv, TypeOK, Cached
    <3>2. CASE DaemonPropertiesChanged
      BY <3>2 DEF DaemonPropertiesChanged, Store, TypeInv, TypeOK, Cached
    <3>3. CASE ~UpdateProperties /\ ~DaemonPropertiesChanged
      BY <1>5, <3>3 DEF Client, Construct, Subscribe, OwnerChanged,
         OfflineIgnores, ListTold, PreparedUpdates, client
    <3> QED  BY <3>1, <3>2, <3>3
  <2>2. CASE Construct \/ Subscribe
    <3>1. Passes(OfflineStored)
      BY <2>2, ClientTakes DEF Passes
    <3> QED  BY <1>1, <1>2, <2>1, <3>1, OfflineUnaffected
  <2>3. CASE ~(Construct \/ Subscribe)
    <3>1. queue # <<>> /\ Head(queue) \in Event /\ queue' = Tail(queue)
      BY <2>3, ClientTakes
    <3>2. Head(queue) \notin OfflineStored
      <4>1. \/ Head(queue).kind \in {"owner", "list", "prepared"}
            \/ Head(queue).kind \in {"properties", "changed"} /\ Head(queue).iface = "daemon"
        BY <1>5, <2>3 DEF Client, OwnerChanged, UpdateProperties, DaemonPropertiesChanged,
           OfflineIgnores, ListTold, PreparedUpdates, Handling
      <4> QED  BY <3>1, <4>1, EventKinds
    <3>3. Passes(OfflineStored)
      BY <3>1, <3>2 DEF Passes
    <3> QED  BY <1>1, <1>2, <2>1, <3>3, OfflineUnaffected
  <2> QED  BY <2>2, <2>3
<1> QED  BY <1>3, <1>4, <1>5

(* The application.                                                        *)
LEMMA OfflineApplication ==
  ASSUME TypeInv, OfflineInv, Application
  PROVE  OfflineInv'
<1>1. Passes(OfflineStored)
  BY SendKeeps DEF Passes
<1>2. up' /\ Refetched("offline") => Refetched("offline")'
  BY RefetchedKept DEF Interface
<1> QED  BY <1>1, <1>2, SendKeeps, ApplicationHistory, OfflineUnaffected

(* The action changes: each subscriber is told what it means.              *)
LEMMA ActionChanged ==
  ASSUME TypeInv, NEW v \in Property("offline"), NEW h \in History, h.gap = history.gap,
         Change("offline", v, h), Parsed(v) = h.meant
  PROVE  OfflineInv'
<1>1. UNCHANGED <<stage, cache>> /\ history'.meant = h.meant
  BY OfflineChanged
<1>2. CASE stage = "none"
  BY <1>1, <1>2 DEF OfflineInv, Refetched
<1>3. CASE stage # "none"
  <2>1. PICK vs \in {<<v>>, <<>>} :
          /\ history'.gap["offline"] = IF vs = <<>> THEN "withheld" ELSE "none"
          /\ \/ \E x \in Event : /\ x.kind = "changed" /\ x.iface = "offline" /\ x.values = vs
                                 /\ queue' = Append(queue, x)
             \/ \E x, y \in Event :
                  /\ x.kind = "changed" /\ x.iface = "offline"
                  /\ y.kind = "changed" /\ y.iface = "offline" /\ y.values = vs
                  /\ queue' = Append(Append(queue, x), y)
    BY <1>3, OfflineChanged
  <2>2. updatedAction(vs) = Wanted'
    BY <1>1, <2>1 DEF updatedAction, Wanted
  <2>3. \A e \in Event : e.kind = "changed" /\ e.iface = "offline" => e \in OfflineStored
    BY EventKinds
  <2> QED  BY <1>1, <2>1, <2>2, <2>3, OfflineLands
<1> QED  BY <1>2, <1>3

(* The answers.                                                            *)
LEMMA OfflineAnswer ==
  ASSUME TypeInv, Meant, OfflineInv, Answer
  PROVE  OfflineInv'
<1> DEFINE c == GetAll("offline")
<1>1. Head(calls) \in Call /\ UNCHANGED <<stage, cache, seen, up>>
  BY AnswerTakes DEF client
<1>2. up' /\ Refetched("offline") => Refetched("offline")' \/ (lost = 0 /\ Head(calls) = c)
  BY RefetchedKept DEF Interface
<1>3. c.method = "GetAll" /\ "offline" \in Interface
  BY DEF GetAll, Interface
<1>4. CASE AnswerGetAll
  <2>1. PICK i \in Interface :
          /\ Head(calls) = GetAll(i) /\ value' = value /\ history'.meant = history.meant
          /\ \E e \in Event : /\ e.kind = "properties" /\ e.iface = i /\ e.values = <<value[i]>>
                              /\ queue' = Append(queue, e)
          /\ history'.gap[i] = "none"
          /\ \A j \in Interface : j # i => history'.gap[j] = history.gap[j]
    BY <1>4, GetAllAnswered DEF client
  <2>2. CASE i = "offline"
    <3>1. PICK e \in Event : /\ e.kind = "properties" /\ e.iface = "offline"
                             /\ e.values = <<value["offline"]>> /\ queue' = Append(queue, e)
      BY <2>1, <2>2
    <3>2. e \in OfflineStored
      BY <3>1, EventKinds
    <3>3. updatedAction(e.values) = Wanted'
      BY <2>1, <2>2, <3>1 DEF Wanted, Meant, updatedAction
    <3> QED  BY <1>1, <3>1, <3>2, <3>3, OfflineLands
  <2>3. CASE i # "offline"
    <3>1. Passes(OfflineStored)
      BY <2>1, <2>3, EventKinds DEF Passes
    <3>2. Head(calls) # c
      BY <2>1, <2>3 DEF GetAll
    <3> QED  BY <1>1, <1>2, <1>3, <2>1, <2>3, <3>1, <3>2, OfflineUnaffected
  <2> QED  BY <2>2, <2>3
<1>5. CASE AnswerList \/ AnswerPrepared \/ RefuseTrigger
  <2>1. \/ queue' = queue
        \/ \E e \in Event : e.kind \in {"list", "prepared"} /\ queue' = Append(queue, e)
    BY <1>5, Events DEF AnswerList, AnswerPrepared, RefuseTrigger, external, TypeInv, TypeOK
  <2>2. Passes(OfflineStored)
    BY <2>1, EventKinds DEF Passes
  <2>3. Head(calls) # c /\ history' = history
    BY <1>3, <1>5 DEF AnswerList, AnswerPrepared, RefuseTrigger, Serving, external
  <2> QED  BY <1>1, <1>2, <2>2, <2>3, OfflineUnaffected
<1>6. CASE AnswerTrigger
  <2>1. 1 \in 1..Len(calls) /\ Head(calls) = calls[1]
    BY AnswerTakes
  <2>2. Parsed(Head(calls).action) = Head(calls).meant
    BY <1>6, <2>1, TriggerTyped DEF Meant
  <2> QED  BY <1>6, <2>2, TriggerTyped, ActionChanged
<1>7. CASE FailCall
  <2>1. \/ queue' = queue
        \/ \E e \in Event : e.kind = "prepared" /\ queue' = Append(queue, e)
    BY <1>7, CallFailed, Events
  <2>2. Passes(OfflineStored)
    BY <2>1, EventKinds DEF Passes
  <2>3. /\ history'.gap["offline"] \in {history.gap["offline"], "missed"}
        /\ lost = 0 /\ up /\ Head(calls) = c => history'.gap["offline"] = "missed"
        /\ history'.meant = history.meant
    BY <1>3, <1>7, CallFailed
  <2> QED  BY <1>1, <1>2, <2>2, <2>3, OfflineUnaffected
<1> QED  BY <1>4, <1>5, <1>6, <1>7 DEF Answer

(* What happens to the daemon.                                             *)
LEMMA OfflineService ==
  ASSUME TypeInv, OfflineInv, Service
  PROVE  OfflineInv'
<1>1. up' /\ Refetched("offline") => Refetched("offline")'
  BY RefetchedKept DEF Interface
<1>2. UNCHANGED <<stage, running, cache, seen, calls>>
  BY ServiceTakes
<1>3. CASE ChangeDaemon
  <2>1. /\ UNCHANGED up /\ history'.gap["offline"] = history.gap["offline"]
        /\ history'.meant = history.meant
    BY <1>3, DaemonChanged
  <2>2. \/ queue' = queue
        \/ \E x \in Event : /\ x.kind = "changed" /\ x.iface = "daemon"
                            /\ queue' = Append(queue, x)
        \/ \E x, y \in Event : /\ x.kind = "changed" /\ x.iface = "daemon"
                               /\ y.kind = "changed" /\ y.iface = "daemon"
                               /\ queue' = Append(Append(queue, x), y)
    BY <1>3, DaemonChanged
  <2>3. Passes(OfflineStored)
    BY <2>2, EventKinds DEF Passes
  <2> QED  BY <1>1, <1>2, <2>1, <2>3, OfflineUnaffected
<1>4. CASE ChangeOffline
  <2>1. PICK h \in History : /\ h.gap = history.gap /\ h.meant = "ActionPowerOff"
                             /\ Change("offline", "power-off", h)
    BY <1>4, CountedTyped DEF ChangeOffline
  <2>2. "power-off" \in Property("offline")
    BY DEF Property, ActionString
  <2> QED  BY <2>1, <2>2, Actions, ActionChanged
<1>5. CASE ChangeList
  <2>1. /\ UNCHANGED up /\ history'.gap = history.gap /\ history'.meant = history.meant
        /\ IF app.listening
             THEN \E e \in Event : e.kind = "list" /\ queue' = Append(queue, e)
             ELSE queue' = queue
    BY <1>5, ListChanged
  <2>2. Passes(OfflineStored)
    BY <2>1, EventKinds DEF Passes
  <2> QED  BY <1>1, <1>2, <2>1, <2>2, OfflineUnaffected
<1>6. CASE LoseOwner \/ StartOwner
  <2>1. up' => Refetched("offline")'
    BY <1>6, RestartNoticed
  <2> QED  BY <2>1 DEF OfflineInv
<1> QED  BY <1>3, <1>4, <1>5, <1>6 DEF Service

(* Every step keeps what is claimed about the Offline cache, ...           *)
LEMMA OfflineKept ==
  TypeInv /\ Meant /\ OfflineInv /\ [Next]_vars => OfflineInv'
<1> SUFFICES ASSUME TypeInv, Meant, OfflineInv, [Next]_vars  PROVE OfflineInv'
  OBVIOUS
<1>1. CASE UNCHANGED vars
  BY <1>1 DEF vars, OfflineInv, Refetched, Awaited, Wanted
<1> QED  BY <1>1, OfflineClient, OfflineApplication, OfflineAnswer, OfflineService DEF Next

(* ... and it holds at first.                                              *)
LEMMA OfflineInitial ==
  Init => Meant /\ OfflineInv
<1> SUFFICES ASSUME Init  PROVE Meant /\ OfflineInv
  OBVIOUS
<1>1. \A n \in 1..Len(calls) : FALSE
  BY DEF Init
<1>2. Parsed(value["offline"]) = history.meant
  BY Actions DEF Init
<1> QED  BY <1>1, <1>2 DEF Init, Meant, OfflineInv, Refetched

(***************************************************************************)
(* What was sent last                                                      *)
(***************************************************************************)
(* The daemon's properties as the client has them, or will have them, are  *)
(* those that were sent last.                                              *)
SentInv ==
  Settles(queue, DaemonStored, {e \in DaemonStored : e.values[1] = history.sent},
          cache["daemon"] = history.sent)

(* A step that has nothing to do with the daemon's properties.             *)
LEMMA SentUnaffected ==
  ASSUME TypeInv, SentInv, Passes(DaemonStored), cache'["daemon"] = cache["daemon"],
         history'.sent = history.sent
  PROVE  SentInv'
<1> DEFINE good == {e \in DaemonStored : e.values[1] = history.sent}
           now == cache["daemon"] = history.sent
<1>1. good \subseteq DaemonStored /\ Settles(queue, DaemonStored, good, now)
  BY DEF SentInv
<1>2. good = {e \in DaemonStored : e.values[1] = history'.sent}
      /\ now = (cache'["daemon"] = history'.sent)
  OBVIOUS
<1> HIDE DEF good, now
<1>3. Settles(queue', DaemonStored, good, now)
  BY <1>1, Passed DEF TypeInv
<1> QED  BY <1>2, <1>3 DEF SentInv

(* A step whose last event brings what was sent last.                      *)
LEMMA SentLands ==
  ASSUME TypeInv,
         \/ \E x \in Event : /\ x \in DaemonStored /\ x.values[1] = history'.sent
                             /\ queue' = Append(queue, x)
         \/ \E x, y \in Event : /\ y \in DaemonStored /\ y.values[1] = history'.sent
                                /\ queue' = Append(Append(queue, x), y)
  PROVE  SentInv'
<1> DEFINE good == {e \in DaemonStored : e.values[1] = history'.sent}
           now == cache'["daemon"] = history'.sent
<1>1. Lands(good)
  BY DEF Lands
<1>2. Settles(queue', DaemonStored, good, now)
  <2> HIDE DEF good, now
  <2> QED  BY <1>1, Landed DEF TypeInv
<1> QED  BY <1>2 DEF SentInv

(* The client stores what was sent.                                        *)
LEMMA SentClient ==
  ASSUME TypeInv, SentInv, Client
  PROVE  SentInv'
<1>1. history' = history
  BY ClientTakes DEF external
<1>2. ASSUME queue # <<>>, queue \in Seq(Event), queue' = Tail(queue), Head(queue) \in DaemonStored,
             cache'["daemon"] = Head(queue).values[1]
      PROVE  SentInv'
  <2> DEFINE good == {e \in DaemonStored : e.values[1] = history.sent}
             now == cache["daemon"] = history.sent
             then == cache'["daemon"] = history.sent
  <2>1. (Head(queue) \in good => then) /\ Settles(queue, DaemonStored, good, now)
    BY <1>2 DEF SentInv
  <2>2. good = {e \in DaemonStored : e.values[1] = history'.sent}
        /\ then = (cache'["daemon"] = history'.sent)
    BY <1>1
  <2> HIDE DEF good, now, then
  <2>3. Settles(queue', DaemonStored, good, then)
    BY <1>2, <2>1, SettlesTail
  <2> QED  BY <2>2, <2>3 DEF SentInv
<1>3. ASSUME Passes(DaemonStored), cache'["daemon"] = cache["daemon"]
      PROVE  SentInv'
  BY <1>1, <1>3, SentUnaffected
<1> QED  BY <1>2, <1>3, DaemonHandled

(* The application sends nothing of the kind.                              *)
LEMMA SentApplication ==
  ASSUME TypeInv, SentInv, Application
  PROVE  SentInv'
<1>1. history' = [history EXCEPT !.events = @ + 1] /\ history \in History
  BY DEF Application, FollowList, GetPrepared, Cancel, Trigger, Send, Counted, TypeInv, TypeOK
<1>2. history'.sent = history.sent
  BY <1>1 DEF History
<1>3. Passes(DaemonStored) /\ cache' = cache
  BY SendKeeps DEF Passes
<1> QED  BY <1>2, <1>3, SentUnaffected

(* A change of the offline interface.                                      *)
LEMMA SentOffline ==
  ASSUME TypeInv, SentInv, NEW v \in Property("offline"), NEW h \in History,
         h.gap = history.gap, h.sent = history.sent, Change("offline", v, h)
  PROVE  SentInv'
<1>1. Passes(DaemonStored) /\ cache' = cache
  BY OfflineChangePasses, OfflineChanged
<1>2. "offline" \in Interface /\ TypeOK
  BY DEF Interface, TypeInv
<1>3. PICK vs \in {<<v>>, <<>>} :
        history'.sent = IF stage = "ready" /\ "offline" = "daemon" /\ vs # <<>> THEN v ELSE h.sent
  BY <1>2, ChangeTyped, ZenonT(30)
<1> QED  BY <1>1, <1>3, SentUnaffected

(* The answers: only the reply to GetAll carries the daemon's properties.  *)
LEMMA SentAnswer ==
  ASSUME TypeInv, SentInv, Answer
  PROVE  SentInv'
<1>1. Head(calls) \in Call /\ UNCHANGED <<stage, cache, seen, up>>
  BY AnswerTakes DEF client
<1>2. CASE AnswerGetAll
  <2>1. PICK i \in Interface :
          /\ \E e \in Event : /\ e.kind = "properties" /\ e.iface = i /\ e.values = <<value[i]>>
                              /\ queue' = Append(queue, e)
          /\ history'.sent = IF i = "daemon" THEN value[i] ELSE history.sent
    BY <1>2, GetAllAnswered
  <2>2. PICK e \in Event : /\ e.kind = "properties" /\ e.iface = i /\ e.values = <<value[i]>>
                           /\ queue' = Append(queue, e)
    BY <2>1
  <2>3. CASE i = "daemon"
    <3>1. e \in DaemonStored /\ e.values[1] = history'.sent
      BY <2>1, <2>2, <2>3, EventKinds
    <3> QED  BY <2>2, <3>1, SentLands
  <2>4. CASE i # "daemon"
    <3>1. Passes(DaemonStored)
      BY <2>2, <2>4, EventKinds DEF Passes
    <3> QED  BY <1>1, <2>1, <2>4, <3>1, SentUnaffected
  <2> QED  BY <2>3, <2>4
<1>3. CASE AnswerList \/ AnswerPrepared \/ RefuseTrigger
  <2>1. \/ queue' = queue
        \/ \E e \in Event : e.kind \in {"list", "prepared"} /\ queue' = Append(queue, e)
    BY <1>3, Events DEF AnswerList, AnswerPrepared, RefuseTrigger, external, TypeInv, TypeOK
  <2>2. Passes(DaemonStored) /\ history' = history
    BY <1>3, <2>1, EventKinds DEF Passes, AnswerList, AnswerPrepared, RefuseTrigger, external
  <2> QED  BY <1>1, <2>2, SentUnaffected
<1>4. CASE AnswerTrigger
  <2> DEFINE h == [history EXCEPT !.meant = Head(calls).meant]
  <2>1. Head(calls).action \in Property("offline") /\ Head(calls).meant \in Action
    BY <1>4, TriggerTyped
  <2>2. h \in History /\ h.gap = history.gap /\ h.sent = history.sent
    BY <2>1 DEF TypeInv, TypeOK, History
  <2>3. Change("offline", Head(calls).action, h)
    BY <1>4 DEF AnswerTrigger
  <2> HIDE DEF h
  <2> QED  BY <2>1, <2>2, <2>3, SentOffline
<1>5. CASE FailCall
  <2>1. \/ queue' = queue
        \/ \E e \in Event : e.kind = "prepared" /\ queue' = Append(queue, e)
    BY <1>5, CallFailed, Events
  <2>2. Passes(DaemonStored)
    BY <2>1, EventKinds DEF Passes
  <2>3. history'.sent = history.sent
    BY <1>5 DEF FailCall, TypeInv, TypeOK, History
  <2> QED  BY <1>1, <2>2, <2>3, SentUnaffected
<1> QED  BY <1>2, <1>3, <1>4, <1>5 DEF Answer

(* The daemon sends a change of its properties, or only invalidates them.  *)
LEMMA SentChange ==
  ASSUME TypeInv, SentInv, ChangeDaemon
  PROVE  SentInv'
<1> DEFINE v == value["daemon"] + 1
<1>1. /\ Change("daemon", v, Counted) /\ Counted \in History /\ TypeOK
      /\ "daemon" \in Interface /\ cache' = cache
  BY CountedTyped, DaemonChanged DEF ChangeDaemon, Interface, TypeInv
<1>2. v \in Property("daemon") /\ Counted.sent = history.sent
  <2>1. /\ history.events < MaxEvents /\ value["daemon"] \in Nat
        /\ value["daemon"] <= 1 + history.ownerChanges + history.events
    BY Fields DEF ChangeDaemon, MoreEvents, TypeInv, Bounded, Version
  <2> QED  BY <2>1, Fields, VersionBound DEF TypeInv, TypeOK, Property, Counted, History
<1> HIDE DEF v
<1>3. PICK vs \in {<<v>>, <<>>} :
        /\ Notified("daemon", vs)
        /\ history'.sent = IF stage = "ready" /\ "daemon" = "daemon" /\ vs # <<>> THEN v ELSE Counted.sent
  BY <1>1, <1>2, ChangeTyped, ZenonT(30)
<1>4. vs \in {<<>>} \cup {<<w>> : w \in Property("daemon")}
  BY <1>2
<1>5. \/ stage = "none" /\ queue' = queue
      \/ /\ stage = "watching"
         /\ \E x \in Event : /\ x.kind = "changed" /\ x.to = "offline" /\ x.iface = "daemon"
                            /\ x.values = vs /\ queue' = Append(queue, x)
      \/ /\ stage = "ready"
         /\ \E x, y \in Event :
              /\ x.kind = "changed" /\ x.to = "offline" /\ x.iface = "daemon" /\ x.values = vs
              /\ y.kind = "changed" /\ y.to = "daemon" /\ y.iface = "daemon" /\ y.values = vs
              /\ queue' = Append(Append(queue, x), y)
  BY <1>1, <1>3, <1>4, Noticed
<1>6. CASE stage = "ready" /\ vs # <<>>
  <2>1. PICK x \in Event, y \in Event :
          /\ y.kind = "changed" /\ y.to = "daemon" /\ y.iface = "daemon" /\ y.values = vs
          /\ queue' = Append(Append(queue, x), y)
    BY <1>5, <1>6
  <2>2. vs = <<v>> /\ history'.sent = v
    BY <1>3, <1>6
  <2>3. y \in DaemonStored /\ y.values[1] = history'.sent
    BY <1>6, <2>1, <2>2, EventKinds
  <2> QED  BY <2>1, <2>3, SentLands
<1>7. CASE ~(stage = "ready" /\ vs # <<>>)
  <2>1. Passes(DaemonStored)
    BY <1>5, <1>7, EventKinds DEF Passes
  <2>2. history'.sent = history.sent
    BY <1>2, <1>3, <1>7
  <2> QED  BY <1>1, <2>1, <2>2, SentUnaffected
<1> QED  BY <1>6, <1>7

(* What else happens in the daemon and to it.                              *)
LEMMA SentService ==
  ASSUME TypeInv, SentInv, Service
  PROVE  SentInv'
<1>1. UNCHANGED <<stage, running, cache, seen, calls>>
  BY ServiceTakes
<1>2. CASE ChangeOffline
  <2> DEFINE h == [Counted EXCEPT !.meant = "ActionPowerOff"]
  <2>1. MoreEvents /\ Change("offline", "power-off", h)
    BY <1>2 DEF ChangeOffline
  <2>2. h \in History /\ h.gap = history.gap /\ h.sent = history.sent
    <3>1. Counted \in History /\ Counted.gap = history.gap
      BY <2>1, CountedTyped
    <3>2. Counted.sent = history.sent
      BY DEF Counted, TypeInv, TypeOK, History
    <3> QED  BY <3>1, <3>2 DEF History, Action
  <2>3. "power-off" \in Property("offline")
    BY DEF Property, ActionString
  <2> HIDE DEF h
  <2> QED  BY <2>1, <2>2, <2>3, SentOffline
<1>3. CASE ChangeList
  <2>1. IF app.listening
          THEN \E e \in Event : e.kind = "list" /\ queue' = Append(queue, e)
          ELSE queue' = queue
    BY <1>3, ListChanged
  <2>2. Passes(DaemonStored)
    BY <2>1, EventKinds DEF Passes
  <2>3. history'.sent = history.sent
    BY <1>3 DEF ChangeList, Counted, TypeInv, TypeOK, History
  <2> QED  BY <1>1, <2>2, <2>3, SentUnaffected
<1>4. CASE LoseOwner \/ StartOwner
  <2>1. \/ queue' = queue
        \/ \E e \in Event : e.kind = "owner" /\ queue' = Append(queue, e)
    BY <1>4, ServiceTakes
  <2>2. Passes(DaemonStored)
    BY <2>1, EventKinds DEF Passes
  <2>3. history'.sent = history.sent
    BY <1>4 DEF LoseOwner, StartOwner, OwnerChange, TypeInv, TypeOK, History
  <2> QED  BY <1>1, <2>2, <2>3, SentUnaffected
<1> QED  BY <1>2, <1>3, <1>4, SentChange DEF Service

(* Every step keeps it, ...                                                *)
LEMMA SentKept ==
  TypeInv /\ SentInv /\ [Next]_vars => SentInv'
<1> SUFFICES ASSUME TypeInv, SentInv, [Next]_vars  PROVE SentInv'
  OBVIOUS
<1>1. CASE UNCHANGED vars
  BY <1>1 DEF vars, SentInv
<1> QED  BY <1>1, SentClient, SentApplication, SentAnswer, SentService DEF Next

(* ... and it holds at first.                                              *)
LEMMA SentInitial ==
  Init => SentInv
<1> SUFFICES ASSUME Init  PROVE SentInv
  OBVIOUS
<1>1. \A i \in 1..Len(queue) : FALSE
  BY DEF Init
<1> QED  BY <1>1 DEF Init, SentInv, Settles, None

(* The getters are right once everything has been handled: neither a       *)
(* restart nor a change that overtakes the reply to GetAll leaves a cache  *)
(* with something that the daemon does not have any more, and              *)
(* triggerAction is the action of the last trigger() or cancel().  A value *)
(* that is only invalidated resets triggerAction, but leaves the daemon's  *)
(* getters with the value that was sent last, however long ago.            *)
THEOREM CachesRight == Spec => []CacheConverges
<1>1. ASSUME TypeInv, DaemonInv, OfflineInv, SentInv, Quiet, up, NEW i \in Interface
      PROVE  Current(i)
  <2>1. ~Refetched("daemon") /\ ~Refetched("offline")
    BY <1>1, Settled, NothingAwaited DEF Refetched, Quiet, TypeInv
  <2>2. history.gap["daemon"] = "none" => cache["daemon"] = value["daemon"]
    BY <1>1, <2>1, Settled DEF DaemonInv, Quiet
  <2>3. history.gap["offline"] # "missed" => cache["offline"] = Wanted
    BY <1>1, <2>1, Settled DEF OfflineInv, Quiet
  <2>8. cache["daemon"] = history.sent
    BY <1>1, Settled DEF SentInv, Quiet
  <2>4. CASE history.gap[i] = "none"
    BY <2>2, <2>3, <2>4 DEF Current, Interface, Wanted
  <2>5. CASE history.gap[i] = "withheld"
    BY <2>3, <2>5, <2>8 DEF Current, Interface, Wanted
  <2>6. CASE history.gap[i] = "missed"
    BY <2>6 DEF Current
  <2>7. history.gap[i] \in {"none", "withheld", "missed"}
    BY <1>1, Fields DEF TypeInv
  <2> QED  BY <2>4, <2>5, <2>6, <2>7
<1>2. TypeInv /\ DaemonInv /\ OfflineInv /\ SentInv => CacheConverges
  BY <1>1 DEF CacheConverges
<1> QED  BY <1>2, TypeInitial, TypeKept, DaemonInitial, DaemonKept, MeantKept,
            OfflineInitial, OfflineKept, SentInitial, SentKept, PTL DEF Spec

(***************************************************************************)
(* What is counted                                                         *)
(***************************************************************************)
(* daemonQuit() is emitted exactly once for each instance of the daemon    *)
(* that goes, counting the signals still to be handled: not for one that   *)
(* only starts, and not twice for one that is replaced at once.            *)
THEOREM QuitsCounted == Spec => []QuitOncePerLoss
<1>1. ASSUME TypeInv, QuitOncePerLoss, [Next]_vars
      PROVE  QuitOncePerLoss'
  <2>1. queue \in Seq(Event) /\ quits \in Nat /\ Count(queue, Losses) \in Nat
        /\ history.losses \in Nat
    BY <1>1, CountTyped, Fields DEF TypeInv, TypeOK
  <2>2. ASSUME Passes(Losses), quits' = quits, history'.losses = history.losses
        PROVE  QuitOncePerLoss'
    BY <1>1, <2>2, PassedCounted DEF QuitOncePerLoss, TypeInv
  <2>3. CASE UNCHANGED vars
    BY <1>1, <2>3 DEF vars, QuitOncePerLoss
  <2>4. CASE OwnerChanged
    <3>1. /\ queue # <<>> /\ Head(queue) \in Event /\ queue' = Tail(queue)
          /\ Head(queue).kind = "owner" /\ history' = history /\ Tail(queue) \in Seq(Event)
      BY <1>1, <2>4, Handled DEF OwnerChanged, external, TypeInv
    <3>2. Count(queue, Losses) = Count(queue', Losses) + IF Head(queue) \in Losses THEN 1 ELSE 0
      BY <2>1, <3>1, CountTail
    <3>3. Head(queue) \in Losses <=> OwnerLost(Head(queue))
      BY <3>1, EventKinds DEF OwnerLost
    <3>4. quits' = IF OwnerLost(Head(queue)) THEN quits + 1 ELSE quits
      BY <2>4 DEF OwnerChanged
    <3>5. Count(queue', Losses) \in Nat
      BY <3>1, CountTyped
    <3> QED  BY <1>1, <2>1, <3>1, <3>2, <3>3, <3>4, <3>5 DEF QuitOncePerLoss
  <2>5. CASE Client /\ ~OwnerChanged
    <3>1. quits' = quits /\ history' = history
      BY <2>5 DEF Client, Construct, Subscribe, UpdateProperties, InitializeProperties,
         DaemonPropertiesChanged, OfflinePropertiesChanged, OfflineIgnores, ListTold,
         PreparedUpdates, client, external
    <3>2. CASE Construct \/ Subscribe
      <4>1. Passes(Losses)
        BY <1>1, <2>5, <3>2, ClientTakes DEF Passes
      <4> QED  BY <2>2, <3>1, <4>1
    <3>3. CASE ~(Construct \/ Subscribe)
      <4>1. queue # <<>> /\ Head(queue) \in Event /\ queue' = Tail(queue)
        BY <1>1, <2>5, <3>3, ClientTakes
      <4>2. Head(queue).kind # "owner"
        BY <2>5, <3>3 DEF Client, UpdateProperties, InitializeProperties,
           DaemonPropertiesChanged, OfflinePropertiesChanged, OfflineIgnores, ListTold,
           PreparedUpdates, Handling
      <4>3. Passes(Losses)
        BY <4>1, <4>2, EventKinds DEF Passes
      <4> QED  BY <2>2, <3>1, <4>3
    <3> QED  BY <3>2, <3>3
  <2>6. CASE Application
    <3>1. Passes(Losses)
      BY <2>6, SendKeeps DEF Passes
    <3> QED  BY <1>1, <2>2, <2>6, <3>1, SendKeeps, ApplicationHistory
  <2>7. CASE Answer
    <3>1. Passes(Losses)
      BY <1>1, <2>7, AnswerAnnouncesNothing, PassesFewer, Owners
    <3>2. history'.losses = history.losses
      <4>1. CASE AnswerGetAll
        BY <1>1, <4>1, GetAllAnswered
      <4>2. CASE AnswerTrigger
        BY <1>1, <4>2, TriggerTyped, OfflineChanged
      <4>3. CASE FailCall
        BY <1>1, <4>3, CallFailed
      <4>4. CASE AnswerList \/ AnswerPrepared \/ RefuseTrigger
        BY <4>4 DEF AnswerList, AnswerPrepared, RefuseTrigger, external
      <4> QED  BY <2>7, <4>1, <4>2, <4>3, <4>4 DEF Answer
    <3>3. quits' = quits
      BY <1>1, <2>7, AnswerTakes DEF client
    <3> QED  BY <2>2, <3>1, <3>2, <3>3
  <2>8. CASE Service /\ ~(LoseOwner \/ StartOwner)
    <3>1. Passes(Losses) /\ quits' = quits
      BY <1>1, <2>8, ServiceTakes, PassesFewer, Owners
    <3>2. history'.losses = history.losses
      <4>1. CASE ChangeOffline
        <5>1. PICK h \in History : /\ h.gap = history.gap /\ h.losses = history.losses
                                   /\ Change("offline", "power-off", h)
          BY <1>1, <4>1, CountedTyped DEF ChangeOffline
        <5>2. "power-off" \in Property("offline")
          BY DEF Property, ActionString
        <5> QED  BY <1>1, <5>1, <5>2, OfflineChanged
      <4> QED  BY <1>1, <2>8, <4>1, DaemonChanged, ListChanged DEF Service
    <3> QED  BY <2>2, <3>1, <3>2
  <2>9. CASE LoseOwner \/ StartOwner
    <3>1. /\ quits' = quits
          /\ LoseOwner => history'.losses = history.losses + IF stage = "none" THEN 0 ELSE 1
          /\ StartOwner => history'.losses = history.losses /\ up'
      BY <1>1, <2>9, OwnerChanges
    <3>2. CASE stage = "none"
      <4>1. queue' = queue
        BY <1>1, <2>9, <3>2, OwnerChanges
      <4> QED  BY <1>1, <2>1, <2>9, <3>1, <3>2, <4>1 DEF QuitOncePerLoss
    <3>3. CASE stage # "none"
      <4>1. PICK e \in Event : /\ e.kind = "owner" /\ e.new = up' /\ queue' = Append(queue, e)
                               /\ LoseOwner => e.old
                               /\ StartOwner => ~e.old
        BY <1>1, <2>9, <3>3, OwnerChanges
      <4>2. (e \in Losses <=> LoseOwner) /\ (LoseOwner => ~StartOwner)
        BY <2>9, <3>1, <4>1, EventKinds
      <4>3. Count(queue', Losses) = Count(queue, Losses) + IF e \in Losses THEN 1 ELSE 0
        BY <2>1, <4>1, CountAppended
      <4> QED  BY <1>1, <2>1, <2>9, <3>1, <3>3, <4>2, <4>3 DEF QuitOncePerLoss
    <3> QED  BY <3>2, <3>3
  <2> QED  BY <1>1, <2>3, <2>4, <2>5, <2>6, <2>7, <2>8, <2>9 DEF Next, Service
<1>2. Init => QuitOncePerLoss
  <2> SUFFICES ASSUME Init  PROVE QuitOncePerLoss
    OBVIOUS
  <2>1. queue \in Seq(Event) /\ queue = <<>>
    BY TypeInitial DEF TypeInv, TypeOK, Init
  <2>2. Count(queue, Losses) = 0
    BY <2>1, CountTyped
  <2> QED  BY <2>2 DEF Init, QuitOncePerLoss
<1>3. TypeInv /\ QuitOncePerLoss /\ [Next]_vars => QuitOncePerLoss'
  BY <1>1
<1> QED  BY <1>2, <1>3, TypeInitial, TypeKept, PTL DEF Spec

(* What the steps do to the calls.                                         *)
LEMMA CallsMade ==
  ASSUME TypeInv, Next
  PROVE  /\ calls \in Seq(Call)
         /\ \/ calls' = calls /\ (Client \/ Service)
            \/ Answer /\ calls # <<>> /\ calls' = Tail(calls)
            \/ /\ Construct \/ OwnerChanged
               /\ calls' = Append(Append(calls, GetAll("daemon")), GetAll("offline"))
            \/ FollowList /\ calls' = Append(calls, getTransactionList)
            \/ GetPrepared /\ calls' = Append(calls, [method |-> "GetPrepared"])
            \/ /\ \E a \in Action : Cancel \/ Trigger(a)
               /\ \E c \in Call : c.method = "Trigger" /\ calls' = Append(calls, c)
<1>1. calls \in Seq(Call)
  BY DEF TypeInv, TypeOK
<1>2. CASE Client
  <2>1. calls' = calls \/ ((Construct \/ OwnerChanged) /\ calls' = calls \o getAllProperties)
    BY <1>2, ClientTakes DEF Construct, OwnerChanged, OwnerFound
  <2> DEFINE d == GetAll("daemon")
             o == GetAll("offline")
  <2>2. getAllProperties = <<d, o>> /\ d \in Call /\ o \in Call
    BY Calls DEF getAllProperties, Interface
  <2> HIDE DEF d, o
  <2>3. calls \o getAllProperties = Append(Append(calls, d), o)
    BY <1>1, <2>2
  <2> QED  BY <1>1, <1>2, <2>1, <2>3 DEF d, o
<1>3. CASE Application
  <2>1. ASSUME NEW a \in Action, Cancel \/ Trigger(a)
        PROVE  \E c \in Call : c.method = "Trigger" /\ calls' = Append(calls, c)
    BY <2>1, Calls, Actions DEF Cancel, Trigger, Send, ActionString, Action
  <2>2. Cancel => \E a \in Action : Cancel \/ Trigger(a)
    BY DEF Action
  <2> QED  BY <1>1, <1>3, <2>1, <2>2 DEF Application, FollowList, GetPrepared, Send
<1>4. CASE Answer
  BY <1>1, <1>4, AnswerTakes
<1>5. CASE Service
  BY <1>1, <1>5, ServiceTakes
<1> QED  BY <1>2, <1>3, <1>4, <1>5 DEF Next

(* The calls of getPrepared().                                             *)
Asking == {[method |-> "GetPrepared"]}

(* One more call.                                                          *)
LEMMA CallsCounted ==
  ASSUME NEW q \in Seq(Call), NEW c \in Call
  PROVE  /\ c \in Asking <=> c.method = "GetPrepared"
         /\ Count(Append(q, c), Asking)
              = Count(q, Asking) + IF c.method = "GetPrepared" THEN 1 ELSE 0
<1>1. c \in Asking <=> c.method = "GetPrepared"
  BY CallTyped DEF Asking
<1> QED  BY <1>1, CountAppended

(* A step that neither asks nor is told.                                   *)
LEMMA NotAsked ==
  ASSUME TypeInv, PreparedOnce, Passes(Prepared),
         app'.asked = app.asked, app'.prepared = app.prepared,
         Count(calls', Asking) = Count(calls, Asking)
  PROVE  PreparedOnce'
<1>1. Count(queue', Prepared) = Count(queue, Prepared)
  BY PassedCounted DEF TypeInv
<1> QED  BY <1>1 DEF PreparedOnce, Prepared, Asking

(* Every getPrepared() is answered by exactly one preparedUpdates(): none  *)
(* is lost with the daemon, and none is told twice when a call fails.      *)
THEOREM PreparedCounted == Spec => []PreparedOnce
<1>1. ASSUME TypeInv, PreparedOnce, [Next]_vars
      PROVE  PreparedOnce'
  <2>1. /\ queue \in Seq(Event) /\ calls \in Seq(Call) /\ app \in App
        /\ Count(queue, Prepared) \in Nat /\ Count(calls, Asking) \in Nat
        /\ app.prepared \in Nat
    BY <1>1, CountTyped, Fields DEF TypeInv, TypeOK
  <2>2. app.asked = app.prepared + Count(queue, Prepared) + Count(calls, Asking)
    BY <1>1 DEF PreparedOnce, Prepared, Asking
  <2>3. ASSUME app'.asked = app'.prepared + Count(queue', Prepared) + Count(calls', Asking)
        PROVE  PreparedOnce'
    BY <2>3 DEF PreparedOnce, Prepared, Asking
  <2>4. CASE UNCHANGED vars
    BY <1>1, <2>4 DEF vars, PreparedOnce
  <2>5. CASE PreparedUpdates
    <3>1. /\ queue # <<>> /\ Head(queue) \in Event /\ queue' = Tail(queue)
          /\ Head(queue).kind = "prepared" /\ Tail(queue) \in Seq(Event) /\ calls' = calls
      BY <1>1, <2>5, Handled DEF PreparedUpdates, TypeInv
    <3>2. Head(queue) \in Prepared
      BY <3>1, EventKinds
    <3>3. Count(queue, Prepared) = Count(queue', Prepared) + 1
      BY <2>1, <3>1, <3>2, CountTail
    <3>4. app'.asked = app.asked /\ app'.prepared = app.prepared + 1
      BY <2>1, <2>5 DEF PreparedUpdates, App
    <3>5. Count(queue', Prepared) \in Nat
      BY <3>1, CountTyped
    <3> QED  BY <2>1, <2>2, <2>3, <3>1, <3>3, <3>4, <3>5
  <2>6. CASE GetPrepared
    <3>1. calls' = Append(calls, [method |-> "GetPrepared"]) /\ queue' = queue
      BY <2>6 DEF GetPrepared, Send
    <3>2. Count(calls', Asking) = Count(calls, Asking) + 1
      BY <2>1, <3>1, Calls, CallsCounted
    <3>3. app'.asked = app.asked + 1 /\ app'.prepared = app.prepared
      BY <2>1, <2>6 DEF GetPrepared, Send, App
    <3>4. Count(queue', Prepared) = Count(queue, Prepared)
      BY <3>1
    <3> QED  BY <2>1, <2>2, <2>3, <3>2, <3>3, <3>4
  <2>7. CASE Client /\ ~PreparedUpdates
    <3>1. Count(calls', Asking) = Count(calls, Asking)
      <4>1. calls' = calls \/ calls' = calls \o getAllProperties
        BY <1>1, <2>7, ClientTakes DEF Construct, OwnerChanged, OwnerFound
      <4>2. ASSUME calls' = calls \o getAllProperties
            PROVE  Count(calls', Asking) = Count(calls, Asking)
        <5> DEFINE d == GetAll("daemon")
                   o == GetAll("offline")
        <5>1. /\ getAllProperties = <<d, o>> /\ d \in Call /\ o \in Call
              /\ d.method = "GetAll" /\ o.method = "GetAll"
          BY Calls DEF getAllProperties, Interface, GetAll
        <5> HIDE DEF d, o
        <5>2. calls' = Append(Append(calls, d), o) /\ Append(calls, d) \in Seq(Call)
          BY <2>1, <4>2, <5>1
        <5>3. Count(Append(calls, d), Asking) = Count(calls, Asking) + 0
          BY <2>1, <5>1, CallsCounted
        <5>4. Count(calls', Asking) = Count(Append(calls, d), Asking) + 0
          BY <5>1, <5>2, CallsCounted
        <5> QED  BY <2>1, <5>3, <5>4
      <4> QED  BY <4>1, <4>2
    <3>2. app'.asked = app.asked /\ app'.prepared = app.prepared
      <4>1. CASE OwnerChanged
        <5>1. EmptyList \in Version
          BY BoundsAssumption DEF EmptyList, Version
        <5> QED  BY <1>1, <4>1, <5>1, ToldTyped DEF OwnerChanged, OwnerFound, TypeInv
      <4>2. CASE ListTold
        <5>1. Head(queue) \in Event /\ Head(queue).kind = "list"
          BY <1>1, <4>2, Handled DEF ListTold, TypeInv
        <5>2. Head(queue).tids \in Version
          BY <5>1, EventTyped
        <5>3. /\ Told(Head(queue).tids) \in App
              /\ Told(Head(queue).tids).asked = app.asked
              /\ Told(Head(queue).tids).prepared = app.prepared
          BY <1>1, <5>2, ToldTyped DEF TypeInv
        <5> QED  BY <4>2, <5>3 DEF ListTold, App
      <4>3. CASE ~OwnerChanged /\ ~ListTold
        BY <2>7, <4>3 DEF Client, Construct, Subscribe, UpdateProperties,
           InitializeProperties, DaemonPropertiesChanged, OfflinePropertiesChanged,
           OfflineIgnores, client
      <4> QED  BY <4>1, <4>2, <4>3
    <3>3. Passes(Prepared)
      <4>1. CASE Construct \/ Subscribe
        BY <1>1, <2>7, <4>1, ClientTakes DEF Passes
      <4>2. CASE ~(Construct \/ Subscribe)
        <5>1. queue # <<>> /\ Head(queue) \in Event /\ queue' = Tail(queue)
          BY <1>1, <2>7, <4>2, ClientTakes
        <5>2. Head(queue).kind # "prepared"
          BY <2>7, <4>2 DEF Client, OwnerChanged, UpdateProperties, InitializeProperties,
             DaemonPropertiesChanged, OfflinePropertiesChanged, OfflineIgnores, ListTold,
             Handling
        <5> QED  BY <5>1, <5>2, EventKinds DEF Passes
      <4> QED  BY <4>1, <4>2
    <3> QED  BY <1>1, <3>1, <3>2, <3>3, NotAsked
  <2>8. CASE Application /\ ~GetPrepared
    <3>1. PICK c \in Call : calls' = Append(calls, c) /\ c.method # "GetPrepared"
      BY <2>8, Calls, Actions DEF Application, FollowList, Cancel, Trigger, Send,
         getTransactionList, ActionString, Action
    <3>2. Count(calls', Asking) = Count(calls, Asking)
      BY <2>1, <3>1, CallsCounted
    <3>3. app'.asked = app.asked /\ app'.prepared = app.prepared
      BY <2>1, <2>8 DEF Application, FollowList, Cancel, Trigger, Send, App
    <3>4. Passes(Prepared)
      BY <2>8, SendKeeps DEF Passes
    <3> QED  BY <1>1, <3>2, <3>3, <3>4, NotAsked
  <2>9. CASE Answer
    <3>1. /\ calls # <<>> /\ calls' = Tail(calls) /\ Head(calls) \in Call /\ app' = app
          /\ calls' \in Seq(Call)
      BY <1>1, <2>1, <2>9, AnswerTakes, HeadAndTail DEF client
    <3>2. Count(calls, Asking)
            = Count(calls', Asking) + IF Head(calls).method = "GetPrepared" THEN 1 ELSE 0
      BY <2>1, <3>1, CountTail, CallsCounted
    <3>3. Count(calls', Asking) \in Nat
      BY <3>1, CountTyped
    <3>4. [kind |-> "prepared"] \in Event /\ [kind |-> "prepared"] \in Prepared
      BY Events DEF Prepared
    <3>5. CASE /\ Head(calls).method = "GetPrepared"
               /\ queue' = Append(queue, [kind |-> "prepared"])
      <4>1. Count(queue', Prepared) = Count(queue, Prepared) + 1
        BY <2>1, <3>4, <3>5, CountAppended
      <4>2. Count(calls, Asking) = Count(calls', Asking) + 1
        BY <3>2, <3>5
      <4>3. app.asked = app.prepared + Count(queue, Prepared) + (Count(calls', Asking) + 1)
        BY <2>2, <4>2
      <4>4. app.asked = app.prepared + (Count(queue, Prepared) + 1) + Count(calls', Asking)
        BY <2>1, <3>3, <4>3
      <4> QED  BY <2>3, <3>1, <4>1, <4>4
    <3>6. CASE Head(calls).method # "GetPrepared" /\ Passes(Prepared)
      BY <1>1, <3>1, <3>2, <3>3, <3>6, NotAsked
    <3>7. CASE AnswerGetAll
      <4>1. \E e \in Event : e.kind = "properties" /\ queue' = Append(queue, e)
        BY <1>1, <3>7, GetAllAnswered
      <4>2. Passes(Prepared)
        BY <4>1, EventKinds DEF Passes
      <4> QED  BY <3>6, <3>7, <4>2 DEF AnswerGetAll, Serving
    <3>8. CASE AnswerList \/ RefuseTrigger
      <4>1. queue' = queue \/ \E e \in Event : e.kind = "list" /\ queue' = Append(queue, e)
        BY <1>1, <3>8, Events DEF AnswerList, RefuseTrigger, TypeInv, TypeOK
      <4>2. Passes(Prepared)
        BY <4>1, EventKinds DEF Passes
      <4> QED  BY <3>6, <3>8, <4>2 DEF AnswerList, RefuseTrigger, Serving
    <3>9. CASE AnswerPrepared
      BY <3>5, <3>9 DEF AnswerPrepared, Serving
    <3>10. CASE AnswerTrigger
      <4>1. Passes(Prepared)
        BY <1>1, <3>10, TriggerTyped, OfflineChangePasses, PassesFewer, Owners
      <4> QED  BY <3>6, <3>10, <4>1 DEF AnswerTrigger, Serving
    <3>11. CASE FailCall
      <4>1. CASE Head(calls).method = "GetPrepared"
        <5>1. queue' = queue \o <<[kind |-> "prepared"]>>
          BY <3>11, <4>1 DEF FailCall, FailureTold
        <5> QED  BY <2>1, <3>4, <3>5, <4>1, <5>1, Appended
      <4>2. CASE Head(calls).method # "GetPrepared"
        <5>1. queue' = queue
          BY <1>1, <3>11, <4>2, CallFailed
        <5> QED  BY <3>6, <4>2, <5>1 DEF Passes
      <4> QED  BY <4>1, <4>2
    <3> QED  BY <2>9, <3>7, <3>8, <3>9, <3>10, <3>11 DEF Answer
  <2>10. CASE Service
    <3>1. UNCHANGED <<app, calls>>
      BY <1>1, <2>10, ServiceTakes
    <3>2. Passes(Prepared)
      <4>1. CASE LoseOwner \/ StartOwner
        <5>1. queue' = queue \/ \E e \in Event : e.kind = "owner" /\ queue' = Append(queue, e)
          BY <1>1, <4>1, OwnerChanges
        <5> QED  BY <5>1, EventKinds DEF Passes
      <4>2. CASE ~(LoseOwner \/ StartOwner)
        BY <1>1, <2>10, <4>2, ServiceTakes, PassesFewer, Owners
      <4> QED  BY <4>1, <4>2
    <3> QED  BY <1>1, <3>1, <3>2, NotAsked
  <2> QED  BY <1>1, <2>4, <2>5, <2>6, <2>7, <2>8, <2>9, <2>10 DEF Next
<1>2. Init => PreparedOnce
  <2> SUFFICES ASSUME Init  PROVE PreparedOnce
    OBVIOUS
  <2>1. /\ queue \in Seq(Event) /\ queue = <<>> /\ calls \in Seq(Call) /\ calls = <<>>
    BY TypeInitial DEF TypeInv, TypeOK, Init
  <2>2. \A kind : Count(queue, kind) = 0 /\ Count(calls, kind) = 0
    BY <2>1, CountTyped
  <2> QED  BY <2>2 DEF Init, PreparedOnce
<1>3. TypeInv /\ PreparedOnce /\ [Next]_vars => PreparedOnce'
  BY <1>1
<1> QED  BY <1>2, <1>3, TypeInitial, TypeKept, PTL DEF Spec

(***************************************************************************)
(* The list of transactions                                                *)
(***************************************************************************)
(* Nobody asks for the list but FollowList.                                *)
LEMMA ListNotAsked ==
  ASSUME TypeInv, Next, ~FollowList, None(calls, {getTransactionList})
  PROVE  None(calls', {getTransactionList})
<1>1. /\ calls \in Seq(Call) /\ getTransactionList.method = "GetTransactionList"
      /\ GetAll("daemon") \in Call /\ GetAll("daemon").method = "GetAll"
      /\ GetAll("offline") \in Call /\ GetAll("offline").method = "GetAll"
      /\ [method |-> "GetPrepared"] \in Call
  BY Calls DEF TypeInv, TypeOK, getTransactionList, GetAll, Interface
<1>2. ASSUME NEW c \in Call, c.method # "GetTransactionList"
      PROVE  /\ c \notin {getTransactionList}
             /\ calls' = Append(calls, c) => None(calls', {getTransactionList})
  <2>1. c \notin {getTransactionList}
    BY <1>1, <1>2
  <2> DEFINE kind == {getTransactionList}
  <2>2. c \notin kind /\ None(calls, kind)
    BY <2>1
  <2> HIDE DEF kind
  <2>3. None(Append(calls, c), kind)
    BY <1>1, <2>2, NoneAppended
  <2> QED  BY <2>1, <2>3 DEF kind
<1>3. CASE calls' = calls
  BY <1>3
<1>4. CASE Answer
  <2> DEFINE kind == {getTransactionList}
  <2>1. None(calls, kind) /\ calls # <<>> /\ calls' = Tail(calls)
    BY <1>4, AnswerTakes
  <2> HIDE DEF kind
  <2>2. None(Tail(calls), kind)
    BY <1>1, <2>1, NoneTail
  <2> QED  BY <2>1, <2>2 DEF kind
<1>5. CASE calls' = Append(Append(calls, GetAll("daemon")), GetAll("offline"))
  <2> DEFINE q == Append(calls, GetAll("daemon"))
  <2>1. q \in Seq(Call)
    BY <1>1, Appended
  <2>2. None(q, {getTransactionList})
    BY <1>1, <1>2, NoneAppended
  <2> HIDE DEF q
  <2> QED  BY <1>1, <1>2, <1>5, <2>1, <2>2, NoneAppended DEF q
<1>6. CASE calls' = Append(calls, [method |-> "GetPrepared"])
  BY <1>1, <1>2, <1>6
<1>7. CASE \E c \in Call : c.method = "Trigger" /\ calls' = Append(calls, c)
  BY <1>2, <1>7
<1> QED  BY <1>3, <1>4, <1>5, <1>6, <1>7, CallsMade

(* The list that is told last is the daemon's: a step that tells none, ... *)
LEMMA ListUnaffected ==
  ASSUME TypeInv, ListInv, Unfollowed', Passes(Tellings), UNCHANGED <<list, up>>,
         app'.listening = app.listening, app'.informed = app.informed, app'.list = app.list,
         up /\ Awaited(getTransactionList) => Awaited(getTransactionList)'
  PROVE  ListInv'
<1> DEFINE good == {e \in Tellings : TidsThen(e) = list}
           now == app.informed => app.list = list
<1>1. Settles(queue, Tellings, good, now) => Settles(queue', Tellings, good, now)
  <2>1. good \subseteq Tellings
    OBVIOUS
  <2> HIDE DEF good, now
  <2> QED  BY <2>1, Passed DEF TypeInv
<1>2. /\ good = {e \in Tellings : TidsThen(e) = list'}
      /\ now = (app'.informed => app'.list = list')
  OBVIOUS
<1>3. up /\ app.listening =>
        Awaited(getTransactionList) \/ Settles(queue, Tellings, good, now)
  BY DEF ListInv
<1> HIDE DEF good, now
<1>4. up' /\ app'.listening =>
        Awaited(getTransactionList)' \/ Settles(queue', Tellings, good, now)
  BY <1>1, <1>3
<1> QED  BY <1>2, <1>4 DEF ListInv

(* ... one that handles an event with a list, ...                          *)
LEMMA ListHandled ==
  ASSUME TypeInv, ListInv, Unfollowed', UNCHANGED <<list, up>>,
         queue # <<>>, queue' = Tail(queue), Head(queue) \in Tellings,
         app'.listening = app.listening,
         app.listening => app'.list = TidsThen(Head(queue)),
         Awaited(getTransactionList) => Awaited(getTransactionList)'
  PROVE  ListInv'
<1> DEFINE good == {e \in Tellings : TidsThen(e) = list}
           now == app.informed => app.list = list
           then == app'.informed => app'.list = list
<1>1. app.listening =>
        (Settles(queue, Tellings, good, now) => Settles(queue', Tellings, good, then))
  <2> SUFFICES ASSUME app.listening
               PROVE  Settles(queue, Tellings, good, now) => Settles(queue', Tellings, good, then)
    OBVIOUS
  <2>1. Head(queue) \in good => then
    OBVIOUS
  <2>2. queue \in Seq(Event)
    BY DEF TypeInv, TypeOK
  <2> HIDE DEF good, now, then
  <2> QED  BY <2>1, <2>2, SettlesTail
<1>2. /\ good = {e \in Tellings : TidsThen(e) = list'}
      /\ then = (app'.informed => app'.list = list')
  OBVIOUS
<1>3. up /\ app.listening =>
        Awaited(getTransactionList) \/ Settles(queue, Tellings, good, now)
  BY DEF ListInv
<1> HIDE DEF good, now, then
<1>4. up' /\ app'.listening =>
        Awaited(getTransactionList)' \/ Settles(queue', Tellings, good, then)
  BY <1>1, <1>3
<1> QED  BY <1>2, <1>4 DEF ListInv

(* ... and one that posts such an event.                                   *)
LEMMA ListLands ==
  ASSUME TypeInv, Unfollowed',
         \E e \in Event : e \in Tellings /\ TidsThen(e) = list' /\ queue' = Append(queue, e)
  PROVE  ListInv'
<1> DEFINE good == {e \in Tellings : TidsThen(e) = list'}
           now == app'.informed => app'.list = list'
<1>1. Lands(good)
  BY DEF Lands
<1>2. Settles(queue', Tellings, good, now)
  <2> HIDE DEF good, now
  <2> QED  BY <1>1, Landed DEF TypeInv
<1> QED  BY <1>2 DEF ListInv

(* Without a follower no list is told, ...                                 *)
LEMMA UnfollowedKept ==
  ASSUME TypeInv, Unfollowed, Next, ~FollowList, stage = "ready" => stage' = "ready",
         app'.listening = app.listening,
         ~app.listening => app'.informed = app.informed /\ Passes(Listed)
  PROVE  Unfollowed'
<1>1. ~app.listening => None(queue', Listed)
  BY Passed DEF TypeInv, Unfollowed
<1>2. ~app.listening => None(calls', {getTransactionList})
  BY ListNotAsked DEF Unfollowed
<1> QED  BY <1>1, <1>2 DEF Unfollowed

(* The client.                                                             *)
LEMMA ListClient ==
  ASSUME TypeInv, ListInv, Client
  PROVE  ListInv'
<1> DEFINE c == getTransactionList
<1>1. /\ UNCHANGED <<lost, value, list, up, history>> /\ Next
      /\ Awaited(c) => Awaited(c)'
  BY ClientTakes, AwaitedKept DEF external, Next
<1>2. app \in App /\ ~FollowList
  <2>1. ~(queue # <<>> /\ queue' = Tail(queue) /\ queue' = queue)
    BY HeadAndTail DEF TypeInv, TypeOK
  <2>2. CASE Construct \/ Subscribe
    BY <2>2 DEF Construct, Subscribe, FollowList, Send, TypeInv, TypeOK
  <2>3. CASE ~(Construct \/ Subscribe)
    BY <2>1, <2>3, ClientTakes DEF FollowList, Send, TypeInv, TypeOK
  <2> QED  BY <2>2, <2>3
<1>3. stage = "ready" => stage' = "ready"
  BY ClientTakes DEF Construct, Subscribe
<1>4. Unfollowed
  BY DEF ListInv
<1>5. CASE Construct \/ Subscribe
  <2>1. UNCHANGED <<app, queue>>
    BY <1>5, ClientTakes
  <2>2. Passes(Tellings) /\ Passes(Listed)
    BY <2>1 DEF Passes
  <2>3. Unfollowed'
    BY <1>1, <1>2, <1>3, <1>4, <2>1, <2>2, UnfollowedKept
  <2> QED  BY <1>1, <2>1, <2>2, <2>3, ListUnaffected
<1>6. CASE OwnerChanged /\ Head(queue).new
  <2>1. /\ queue # <<>> /\ Head(queue) \in Event /\ queue' = Tail(queue)
        /\ Head(queue).kind = "owner" /\ app' = Told(EmptyList) /\ EmptyList \in Version
    BY <1>6, Handled, BoundsAssumption
       DEF OwnerChanged, OwnerFound, TypeInv, EmptyList, Version
  <2>2. /\ app'.listening = app.listening /\ app'.informed = app.informed
        /\ app.listening => app'.list = EmptyList
    BY <2>1, ToldTyped DEF TypeInv
  <2>3. Head(queue) \in Tellings /\ TidsThen(Head(queue)) = EmptyList /\ Passes(Listed)
    BY <1>6, <2>1, EventKinds DEF TidsThen, Passes
  <2>4. Unfollowed'
    BY <1>1, <1>2, <1>3, <1>4, <2>2, <2>3, UnfollowedKept
  <2> QED  BY <1>1, <2>1, <2>2, <2>3, <2>4, ListHandled
<1>7. CASE ListTold
  <2>1. /\ queue # <<>> /\ queue \in Seq(Event) /\ Head(queue) \in Event
        /\ queue' = Tail(queue) /\ Head(queue).kind = "list"
        /\ app' = [Told(Head(queue).tids) EXCEPT !.informed = TRUE]
    BY <1>7, Handled DEF ListTold, TypeInv, TypeOK
  <2>2. Head(queue).tids \in Version /\ Head(queue) \in Tellings /\ Head(queue) \in Listed
        /\ TidsThen(Head(queue)) = Head(queue).tids
    BY <2>1, EventTyped, EventKinds DEF TidsThen
  <2>3. app.listening
    BY <1>4, <2>1, <2>2, NoneTail DEF Unfollowed
  <2>4. app'.listening = app.listening /\ app'.list = Head(queue).tids
    <3>1. /\ Told(Head(queue).tids) \in App
          /\ Told(Head(queue).tids).listening = app.listening
          /\ Told(Head(queue).tids).list = Head(queue).tids
      BY <2>2, <2>3, ToldTyped DEF TypeInv
    <3> QED  BY <2>1, <3>1 DEF App
  <2>5. Unfollowed'
    BY <1>1, <1>2, <1>3, <1>4, <2>3, <2>4, UnfollowedKept
  <2> QED  BY <1>1, <2>1, <2>2, <2>4, <2>5, ListHandled
<1>8. CASE ~Construct /\ ~Subscribe /\ ~(OwnerChanged /\ Head(queue).new) /\ ~ListTold
  <2>1. queue # <<>> /\ Head(queue) \in Event /\ queue' = Tail(queue)
    BY <1>8, ClientTakes
  <2>2. /\ app'.listening = app.listening /\ app'.informed = app.informed /\ app'.list = app.list
    <3>1. CASE PreparedUpdates
      BY <1>2, <3>1 DEF PreparedUpdates, App
    <3>2. CASE ~PreparedUpdates
      BY <1>8, <3>2 DEF Client, OwnerChanged, UpdateProperties, InitializeProperties,
         DaemonPropertiesChanged, OfflinePropertiesChanged, OfflineIgnores, client
    <3> QED  BY <3>1, <3>2
  <2>3. Head(queue) \notin Tellings
    <3>1. \/ Head(queue).kind \in {"properties", "changed", "prepared"}
          \/ Head(queue).kind = "owner" /\ ~Head(queue).new
      BY <1>8 DEF Client, OwnerChanged, UpdateProperties, InitializeProperties,
         DaemonPropertiesChanged, OfflinePropertiesChanged, OfflineIgnores,
         PreparedUpdates, Handling
    <3> QED  BY <2>1, <3>1, EventKinds
  <2>4. Passes(Tellings) /\ Passes(Listed)
    BY <2>1, <2>3, PassesFewer, Owners DEF Passes
  <2>5. Unfollowed'
    BY <1>1, <1>2, <1>3, <1>4, <2>2, <2>4, UnfollowedKept
  <2> QED  BY <1>1, <2>2, <2>4, <2>5, ListUnaffected
<1> QED  BY <1>5, <1>6, <1>7, <1>8

(* The application.                                                        *)
LEMMA ListApplication ==
  ASSUME TypeInv, ListInv, Application
  PROVE  ListInv'
<1>1. /\ UNCHANGED <<stage, queue, lost, list, up>> /\ stage = "ready" /\ Next
      /\ app \in App /\ Unfollowed
  BY SendKeeps DEF Next, TypeInv, TypeOK, ListInv
<1>2. CASE FollowList
  <2>1. /\ calls' = Append(calls, getTransactionList) /\ app'.listening = TRUE
        /\ calls \in Seq(Call) /\ getTransactionList \in Call
    BY <1>1, <1>2, Calls DEF FollowList, Send, App, TypeInv, TypeOK
  <2>2. Len(calls') \in (lost' + 1)..Len(calls') /\ calls'[Len(calls')] = getTransactionList
    BY <1>1, <2>1, Appended DEF TypeInv, TypeOK
  <2>3. Awaited(getTransactionList)'
    BY <2>2 DEF Awaited
  <2> QED  BY <1>1, <2>1, <2>3 DEF ListInv, Unfollowed
<1>3. CASE ~FollowList
  <2>1. app'.listening = app.listening /\ app'.informed = app.informed /\ app'.list = app.list
    BY <1>1, <1>3 DEF Application, GetPrepared, Cancel, Trigger, Send, App
  <2>2. Passes(Tellings) /\ Passes(Listed)
    BY <1>1 DEF Passes
  <2>3. Unfollowed'
    BY <1>1, <1>3, <2>1, <2>2, UnfollowedKept
  <2>4. Awaited(getTransactionList) => Awaited(getTransactionList)'
    BY AwaitedKept
  <2> QED  BY <1>1, <2>1, <2>2, <2>3, <2>4, ListUnaffected
<1> QED  BY <1>2, <1>3

(* The answers.                                                            *)
LEMMA ListAnswer ==
  ASSUME TypeInv, ListInv, Answer
  PROVE  ListInv'
<1> DEFINE c == getTransactionList
<1>1. /\ calls # <<>> /\ calls \in Seq(Call) /\ Head(calls) \in Call
      /\ UNCHANGED <<stage, app, up>> /\ Next /\ Unfollowed
  BY AnswerTakes DEF client, Next, TypeInv, TypeOK, ListInv
<1>2. /\ Awaited(c) => Awaited(c)' \/ (lost = 0 /\ Head(calls) = c)
      /\ c.method = "GetTransactionList"
  BY AwaitedAnswered DEF getTransactionList
<1>3. ~FollowList
  <2>1. app' # app \/ ~FollowList
    BY DEF FollowList, Send, TypeInv, TypeOK, App
  <2> QED  BY <1>1, <2>1
<1>4. CASE AnswerList
  <2>1. Head(calls) = c
    BY <1>1, <1>4, CallTyped DEF AnswerList, Serving
  <2>2. app.listening
    BY <1>1, <2>1, NoneTail DEF Unfollowed
  <2>3. Unfollowed'
    BY <1>1, <1>3, <2>2, UnfollowedKept
  <2> DEFINE e == [kind |-> "list", tids |-> list]
  <2>4. e \in Event /\ e.kind = "list" /\ e.tids = list
    BY Events DEF TypeInv, TypeOK
  <2>5. queue' = Append(queue, e) /\ list' = list
    BY <1>4 DEF AnswerList, external
  <2> HIDE DEF e
  <2>6. e \in Tellings /\ TidsThen(e) = list'
    BY <2>4, <2>5, EventKinds DEF TidsThen
  <2> QED  BY <2>3, <2>4, <2>5, <2>6, ListLands
<1>5. ASSUME Passes(Tellings), list' = list, up /\ lost = 0 => Head(calls) # c
      PROVE  ListInv'
  <2>1. Passes(Listed)
    BY <1>5, PassesFewer, Owners
  <2>2. Unfollowed'
    BY <1>1, <1>3, <2>1, UnfollowedKept
  <2> QED  BY <1>1, <1>2, <1>5, <2>2, ListUnaffected
<1>6. CASE AnswerGetAll
  <2>1. \E e \in Event : e.kind = "properties" /\ queue' = Append(queue, e)
    BY <1>6, GetAllAnswered
  <2>2. Passes(Tellings)
    BY <2>1, EventKinds DEF Passes
  <2> QED  BY <1>2, <1>5, <1>6, <2>2 DEF AnswerGetAll, Serving
<1>7. CASE AnswerPrepared \/ RefuseTrigger
  <2>1. queue' = queue \/ \E e \in Event : e.kind = "prepared" /\ queue' = Append(queue, e)
    BY <1>7, Events DEF AnswerPrepared, RefuseTrigger
  <2>2. Passes(Tellings)
    BY <2>1, EventKinds DEF Passes
  <2> QED  BY <1>2, <1>5, <1>7, <2>2 DEF AnswerPrepared, RefuseTrigger, Serving, external
<1>8. CASE AnswerTrigger
  <2>1. Passes(Tellings) /\ list' = list
    BY <1>8, TriggerTyped, OfflineChangePasses, OfflineChanged
  <2> QED  BY <1>2, <1>5, <1>8, <2>1 DEF AnswerTrigger, Serving
<1>9. CASE FailCall
  <2>1. \/ queue' = queue
        \/ \E e \in Event : e.kind = "prepared" /\ queue' = Append(queue, e)
    BY <1>9, CallFailed, Events
  <2>2. Passes(Tellings) /\ list' = list
    BY <1>9, <2>1, CallFailed, EventKinds DEF Passes
  <2>3. up /\ lost = 0 => Head(calls).method = "GetAll"
    BY <1>9, CallFailed
  <2> QED  BY <1>2, <1>5, <2>2, <2>3
<1> QED  BY <1>4, <1>6, <1>7, <1>8, <1>9 DEF Answer

(* What happens to the daemon.                                             *)
LEMMA ListService ==
  ASSUME TypeInv, ListInv, Service
  PROVE  ListInv'
<1> DEFINE c == getTransactionList
<1>1. /\ UNCHANGED <<stage, app, calls>> /\ Next /\ Unfollowed
  BY ServiceTakes DEF Next, ListInv
<1>2. ~FollowList
  <2>1. app' # app \/ ~FollowList
    BY DEF FollowList, Send, TypeInv, TypeOK, App
  <2> QED  BY <1>1, <2>1
<1>3. ASSUME Passes(Tellings), UNCHANGED <<list, up, lost>>
      PROVE  ListInv'
  <2>1. Passes(Listed)
    BY <1>3, PassesFewer, Owners
  <2>2. Unfollowed'
    BY <1>1, <1>2, <2>1, UnfollowedKept
  <2>3. Awaited(c) => Awaited(c)'
    BY <1>1, <1>3 DEF Awaited
  <2> QED  BY <1>1, <1>3, <2>2, <2>3, ListUnaffected
<1>4. CASE ChangeDaemon
  <2>1. \/ queue' = queue
        \/ \E x \in Event : x.kind = "changed" /\ queue' = Append(queue, x)
        \/ \E x, y \in Event : /\ x.kind = "changed" /\ y.kind = "changed"
                               /\ queue' = Append(Append(queue, x), y)
    BY <1>4, DaemonChanged
  <2>2. Passes(Tellings)
    BY <2>1, EventKinds DEF Passes
  <2> QED  BY <1>3, <1>4, <2>2, DaemonChanged
<1>5. CASE ChangeOffline
  <2>1. PICK h \in History : h.gap = history.gap /\ Change("offline", "power-off", h)
    BY <1>5, CountedTyped DEF ChangeOffline
  <2>2. "power-off" \in Property("offline")
    BY DEF Property, ActionString
  <2> QED  BY <1>3, <2>1, <2>2, OfflineChangePasses, OfflineChanged
<1>6. CASE ChangeList
  <2>1. CASE app.listening
    <3>1. PICK e \in Event : e.kind = "list" /\ e.tids = list' /\ queue' = Append(queue, e)
      BY <1>6, <2>1, ListChanged
    <3>2. e \in Tellings /\ TidsThen(e) = list'
      BY <3>1, EventKinds DEF TidsThen
    <3>3. Unfollowed'
      BY <1>1, <1>2, <2>1, UnfollowedKept
    <3> QED  BY <3>1, <3>2, <3>3, ListLands
  <2>2. CASE ~app.listening
    <3>1. Passes(Listed)
      BY <1>6, <2>2, ListChanged DEF Passes
    <3>2. Unfollowed'
      BY <1>1, <1>2, <3>1, UnfollowedKept
    <3> QED  BY <1>1, <2>2, <3>2 DEF ListInv
  <2> QED  BY <2>1, <2>2
<1>7. CASE LoseOwner \/ StartOwner
  <2>1. list' = EmptyList
    BY <1>7, OwnerChanges
  <2>2. \/ stage = "none" /\ queue' = queue
        \/ /\ stage # "none"
           /\ \E e \in Event : e.kind = "owner" /\ e.new = up' /\ queue' = Append(queue, e)
    BY <1>7, OwnerChanges
  <2>3. Passes(Listed)
    BY <2>2, EventKinds DEF Passes
  <2>4. Unfollowed'
    BY <1>1, <1>2, <2>3, UnfollowedKept
  <2>5. CASE up' /\ app.listening
    <3>1. PICK e \in Event : e.kind = "owner" /\ e.new /\ queue' = Append(queue, e)
      BY <1>1, <2>2, <2>5 DEF Unfollowed
    <3>2. e \in Tellings /\ TidsThen(e) = list'
      BY <2>1, <3>1, EventKinds DEF TidsThen
    <3> QED  BY <2>4, <3>1, <3>2, ListLands
  <2>6. CASE ~(up' /\ app.listening)
    BY <1>1, <2>4, <2>6 DEF ListInv
  <2> QED  BY <2>5, <2>6
<1> QED  BY <1>4, <1>5, <1>6, <1>7 DEF Service

(* Every step keeps what is claimed about the list, ...                    *)
LEMMA ListKept ==
  TypeInv /\ ListInv /\ [Next]_vars => ListInv'
<1> SUFFICES ASSUME TypeInv, ListInv, [Next]_vars  PROVE ListInv'
  OBVIOUS
<1>1. CASE UNCHANGED vars
  BY <1>1 DEF vars, ListInv, Unfollowed, Awaited
<1> QED  BY <1>1, ListClient, ListApplication, ListAnswer, ListService DEF Next

(* ... and it holds at first.                                              *)
LEMMA ListInitial ==
  Init => ListInv
<1> SUFFICES ASSUME Init  PROVE ListInv
  OBVIOUS
<1>1. (\A i \in 1..Len(queue) : FALSE) /\ (\A n \in 1..Len(calls) : FALSE)
  BY DEF Init
<1> QED  BY <1>1 DEF Init, ListInv, Unfollowed, None

(* An application that connects to transactionListChanged() and then asks  *)
(* for the list ends up with the daemon's: the answer and the signals may  *)
(* be queued in any order, and a restart leaves it with the empty list.    *)
THEOREM ListRight == Spec => []ListFollowed
<1>1. ASSUME TypeInv, ListInv, Quiet, up, app.informed
      PROVE  app.list = list
  <2>1. app.listening
    BY <1>1 DEF ListInv, Unfollowed
  <2> QED  BY <1>1, <2>1, Settled, NothingAwaited DEF ListInv, Quiet, TypeInv
<1>2. TypeInv /\ ListInv => ListFollowed
  <2> SUFFICES ASSUME TypeInv, ListInv, Quiet, up, app.informed  PROVE app.list = list
    BY DEF ListFollowed
  <2> QED  BY <1>1
<1> QED  BY <1>2, TypeInitial, TypeKept, ListInitial, ListKept, PTL DEF Spec

=============================================================================

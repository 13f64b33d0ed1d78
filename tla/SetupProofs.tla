----------------------------- MODULE SetupProofs -----------------------------
(***************************************************************************)
(* Proofs about TransactionSetup, for all factory methods, for any signals *)
(* the application connects to and for all bounds: the request reaches the *)
(* daemon as it was made, with the right hints, and neither a result nor a *)
(* change of a property is lost or repeated on its way back.               *)
(***************************************************************************)
EXTENDS TransactionSetup, FiniteSetTheorems, TLAPS

(***************************************************************************)
(* The tables                                                              *)
(***************************************************************************)
(* A factory method sets a role that is dispatched.                        *)
LEMMA FactoryTyped ==
  \A f \in DOMAIN Factory :
    /\ Factory[f].role \in DOMAIN DispatchTable
    /\ Factory[f].sets \in SUBSET Field
<1>1. \A f \in DOMAIN Factory : Factory[f].role \in DOMAIN DispatchTable
  BY DEF Factory, FactoryQueries, FactoryChanges, FactorySearches, Sets, DispatchTable, Calls
<1>2. \A f \in DOMAIN Factory : Factory[f].sets \subseteq Field
  BY DEF Field
<1> QED  BY <1>1, <1>2

(* No two roles have the same method, ...                                  *)
LEMMA MethodsDiffer ==
  \A a, b \in DOMAIN DispatchTable :
    DispatchTable[a].method = DispatchTable[b].method => a = b
  BY DEF DispatchTable, Calls

(* ... no role is set by two factory methods, ...                          *)
LEMMA RolesDiffer ==
  \A a, b \in DOMAIN Factory : Factory[a].role = Factory[b].role => a = b
  BY SMTT(30) DEF Factory, FactoryQueries, FactoryChanges, FactorySearches, Sets

(* ... the method reads what the factory method sets, ...                  *)
LEMMA ParametersRead ==
  \A f \in DOMAIN Factory : DispatchTable[Factory[f].role].reads = Factory[f].sets
<1>1. \A f \in DOMAIN FactoryQueries : \A x :
        x \in FactoryQueries[f].sets <=> x \in DispatchTable[FactoryQueries[f].role].reads
  BY DEF FactoryQueries, Sets, DispatchTable, Calls
<1>2. \A f \in DOMAIN FactoryChanges : \A x :
        x \in FactoryChanges[f].sets <=> x \in DispatchTable[FactoryChanges[f].role].reads
  BY DEF FactoryChanges, Sets, DispatchTable, Calls
<1>3. \A f \in DOMAIN FactorySearches : \A x :
        x \in FactorySearches[f].sets <=> x \in DispatchTable[FactorySearches[f].role].reads
  BY DEF FactorySearches, Sets, DispatchTable, Calls
<1>4. \A f \in DOMAIN Factory : \A x :
        x \in Factory[f].sets <=> x \in DispatchTable[Factory[f].role].reads
  BY <1>1, <1>2, <1>3 DEF Factory
<1>5. \A S, T : (\A x : x \in S <=> x \in T) => S = T
  OBVIOUS
<1> QED  BY <1>4, <1>5

(* ... and no role without one is the role of a method.                    *)
LEMMA RolesTyped ==
  /\ "Unknown" \notin DOMAIN DispatchTable
  /\ DOMAIN DispatchTable \subseteq Role
  /\ "InstallPackages" \in Role /\ "Unknown" \in Role
  /\ Dispatch = DispatchTable
<1>1. "Unknown" \notin DOMAIN DispatchTable /\ "InstallPackages" \in DOMAIN DispatchTable
  BY DEF DispatchTable, Calls
<1> QED  BY <1>1 DEF Role, Dispatch

(* A call that the daemon serves is not NotRun, and its role is the one    *)
(* it was sent for.                                                        *)
LEMMA CallsTyped ==
  \A r \in DOMAIN DispatchTable :
    /\ DispatchTable[r] \in Range(DispatchTable)
    /\ DispatchTable[r] # NotRun
    /\ RoleOf(DispatchTable[r].method) = r
<1>1. \A r \in DOMAIN DispatchTable : DispatchTable[r].method # "none"
  BY DEF DispatchTable, Calls
<1>2. NotRun.method = "none"
  BY DEF NotRun, Calls
<1>3. \A r \in DOMAIN DispatchTable : DispatchTable[r] \in Range(DispatchTable)
  BY DEF Range
<1>4. \A r \in DOMAIN DispatchTable : RoleOf(DispatchTable[r].method) = r
  BY MethodsDiffer DEF RoleOf
<1> QED  BY <1>1, <1>2, <1>3, <1>4

(* The first D-Bus signal behind a signal of Transaction; two of them have *)
(* a second one.                                                           *)
First ==
  [category |-> "Category", details |-> "Details", distroUpgrade |-> "DistroUpgrade",
   errorCode |-> "ErrorCode", files |-> "Files", finished |-> "Finished",
   package |-> "Packages", repoDetail |-> "RepoDetail",
   repoSignatureRequired |-> "RepoSignatureRequired",
   eulaRequired |-> "EulaRequired", mediaChangeRequired |-> "MediaChangeRequired",
   itemProgress |-> "ItemProgress", requireRestart |-> "RequireRestart",
   transaction |-> "Transaction", updateDetail |-> "UpdateDetails"]

(* The D-Bus signals behind a signal.                                      *)
LEMMA BehindShape ==
  \A s \in DOMAIN Behind :
    /\ s \in DOMAIN First
    /\ Behind[s] = IF s = "package" THEN <<First[s], "Package">>
                   ELSE IF s = "updateDetail" THEN <<First[s], "UpdateDetail">> ELSE <<First[s]>>
  BY DEF Behind, First

(* No D-Bus signal is behind two signals of Transaction.                   *)
LEMMA BehindDiffer ==
  \A s, t \in DOMAIN Behind : \A x : x \in Range(Behind[s]) /\ x \in Range(Behind[t]) => s = t
<1>1. \A s \in DOMAIN Behind : \A x \in Range(Behind[s]) :
        x = First[s] \/ (s = "package" /\ x = "Package") \/ (s = "updateDetail" /\ x = "UpdateDetail")
  <2> TAKE s \in DOMAIN Behind
  <2>1. \A a, b, x : x \in Range(<<a, b>>) => x = a \/ x = b
    BY DEF Range
  <2>2. \A a, x : x \in Range(<<a>>) => x = a
    BY DEF Range
  <2> QED  BY <2>1, <2>2, BehindShape
<1>2. \A s, t \in DOMAIN First : First[s] = First[t] => s = t
  BY DEF First
<1>3. \A s \in DOMAIN First : First[s] # "Package" /\ First[s] # "UpdateDetail"
  BY DEF First
<1> QED  BY <1>1, <1>2, <1>3, BehindShape

(* What is subscribed to for a signal.                                     *)
LEMMA RelayedTyped ==
  \A s \in Listened :
    /\ Relayed(s) \in Seq(DBusSignal)
    /\ Range(Relayed(s)) \subseteq Range(Behind[s])
    /\ s \in DOMAIN Behind
<1>1. \A s \in DOMAIN Behind : Behind[s] \in Seq(Range(Behind[s]))
  <2> TAKE s \in DOMAIN Behind
  <2>1. ASSUME NEW a, NEW b, Behind[s] = <<a, b>>
        PROVE  Behind[s] \in Seq(Range(Behind[s]))
    <3>1. DOMAIN Behind[s] = 1..2 /\ Behind[s][1] = a /\ Behind[s][2] = b
      BY <2>1
    <3>2. a \in Range(Behind[s]) /\ b \in Range(Behind[s])
      BY <3>1 DEF Range
    <3> QED  BY <3>2, <2>1
  <2>2. ASSUME NEW a, Behind[s] = <<a>>
        PROVE  Behind[s] \in Seq(Range(Behind[s]))
    <3>1. DOMAIN Behind[s] = 1..1 /\ Behind[s][1] = a
      BY <2>2
    <3>2. a \in Range(Behind[s])
      BY <3>1 DEF Range
    <3> QED  BY <3>2, <2>2
  <2>3. CASE s = "package"
    BY <2>1, <2>3, BehindShape
  <2>4. CASE s = "updateDetail"
    BY <2>1, <2>4, BehindShape
  <2>5. CASE s # "package" /\ s # "updateDetail"
    BY <2>2, <2>5, BehindShape
  <2> QED  BY <2>3, <2>4, <2>5
<1>2. \A s \in Listened : s \in DOMAIN Behind /\ Range(Behind[s]) \subseteq DBusSignal
  BY ListenedAssumption DEF DBusSignal
<1>3. \A s \in Listened : Behind[s] \in Seq(DBusSignal)
  <2> TAKE s \in Listened
  <2> DEFINE b == Behind[s]
             R == Range(b)
  <2>1. b \in Seq(R) /\ R \subseteq DBusSignal
    BY <1>1, <1>2
  <2> HIDE DEF b, R
  <2>2. b \in Seq(DBusSignal)
    BY <2>1
  <2> QED  BY <2>2 DEF b
<1>4. <<>> \in Seq(DBusSignal) /\ Range(<<>>) = {}
  BY DEF Range
<1> QED  BY <1>2, <1>3, <1>4 DEF Relayed
(***************************************************************************)
(* The invariants                                                          *)
(***************************************************************************)
Target == saw.wanted \cup {"supports-plural-signals"}
Asked == DispatchTable[Factory[request].role]

(* In front of every method call that is still under way, in the daemon's  *)
(* inbox box or on the wire line, there is a message of S.                 *)
Ahead(S, box, line) ==
  /\ \A j \in DOMAIN box : box[j].kind = "Run" => \E i \in 1..(j - 1) : box[i] \in S
  /\ \A j \in DOMAIN line : line[j].kind = "Run" =>
       (\E i \in DOMAIN box : box[i] \in S) \/ (\E i \in 1..(j - 1) : line[i] \in S)

(* There is none.                                                          *)
Unhindered(S, box, line) ==
  /\ \A j \in DOMAIN box : box[j].kind = "Run" => \A i \in 1..(j - 1) : box[i] \notin S
  /\ \A j \in DOMAIN line : line[j].kind = "Run" =>
       (\A i \in DOMAIN box : box[i] \notin S) /\ (\A i \in 1..(j - 1) : line[i] \notin S)

(* Before setup() nothing has been sent and nothing but the tid can come.  *)
BeforeSetup ==
  d.stage # "ready" =>
    /\ wire = <<>> /\ inbox = <<>> /\ matched = {}
    /\ queue = <<>> \/ (d.stage = "creating" /\ queue = <<Message("tid")>>)
    /\ srv.role = "Unknown" /\ srv.status = 0 /\ srv.ran = NotRun /\ srv.emitted = {}
    /\ d.status = 0 /\ d.known = {} /\ d.relays = [x \in DBusSignal |-> 0]
    /\ saw.early = {} /\ saw.blind = {} /\ saw.heard = [x \in DBusSignal |-> 0]
    /\ saw.wanted = IF d.hints # <<>> THEN d.hints[1] ELSE app.hints
    /\ d.stage = "none" => request = "none" /\ d.connected = <<>> /\ d.role = "Unknown"
    /\ d.stage = "creating" => request # "none" /\ d.role = Factory[request].role

(* The tid comes once.                                                     *)
AfterSetup == d.stage = "ready" => \A i \in DOMAIN queue : queue[i].kind # "tid"

(* The method call: that of the request, and one until it has been served. *)
CallInv ==
  /\ \A j \in DOMAIN wire : wire[j].kind = "Run" => request # "none" /\ wire[j] = Run(Asked)
  /\ \A j \in DOMAIN inbox : inbox[j].kind = "Run" => request # "none" /\ inbox[j] = Run(Asked)
  /\ srv.ran # NotRun => request # "none" /\ srv.ran = Asked
  /\ request # "none" => (srv.role # "Unknown" <=> srv.ran # NotRun)
  /\ d.stage = "ready" /\ request # "none" =>
       \/ srv.ran # NotRun
       \/ \E j \in DOMAIN inbox : inbox[j].kind = "Run"
       \/ \E j \in DOMAIN wire : wire[j].kind = "Run"

HintMessages == {SetHints(l) : l \in HintList}

HintInv ==
  /\ Unhindered(HintMessages \ {SetHints(Target)}, inbox, wire)
  /\ srv.hints = Target \/ Ahead(HintMessages, inbox, wire)
  /\ srv.ran # NotRun => srv.ranWith = Target

(* The reply to GetAll.                                                    *)
Full(e) == e.kind = "properties" /\ DOMAIN e.values = Property
Received == d.known = Property \/ \E i \in DOMAIN queue : Full(queue[i])

KnownInv ==
  request # "none" =>
    /\ \/ d.known = Property
       \/ /\ d.known = {}
          /\ \A i \in DOMAIN queue :
               /\ queue[i].kind # "notify"
               /\ queue[i].kind = "properties" => \E h \in 1..i : Full(queue[h])
    /\ Received \/ (Ahead({Message("GetAll")}, inbox, wire) /\ srv.ran = NotRun)
    /\ saw.blind \subseteq {"RemainingTime"}

(* The last value of p that the client has, or that is on its way.         *)
Carries(e, p) == e.kind = "properties" /\ p \in DOMAIN e.values
Settles(p, value, now, events) ==
  \/ now = value /\ \A i \in DOMAIN events : ~Carries(events[i], p)
  \/ \E i \in DOMAIN events :
       /\ Carries(events[i], p) /\ events[i].values[p] = value
       /\ \A j \in DOMAIN events : j > i => ~Carries(events[j], p)

Subscribing(x) == {m \in Subscription : x \in Range(m.signals)}
Sees(x) == x \in matched \/ (Ahead(Subscribing(x), inbox, wire) /\ srv.ran = NotRun)

SettleInv ==
  request # "none" =>
    /\ Sees("PropertiesChanged")
    /\ Settles("Status", srv.status, d.status, queue)
    /\ srv.ran # NotRun => Settles("Role", srv.role, d.role, queue)

RelayInv ==
  \A x \in DBusSignal :
    d.relays[x] = IF d.stage = "ready" /\ \E i \in DOMAIN d.connected : x \in Range(Relayed(d.connected[i]))
                  THEN 1 ELSE 0

(* A result signal x is on its way once, and has been heard once after     *)
(* that.                                                                   *)
Once(x, emitted, heard, events) ==
  /\ heard \in {0, 1}
  /\ heard = 1 => x \in emitted /\ \A i \in DOMAIN events : events[i] # Result(x)
  /\ \A i \in DOMAIN events : events[i] = Result(x) =>
       x \in emitted /\ \A j \in DOMAIN events : events[j] = Result(x) => j = i

OnceInv == \A x \in DBusSignal : Once(x, srv.emitted, saw.heard[x], queue)

(* It is there.                                                            *)
Arrives(x, emitted, heard, events) ==
  x \in emitted => heard = 1 \/ \E i \in DOMAIN events : events[i] = Result(x)

EarlyInv ==
  \A s \in saw.early : \A x \in Range(Relayed(s)) :
    /\ request # "none" /\ d.stage = "ready"
    /\ s \in Range(d.connected)
    /\ Sees(x)
    /\ Arrives(x, srv.emitted, saw.heard[x], queue)


(***************************************************************************)
(* Queues                                                                  *)
(***************************************************************************)
(* The first element and the rest of a queue.                              *)
LEMMA HeadAndTail ==
  ASSUME NEW E, NEW q \in Seq(E), q # <<>>
  PROVE  /\ Head(q) \in E /\ Head(q) = q[1] /\ 1 \in DOMAIN q
         /\ Tail(q) \in Seq(E)
         /\ Len(q) \in Nat /\ Len(q) >= 1 /\ Len(Tail(q)) = Len(q) - 1
         /\ DOMAIN q = 1..Len(q) /\ DOMAIN Tail(q) = 1..(Len(q) - 1)
         /\ \A i \in DOMAIN Tail(q) : i + 1 \in DOMAIN q /\ Tail(q)[i] = q[i + 1]
  OBVIOUS

(* A queue with one more element.                                          *)
LEMMA Appended ==
  ASSUME NEW E, NEW q \in Seq(E), NEW x \in E
  PROVE  /\ Append(q, x) \in Seq(E)
         /\ Len(q) \in Nat /\ Len(Append(q, x)) = Len(q) + 1
         /\ DOMAIN q = 1..Len(q) /\ DOMAIN Append(q, x) = 1..(Len(q) + 1)
         /\ Append(q, x)[Len(q) + 1] = x
         /\ \A i \in DOMAIN q : i \in DOMAIN Append(q, x) /\ Append(q, x)[i] = q[i]
  OBVIOUS

(* A queue whose first element is replaced.                                *)
LEMMA Replaced ==
  ASSUME NEW E, NEW q \in Seq(E), q # <<>>, NEW x \in E
  PROVE  LET r == <<x>> \o Tail(q)
         IN  /\ r \in Seq(E) /\ DOMAIN r = DOMAIN q /\ r[1] = x
             /\ Len(q) \in Nat /\ DOMAIN q = 1..Len(q)
             /\ \A i \in DOMAIN q : i # 1 => r[i] = q[i]
  OBVIOUS

(***************************************************************************)
(* What is in front of the method call                                     *)
(***************************************************************************)
Sent == Call \cup Subscription

(* A message that moves from the wire to the inbox stays where it is in    *)
(* the order.                                                              *)
LEMMA AheadForwarded ==
  ASSUME NEW box \in Seq(Call), NEW line \in Seq(Sent), line # <<>>, Head(line) \in Call,
         NEW S
  PROVE  /\ Ahead(S, box, line) => Ahead(S, Append(box, Head(line)), Tail(line))
         /\ Unhindered(S, box, line) => Unhindered(S, Append(box, Head(line)), Tail(line))
<1> DEFINE box2 == Append(box, Head(line))
           line2 == Tail(line)
           n == Len(box)
<1>1. /\ n \in Nat /\ DOMAIN box = 1..n /\ DOMAIN box2 = 1..(n + 1) /\ box2[n + 1] = line[1]
      /\ \A i \in 1..n : box2[i] = box[i]
  BY Appended, HeadAndTail
<1>2. /\ Len(line) \in Nat /\ Len(line) >= 1 /\ DOMAIN line = 1..Len(line)
      /\ DOMAIN line2 = 1..(Len(line) - 1)
      /\ \A i \in DOMAIN line2 : line2[i] = line[i + 1]
  BY HeadAndTail
<1> HIDE DEF box2, line2, n
<1>3. ASSUME Ahead(S, box, line)  PROVE Ahead(S, box2, line2)
  <2>1. ASSUME NEW j \in DOMAIN box2, box2[j].kind = "Run"
        PROVE  \E i \in 1..(j - 1) : box2[i] \in S
    <3>1. CASE j \in 1..n
      <4>1. PICK i \in 1..(j - 1) : box[i] \in S
        BY <1>1, <1>3, <2>1, <3>1 DEF Ahead
      <4> QED  BY <1>1, <3>1, <4>1
    <3>2. CASE j = n + 1
      <4>1. 1 \in DOMAIN line /\ line[1].kind = "Run"
        BY <1>1, <1>2, <2>1, <3>2
      <4>2. PICK i \in DOMAIN box : box[i] \in S
        BY <1>3, <4>1 DEF Ahead
      <4> QED  BY <1>1, <3>2, <4>2
    <3> QED  BY <1>1, <2>1, <3>1, <3>2
  <2>2. ASSUME NEW j \in DOMAIN line2, line2[j].kind = "Run"
        PROVE  (\E i \in DOMAIN box2 : box2[i] \in S) \/ (\E i \in 1..(j - 1) : line2[i] \in S)
    <3>1. j + 1 \in DOMAIN line /\ line[j + 1].kind = "Run"
      BY <1>2, <2>2
    <3>2. CASE \E i \in DOMAIN box : box[i] \in S
      BY <1>1, <3>2
    <3>3. ASSUME NEW i \in 1..((j + 1) - 1), line[i] \in S
          PROVE  (\E k \in DOMAIN box2 : box2[k] \in S) \/ (\E k \in 1..(j - 1) : line2[k] \in S)
      <4>1. CASE i = 1
        <5>1. n + 1 \in DOMAIN box2 /\ box2[n + 1] \in S
          BY <1>1, <3>3, <4>1
        <5> QED  BY <5>1
      <4>2. CASE i # 1
        <5>1. i - 1 \in 1..(j - 1) /\ i - 1 \in DOMAIN line2 /\ line2[i - 1] = line[i]
          BY <1>2, <2>2, <3>3, <4>2
        <5> QED  BY <3>3, <5>1
      <4> QED  BY <4>1, <4>2
    <3> QED  BY <1>3, <3>1, <3>2, <3>3 DEF Ahead
  <2> QED  BY <2>1, <2>2 DEF Ahead
<1>4. ASSUME Unhindered(S, box, line)  PROVE Unhindered(S, box2, line2)
  <2>1. ASSUME NEW j \in DOMAIN box2, box2[j].kind = "Run", NEW i \in 1..(j - 1)
        PROVE  box2[i] \notin S
    <3>1. i \in 1..n /\ box2[i] = box[i]
      BY <1>1, <2>1
    <3>2. CASE j \in 1..n
      BY <1>1, <1>4, <2>1, <3>1, <3>2 DEF Unhindered
    <3>3. CASE j = n + 1
      <4>1. 1 \in DOMAIN line /\ line[1].kind = "Run"
        BY <1>1, <1>2, <2>1, <3>3
      <4> QED  BY <1>1, <1>4, <3>1, <4>1 DEF Unhindered
    <3> QED  BY <1>1, <2>1, <3>2, <3>3
  <2>2. ASSUME NEW j \in DOMAIN line2, line2[j].kind = "Run"
        PROVE  (\A i \in DOMAIN box2 : box2[i] \notin S) /\ (\A i \in 1..(j - 1) : line2[i] \notin S)
    <3>1. j + 1 \in DOMAIN line /\ line[j + 1].kind = "Run" /\ 1 \in 1..((j + 1) - 1)
      BY <1>2, <2>2
    <3>2. (\A i \in DOMAIN box : box[i] \notin S) /\ (\A i \in 1..((j + 1) - 1) : line[i] \notin S)
      BY <1>4, <3>1 DEF Unhindered
    <3>3. \A i \in DOMAIN box2 : box2[i] \notin S
      BY <1>1, <3>1, <3>2
    <3>4. ASSUME NEW i \in 1..(j - 1)  PROVE line2[i] \notin S
      <4>1. i + 1 \in 1..((j + 1) - 1) /\ i \in DOMAIN line2 /\ line2[i] = line[i + 1]
        BY <1>2, <2>2, <3>4
      <4> QED  BY <3>2, <4>1
    <3> QED  BY <3>3, <3>4
  <2> QED  BY <2>1, <2>2 DEF Unhindered
<1> QED  BY <1>3, <1>4 DEF box2, line2

(* A subscription that has been taken is no longer in front of the call.   *)
LEMMA AheadSubscribed ==
  ASSUME NEW box \in Seq(Call), NEW line \in Seq(Sent), line # <<>>, NEW S
  PROVE  /\ Ahead(S, box, line) /\ Head(line) \notin S => Ahead(S, box, Tail(line))
         /\ Unhindered(S, box, line) => Unhindered(S, box, Tail(line))
<1> DEFINE line2 == Tail(line)
<1>1. /\ Len(line) \in Nat /\ Len(line) >= 1 /\ DOMAIN line = 1..Len(line)
      /\ DOMAIN line2 = 1..(Len(line) - 1) /\ Head(line) = line[1]
      /\ \A i \in DOMAIN line2 : line2[i] = line[i + 1]
  BY HeadAndTail
<1> HIDE DEF line2
<1>2. ASSUME Ahead(S, box, line), Head(line) \notin S,
             NEW j \in DOMAIN line2, line2[j].kind = "Run"
      PROVE  (\E i \in DOMAIN box : box[i] \in S) \/ (\E i \in 1..(j - 1) : line2[i] \in S)
  <2>1. j + 1 \in DOMAIN line /\ line[j + 1].kind = "Run"
    BY <1>1, <1>2
  <2>2. ASSUME NEW i \in 1..((j + 1) - 1), line[i] \in S
        PROVE  \E k \in 1..(j - 1) : line2[k] \in S
    <3>1. i # 1
      BY <1>1, <1>2, <2>2
    <3>2. i - 1 \in 1..(j - 1) /\ i - 1 \in DOMAIN line2 /\ line2[i - 1] = line[i]
      BY <1>1, <1>2, <2>2, <3>1
    <3> QED  BY <2>2, <3>2
  <2> QED  BY <1>2, <2>1, <2>2 DEF Ahead
<1>3. ASSUME Unhindered(S, box, line), NEW j \in DOMAIN line2, line2[j].kind = "Run"
      PROVE  (\A i \in DOMAIN box : box[i] \notin S) /\ (\A i \in 1..(j - 1) : line2[i] \notin S)
  <2>1. j + 1 \in DOMAIN line /\ line[j + 1].kind = "Run"
    BY <1>1, <1>3
  <2>2. ASSUME NEW i \in 1..(j - 1)  PROVE line2[i] \notin S
    <3>1. i + 1 \in 1..((j + 1) - 1) /\ i \in DOMAIN line2 /\ line2[i] = line[i + 1]
      BY <1>1, <1>3, <2>2
    <3> QED  BY <1>3, <2>1, <3>1 DEF Unhindered
  <2> QED  BY <1>3, <2>1, <2>2 DEF Unhindered
<1> QED  BY <1>2, <1>3 DEF Ahead, Unhindered, line2

(* The bus may take one signal of a subscription and leave the others.     *)
LEMMA AheadShortened ==
  ASSUME NEW box \in Seq(Call), NEW line \in Seq(Sent), line # <<>>,
         NEW m \in Subscription, NEW S
  PROVE  /\ Ahead(S, box, line) /\ (Head(line) \in S => m \in S) =>
              Ahead(S, box, <<m>> \o Tail(line))
         /\ Unhindered(S, box, line) /\ m \notin S => Unhindered(S, box, <<m>> \o Tail(line))
<1> DEFINE line2 == <<m>> \o Tail(line)
<1>1. /\ Len(line) \in Nat /\ Len(line) >= 1 /\ DOMAIN line = 1..Len(line)
      /\ DOMAIN line2 = 1..Len(line) /\ Head(line) = line[1] /\ line2[1] = m
      /\ \A i \in DOMAIN line2 : i # 1 => line2[i] = line[i]
  <2>1. Len(line) >= 1 /\ Head(line) = line[1]
    BY HeadAndTail
  <2>2. m \in Sent
    BY DEF Sent
  <2> QED  BY <2>1, <2>2, Replaced
<1>2. m.kind # "Run"
  BY DEF Subscription
<1> HIDE DEF line2
<1>3. ASSUME Ahead(S, box, line), Head(line) \in S => m \in S,
             NEW j \in DOMAIN line2, line2[j].kind = "Run"
      PROVE  (\E i \in DOMAIN box : box[i] \in S) \/ (\E i \in 1..(j - 1) : line2[i] \in S)
  <2>1. j # 1 /\ j \in DOMAIN line /\ line[j].kind = "Run"
    BY <1>1, <1>2, <1>3
  <2>2. ASSUME NEW i \in 1..(j - 1), line[i] \in S  PROVE line2[i] \in S
    BY <1>1, <1>3, <2>1, <2>2
  <2> QED  BY <1>3, <2>1, <2>2 DEF Ahead
<1>4. ASSUME Unhindered(S, box, line), m \notin S, NEW j \in DOMAIN line2, line2[j].kind = "Run"
      PROVE  (\A i \in DOMAIN box : box[i] \notin S) /\ (\A i \in 1..(j - 1) : line2[i] \notin S)
  <2>1. j # 1 /\ j \in DOMAIN line /\ line[j].kind = "Run"
    BY <1>1, <1>2, <1>4
  <2>2. ASSUME NEW i \in 1..(j - 1)  PROVE line2[i] \notin S
    <3>1. line[i] \notin S
      BY <1>4, <2>1, <2>2 DEF Unhindered
    <3> QED  BY <1>1, <1>4, <2>1, <2>2, <3>1
  <2> QED  BY <1>4, <2>1, <2>2 DEF Unhindered
<1> QED  BY <1>3, <1>4 DEF Ahead, Unhindered, line2

(* The daemon serves a call that is not the method's.                      *)
LEMMA AheadServed ==
  ASSUME NEW box \in Seq(Call), NEW line \in Seq(Sent), box # <<>>, NEW S
  PROVE  /\ Ahead(S, box, line) /\ Head(box) \notin S => Ahead(S, Tail(box), line)
         /\ Ahead(S, box, line) => Head(box).kind # "Run"
         /\ Unhindered(S, box, line) => Unhindered(S, Tail(box), line)
<1> DEFINE box2 == Tail(box)
<1>1. /\ Len(box) \in Nat /\ Len(box) >= 1 /\ DOMAIN box = 1..Len(box) /\ 1 \in DOMAIN box
      /\ DOMAIN box2 = 1..(Len(box) - 1) /\ Head(box) = box[1]
      /\ \A i \in DOMAIN box2 : i + 1 \in DOMAIN box /\ box2[i] = box[i + 1]
  BY HeadAndTail
<1> HIDE DEF box2
<1>2. ASSUME Ahead(S, box, line), Head(box) \notin S, NEW j \in DOMAIN box2, box2[j].kind = "Run"
      PROVE  \E i \in 1..(j - 1) : box2[i] \in S
  <2>1. j + 1 \in DOMAIN box /\ box[j + 1].kind = "Run"
    BY <1>1, <1>2
  <2>2. PICK i \in 1..((j + 1) - 1) : box[i] \in S
    BY <1>2, <2>1 DEF Ahead
  <2>3. i # 1
    BY <1>1, <1>2, <2>2
  <2>4. i - 1 \in 1..(j - 1) /\ i - 1 \in DOMAIN box2 /\ box2[i - 1] = box[i]
    BY <1>1, <1>2, <2>2, <2>3
  <2> QED  BY <2>2, <2>4
<1>3. ASSUME Ahead(S, box, line), Head(box) \notin S, NEW j \in DOMAIN line, line[j].kind = "Run"
      PROVE  (\E i \in DOMAIN box2 : box2[i] \in S) \/ (\E i \in 1..(j - 1) : line[i] \in S)
  <2>1. ASSUME NEW i \in DOMAIN box, box[i] \in S  PROVE \E k \in DOMAIN box2 : box2[k] \in S
    <3>1. i # 1
      BY <1>1, <1>3, <2>1
    <3>2. i - 1 \in DOMAIN box2 /\ box2[i - 1] = box[i]
      BY <1>1, <2>1, <3>1
    <3> QED  BY <2>1, <3>2
  <2> QED  BY <1>3, <2>1 DEF Ahead
<1>4. ASSUME Ahead(S, box, line), Head(box).kind = "Run"  PROVE FALSE
  <2>1. \E i \in 1..(1 - 1) : box[i] \in S
    BY <1>1, <1>4 DEF Ahead
  <2> QED  BY <2>1
<1>5. ASSUME Unhindered(S, box, line), NEW j \in DOMAIN box2, box2[j].kind = "Run",
             NEW i \in 1..(j - 1)
      PROVE  box2[i] \notin S
  <2>1. j + 1 \in DOMAIN box /\ box[j + 1].kind = "Run"
    BY <1>1, <1>5
  <2>2. i + 1 \in 1..((j + 1) - 1) /\ i \in DOMAIN box2 /\ box2[i] = box[i + 1]
    BY <1>1, <1>5
  <2> QED  BY <1>5, <2>1, <2>2 DEF Unhindered
<1>6. ASSUME Unhindered(S, box, line), NEW j \in DOMAIN line, line[j].kind = "Run"
      PROVE  (\A i \in DOMAIN box2 : box2[i] \notin S) /\ (\A i \in 1..(j - 1) : line[i] \notin S)
  BY <1>1, <1>6 DEF Unhindered
<1> QED  BY <1>2, <1>3, <1>4, <1>5, <1>6 DEF Ahead, Unhindered, box2

(* What is sent after the call is behind it.                               *)
LEMMA AheadAppended ==
  ASSUME NEW box \in Seq(Call), NEW line \in Seq(Sent), NEW m \in Sent, m.kind # "Run", NEW S
  PROVE  /\ Ahead(S, box, line) => Ahead(S, box, Append(line, m))
         /\ Unhindered(S, box, line) => Unhindered(S, box, Append(line, m))
<1> DEFINE line2 == Append(line, m)
           n == Len(line)
<1>1. /\ n \in Nat /\ DOMAIN line = 1..n /\ DOMAIN line2 = 1..(n + 1) /\ line2[n + 1] = m
      /\ \A i \in 1..n : line2[i] = line[i]
  BY Appended
<1> HIDE DEF line2, n
<1>2. ASSUME NEW j \in DOMAIN line2, line2[j].kind = "Run"
      PROVE  j \in DOMAIN line /\ line[j].kind = "Run" /\ \A i \in 1..(j - 1) : line2[i] = line[i]
  <2>1. j # n + 1
    BY <1>1, <1>2
  <2> QED  BY <1>1, <1>2, <2>1
<1>3. ASSUME Ahead(S, box, line)  PROVE Ahead(S, box, line2)
  <2>1. ASSUME NEW j \in DOMAIN line2, line2[j].kind = "Run"
        PROVE  (\E i \in DOMAIN box : box[i] \in S) \/ (\E i \in 1..(j - 1) : line2[i] \in S)
    <3>1. j \in DOMAIN line /\ line[j].kind = "Run" /\ \A i \in 1..(j - 1) : line2[i] = line[i]
      BY <1>2, <2>1
    <3>2. (\E i \in DOMAIN box : box[i] \in S) \/ (\E i \in 1..(j - 1) : line[i] \in S)
      BY <1>3, <3>1 DEF Ahead
    <3> QED  BY <3>1, <3>2
  <2> QED  BY <1>3, <2>1 DEF Ahead
<1>4. ASSUME Unhindered(S, box, line)  PROVE Unhindered(S, box, line2)
  <2>1. ASSUME NEW j \in DOMAIN line2, line2[j].kind = "Run"
        PROVE  (\A i \in DOMAIN box : box[i] \notin S) /\ (\A i \in 1..(j - 1) : line2[i] \notin S)
    <3>1. j \in DOMAIN line /\ line[j].kind = "Run" /\ \A i \in 1..(j - 1) : line2[i] = line[i]
      BY <1>2, <2>1
    <3>2. (\A i \in DOMAIN box : box[i] \notin S) /\ (\A i \in 1..(j - 1) : line[i] \notin S)
      BY <1>4, <3>1 DEF Unhindered
    <3> QED  BY <3>1, <3>2
  <2> QED  BY <1>4, <2>1 DEF Unhindered
<1> QED  BY <1>3, <1>4 DEF line2

(* Behind a message that no call may come after there is none.             *)
LEMMA HinderedIsLast ==
  ASSUME NEW box \in Seq(Call), NEW line \in Seq(Sent), box # <<>>, NEW W, NEW S,
         Unhindered(W, box, line), Head(box) \in W
  PROVE  Ahead(S, Tail(box), line)
<1> DEFINE box2 == Tail(box)
<1>1. /\ Len(box) \in Nat /\ DOMAIN box = 1..Len(box) /\ 1 \in DOMAIN box /\ Head(box) = box[1]
      /\ DOMAIN box2 = 1..(Len(box) - 1)
      /\ \A i \in DOMAIN box2 : i + 1 \in DOMAIN box /\ box2[i] = box[i + 1]
  BY HeadAndTail
<1> HIDE DEF box2
<1>2. ASSUME NEW j \in DOMAIN box2, box2[j].kind = "Run"  PROVE FALSE
  <2>1. j + 1 \in DOMAIN box /\ box[j + 1].kind = "Run" /\ 1 \in 1..((j + 1) - 1)
    BY <1>1, <1>2
  <2> QED  BY <1>1, <2>1 DEF Unhindered
<1>3. ASSUME NEW j \in DOMAIN line, line[j].kind = "Run"  PROVE FALSE
  BY <1>1, <1>3 DEF Unhindered
<1> QED  BY <1>2, <1>3 DEF Ahead, box2

(***************************************************************************)
(* Types                                                                   *)
(***************************************************************************)
(* The messages.                                                           *)
LEMMA MessagesTyped ==
  /\ Message("GetAll") \in Call
  /\ \A l \in HintList : SetHints(l) \in Call
  /\ \A r \in DOMAIN DispatchTable : Run(DispatchTable[r]) \in Call
  /\ Watch(<<"Destroy">>) \in Subscription /\ Watch(<<"PropertiesChanged">>) \in Subscription
  /\ \A s \in Listened : Watch(Relayed(s)) \in Subscription
  /\ \A q \in Seq(Watchable) : Watch(q) \in Subscription
<1>1. Message("GetAll") \in Call
  BY DEF Message, Call
<1>2. \A l \in HintList : SetHints(l) \in Call
  BY DEF SetHints, Call
<1>3. \A r \in DOMAIN DispatchTable : Run(DispatchTable[r]) \in Call
  BY CallsTyped DEF Run, Call
<1>4. \A q \in Seq(Watchable) : Watch(q) \in Subscription
  BY DEF Watch, Subscription
<1>5. <<"Destroy">> \in Seq(Watchable) /\ <<"PropertiesChanged">> \in Seq(Watchable)
  BY DEF Watchable
<1>6. \A s \in Listened : Relayed(s) \in Seq(Watchable)
  <2> TAKE s \in Listened
  <2> DEFINE q == Relayed(s)
  <2>1. q \in Seq(DBusSignal) /\ DBusSignal \subseteq Watchable
    BY RelayedTyped DEF Watchable
  <2> HIDE DEF q
  <2>2. q \in Seq(Watchable)
    BY <2>1
  <2> QED  BY <2>2 DEF q
<1> QED  BY <1>1, <1>2, <1>3, <1>4, <1>5, <1>6

(* The messages of setup() are the hints, the subscription to Destroy,     *)
(* GetAll, the subscription to the properties, those for the signals, and  *)
(* the call of the method if there is one.                                 *)
LEMMA Burst ==
  ASSUME NEW l \in HintList, NEW o \in Private, d = o
  PROVE  LET b == setupMessages(l)
             n == Len(d.connected)
         IN  /\ b \in Seq(Sent) /\ n \in Nat /\ DOMAIN d.connected = 1..n
             /\ DOMAIN b = 1..(4 + n + IF d.role \in DOMAIN DispatchTable THEN 1 ELSE 0)
             /\ b[1] = SetHints(l) /\ b[2] = Watch(<<"Destroy">>)
             /\ b[3] = Message("GetAll") /\ b[4] = Watch(<<"PropertiesChanged">>)
             /\ \A i \in 1..n : b[4 + i] = Watch(Relayed(d.connected[i]))
             /\ d.role \in DOMAIN DispatchTable => b[5 + n] = Run(DispatchTable[d.role])
<1> DEFINE n == Len(d.connected)
           first == <<SetHints(l), Watch(<<"Destroy">>), Message("GetAll"),
                      Watch(<<"PropertiesChanged">>)>>
           second == signalMatches
           third == runQueuedTransaction
           k == IF d.role \in DOMAIN DispatchTable THEN 1 ELSE 0
<1>1. d.connected \in Seq(Listened) /\ n \in Nat /\ DOMAIN d.connected = 1..n
  BY DEF Private
<1>2. /\ first \in Seq(Sent) /\ Len(first) = 4
      /\ first[1] = SetHints(l) /\ first[2] = Watch(<<"Destroy">>)
      /\ first[3] = Message("GetAll") /\ first[4] = Watch(<<"PropertiesChanged">>)
  <2>1. /\ SetHints(l) \in Sent /\ Watch(<<"Destroy">>) \in Sent
        /\ Message("GetAll") \in Sent /\ Watch(<<"PropertiesChanged">>) \in Sent
    BY MessagesTyped DEF Sent
  <2> QED  BY <2>1
<1>3. /\ second \in Seq(Sent) /\ Len(second) = n
      /\ \A i \in 1..n : second[i] = Watch(Relayed(d.connected[i]))
  <2>1. second = [i \in 1..n |-> Watch(Relayed(d.connected[i]))]
    BY <1>1 DEF signalMatches
  <2>2. \A i \in 1..n : Watch(Relayed(d.connected[i])) \in Sent
    <3> TAKE i \in 1..n
    <3>1. d.connected[i] \in Listened
      BY <1>1
    <3> QED  BY <3>1, MessagesTyped DEF Sent
  <2> HIDE DEF second
  <2> QED  BY <1>1, <2>1, <2>2
<1>4. /\ third \in Seq(Sent) /\ Len(third) = k /\ k \in 0..1
      /\ d.role \in DOMAIN DispatchTable => third[1] = Run(DispatchTable[d.role])
  <2>1. CASE d.role \in DOMAIN DispatchTable
    <3>1. third = <<Run(DispatchTable[d.role])>>
      BY <2>1, RolesTyped DEF runQueuedTransaction
    <3>2. Run(DispatchTable[d.role]) \in Sent
      BY <2>1, MessagesTyped DEF Sent
    <3> HIDE DEF third
    <3> QED  BY <2>1, <3>1, <3>2
  <2>2. CASE d.role \notin DOMAIN DispatchTable
    <3>1. third = <<>>
      BY <2>2, RolesTyped DEF runQueuedTransaction
    <3> HIDE DEF third
    <3> QED  BY <2>2, <3>1
  <2> QED  BY <2>1, <2>2
<1>5. setupMessages(l) = (first \o second) \o third
  BY DEF setupMessages
<1> HIDE DEF first, second, third, n
<1> DEFINE f == first \o second
<1>6. /\ f \in Seq(Sent) /\ Len(f) = 4 + n /\ DOMAIN f = 1..(4 + n)
      /\ \A i \in 1..4 : f[i] = first[i]
      /\ \A i \in 1..n : f[4 + i] = second[i]
  <2>1. /\ f \in Seq(Sent)
        /\ Len(first) \in Nat /\ Len(second) \in Nat /\ Len(f) = Len(first) + Len(second)
        /\ DOMAIN first = 1..Len(first) /\ DOMAIN second = 1..Len(second)
        /\ DOMAIN f = 1..(Len(first) + Len(second))
        /\ \A i \in DOMAIN first : f[i] = first[i]
        /\ \A i \in DOMAIN second : f[Len(first) + i] = second[i]
    <3>1. first \in Seq(Sent) /\ second \in Seq(Sent)
      BY <1>2, <1>3
    <3> QED  BY <3>1
  <2> HIDE DEF f
  <2> QED  BY <1>2, <1>3, <2>1
<1> HIDE DEF f
<1>7. /\ f \o third \in Seq(Sent)
      /\ DOMAIN (f \o third) = 1..(4 + n + k)
      /\ \A i \in 1..(4 + n) : (f \o third)[i] = f[i]
      /\ \A i \in 1..k : (f \o third)[4 + n + i] = third[i]
  <2> DEFINE g == f \o third
  <2>1. /\ g \in Seq(Sent) /\ Len(g) = Len(f) + Len(third)
        /\ DOMAIN f = 1..Len(f) /\ DOMAIN third = 1..Len(third)
        /\ DOMAIN g = 1..(Len(f) + Len(third))
        /\ \A i \in DOMAIN f : g[i] = f[i]
        /\ \A i \in DOMAIN third : g[Len(f) + i] = third[i]
    <3>1. f \in Seq(Sent) /\ third \in Seq(Sent)
      BY <1>4, <1>6
    <3> QED  BY <3>1
  <2> HIDE DEF g
  <2>2. \A i \in 1..(4 + n) : g[i] = f[i]
    BY <1>6, <2>1
  <2>3. DOMAIN g = 1..(4 + n + k)
    BY <1>4, <1>6, <2>1
  <2>4. \A i \in 1..k : g[4 + n + i] = third[i]
    BY <1>4, <1>6, <2>1
  <2> QED  BY <2>1, <2>2, <2>3, <2>4 DEF g
<1> DEFINE g == setupMessages(l)
<1>8. g = f \o third
  BY <1>5 DEF f
<1> HIDE DEF g
<1>9. /\ g[1] = SetHints(l) /\ g[2] = Watch(<<"Destroy">>)
      /\ g[3] = Message("GetAll") /\ g[4] = Watch(<<"PropertiesChanged">>)
  <2>1. 1 \in 1..4 /\ 2 \in 1..4 /\ 3 \in 1..4 /\ 4 \in 1..4 /\ 1..4 \subseteq 1..(4 + n)
    BY <1>1 DEF n
  <2> QED  BY <1>2, <1>6, <1>7, <1>8, <2>1
<1>10. \A i \in 1..n : g[4 + i] = Watch(Relayed(d.connected[i]))
  <2> TAKE i \in 1..n
  <2>1. n \in Nat
    BY <1>1 DEF n
  <2>2. 4 + i \in 1..(4 + n)
    BY <2>1
  <2> QED  BY <1>3, <1>6, <1>7, <1>8, <2>2
<1>11. ASSUME d.role \in DOMAIN DispatchTable  PROVE g[5 + n] = Run(DispatchTable[d.role])
  <2>1. n \in Nat
    BY <1>1 DEF n
  <2>2. 1 \in 1..k /\ 4 + n + 1 = 5 + n
    BY <1>11, <2>1
  <2> QED  BY <1>4, <1>7, <1>8, <1>11, <2>2
<1> QED  BY <1>1, <1>7, <1>8, <1>9, <1>10, <1>11 DEF g, n

(* The hints that setup() sends.                                           *)
LEMMA HintsTyped ==
  ASSUME TypeOK
  PROVE  hintsAtSetup \in HintList /\ Target \in HintList
<1>1. app.hints \in HintLists \cup {{}}
  BY DEF TypeOK
<1>2. app.hints \cup {"supports-plural-signals"} \in HintList
  BY <1>1 DEF HintList
<1>3. d.hints \in {<<>>} \cup {<<l>> : l \in HintList}
  BY DEF TypeOK, Private
<1>4. d.hints # <<>> => d.hints[1] \in HintList
  BY <1>3
<1>5. d.hints # <<>> => d.hints[1] \cup {"supports-plural-signals"} \in HintList
  BY <1>4 DEF HintList
<1>6. saw.wanted \in HintList
  BY DEF TypeOK
<1>7. Target \in HintList
  BY <1>6 DEF Target, HintList
<1> QED  BY <1>2, <1>5, <1>7 DEF hintsAtSetup

(* The relays that setup() connects: a signal of the application that has  *)
(* been connected is relayed once.                                         *)
LEMMA RelaysCounted ==
  ASSUME TypeOK
  PROVE  /\ signalRelays \in [DBusSignal -> Nat]
         /\ \A x \in DBusSignal :
              signalRelays[x] = IF \E i \in DOMAIN d.connected : x \in Range(Relayed(d.connected[i]))
                                THEN 1 ELSE 0
<1> DEFINE at(x) == {i \in DOMAIN d.connected : x \in Range(Relayed(d.connected[i]))}
<1>1. /\ d.connected \in Seq(Listened) /\ IsInjective(d.connected)
      /\ \A i \in DOMAIN d.connected : d.connected[i] \in Listened
  BY DEF TypeOK, Private
<1>2. ASSUME NEW x \in DBusSignal, NEW i \in at(x)  PROVE at(x) = {i}
  <2>1. ASSUME NEW j \in at(x)  PROVE j = i
    <3>1. /\ d.connected[i] \in DOMAIN Behind /\ d.connected[j] \in DOMAIN Behind
          /\ x \in Range(Behind[d.connected[i]]) /\ x \in Range(Behind[d.connected[j]])
      BY <1>1, <1>2, <2>1, RelayedTyped
    <3>2. d.connected[i] = d.connected[j]
      BY <3>1, BehindDiffer
    <3> QED  BY <1>1, <1>2, <2>1, <3>2 DEF IsInjective
  <2> QED  BY <1>2, <2>1
<1>3. ASSUME NEW x \in DBusSignal
      PROVE  Cardinality(at(x)) = IF \E i \in DOMAIN d.connected : x \in Range(Relayed(d.connected[i]))
                                  THEN 1 ELSE 0
  <2>1. CASE at(x) = {}
    BY <2>1, FS_EmptySet
  <2>2. CASE at(x) # {}
    <3>1. PICK i : i \in at(x)
      BY <2>2
    <3>2. Cardinality(at(x)) = 1
      BY <1>2, <3>1, FS_Singleton
    <3> QED  BY <3>1, <3>2
  <2> QED  BY <2>1, <2>2
<1>4. \A x \in DBusSignal : signalRelays[x] = Cardinality(at(x))
  BY DEF signalRelays
<1>5. signalRelays = [x \in DBusSignal |-> Cardinality(at(x))]
  BY DEF signalRelays
<1> HIDE DEF at
<1> QED  BY <1>3, <1>4, <1>5

(* setup() gives the object well-typed relays, hints and messages.         *)
LEMMA SetupTyped ==
  ASSUME TypeOK, setup(d)
  PROVE  /\ d' \in Private /\ IsInjective(d'.connected)
         /\ wire' \in Seq(Sent)
         /\ saw' \in [early: SUBSET Listened, wanted: HintList, blind: SUBSET Property,
                      heard: [DBusSignal -> Nat]]
<1>1. d \in Private /\ IsInjective(d.connected) /\ wire \in Seq(Sent)
  BY DEF TypeOK, Sent
<1>2. hintsAtSetup \in HintList /\ signalRelays \in [DBusSignal -> Nat]
  BY HintsTyped, RelaysCounted
<1>3. d' = [d EXCEPT !.stage = "ready", !.hints = <<hintsAtSetup>>, !.relays = signalRelays]
  BY DEF setup
<1>4. d' \in Private /\ d'.connected = d.connected
  BY <1>1, <1>2, <1>3 DEF Private
<1>5. setupMessages(hintsAtSetup) \in Seq(Sent)
  BY <1>1, <1>2, Burst
<1>6. wire' \in Seq(Sent)
  <2> DEFINE b == setupMessages(hintsAtSetup)
  <2>1. b \in Seq(Sent) /\ wire' = wire \o b
    BY <1>5 DEF setup
  <2> HIDE DEF b
  <2> QED  BY <1>1, <2>1
<1>7. Range(d.connected) \subseteq Listened
  BY <1>1 DEF Private, Range
<1> QED  BY <1>1, <1>4, <1>6, <1>7 DEF setup, TypeOK

(* The events that the daemon posts.                                       *)
LEMMA EventsTyped ==
  /\ Message("tid") \in Event
  /\ \A p \in Property : Notification(p) \in Event
  /\ \A x \in DBusSignal : Result(x) \in Event
  /\ \A r \in Role : Properties([Role |-> r]) \in Event
  /\ \A n \in 0..MaxStatus : Properties([Status |-> n]) \in Event
  /\ \A r \in Role : \A n \in 0..MaxStatus :
       Properties([RemainingTime |-> 0, Role |-> r, Status |-> n]) \in Event
<1>1. \A r \in Role : Properties([Role |-> r]) \in Event
  BY DEF Event, Properties
<1>2. \A n \in 0..MaxStatus : Properties([Status |-> n]) \in Event
  BY DEF Event, Properties
<1>3. \A r \in Role : \A n \in 0..MaxStatus : [RemainingTime |-> 0, Role |-> r, Status |-> n] \in Reply
  BY DEF Reply
<1>4. \A v \in Reply : Properties(v) \in Event
  BY DEF Event, Properties
<1>5. /\ Message("tid") \in Event
      /\ \A p \in Property : Notification(p) \in Event
      /\ \A x \in DBusSignal : Result(x) \in Event
  BY DEF Event, Message, Notification, Result
<1> QED  BY <1>1, <1>2, <1>3, <1>4, <1>5

(* The contents of an event that carries properties.                       *)
LEMMA ValuesTyped ==
  ASSUME NEW e \in Event, e.kind = "properties"
  PROVE  /\ e.values \in Reply \cup [Role: Role] \cup [Status: 0..MaxStatus]
         /\ DOMAIN e.values \subseteq Property
         /\ "Role" \in DOMAIN e.values => e.values["Role"] \in Role
         /\ "Status" \in DOMAIN e.values => e.values["Status"] \in 0..MaxStatus
         /\ "RemainingTime" \in DOMAIN e.values => DOMAIN e.values = Property
<1>1. e.values \in Reply \cup [Role: Role] \cup [Status: 0..MaxStatus]
  BY DEF Event
<1>2. CASE e.values \in Reply
  BY <1>2 DEF Reply, Property
<1>3. CASE e.values \in [Role: Role]
  BY <1>3 DEF Property
<1>4. CASE e.values \in [Status: 0..MaxStatus]
  BY <1>4 DEF Property
<1> QED  BY <1>1, <1>2, <1>3, <1>4

(* The notifications that updateProperties() posts.                        *)
LEMMA PostsTyped ==
  ASSUME NEW v
  PROVE  /\ Posts(v) \in Seq(Event)
         /\ \A i \in DOMAIN Posts(v) : Posts(v)[i].kind = "notify"
<1> DEFINE N == [kind: {"notify"}, property: Property]
<1>1. \A p \in Property : Posted(p, v) \in Seq(N)
  <2> TAKE p \in Property
  <2>1. Notification(p) \in N
    BY DEF Notification
  <2> HIDE DEF N
  <2>2. <<Notification(p)>> \in Seq(N) /\ <<>> \in Seq(N)
    BY <2>1
  <2> QED  BY <2>2 DEF Posted
<1>2. Posts(v) \in Seq(N)
  <2>1. \A a, b, c \in Seq(N) : a \o b \o c \in Seq(N)
    OBVIOUS
  <2> QED  BY <1>1, <2>1 DEF Posts, Property
<1>3. \A e \in N : e.kind = "notify" /\ e \in Event
  BY DEF Event
<1> HIDE DEF N
<1> DEFINE q == Posts(v)
<1>4. q \in Seq(N)
  BY <1>2
<1> HIDE DEF q
<1>5. q \in Seq(Event) /\ \A i \in DOMAIN q : q[i].kind = "notify"
  BY <1>3, <1>4
<1> QED  BY <1>5 DEF q

(* The application, ...                                                    *)
LEMMA ApplicationTyped ==
  ASSUME TypeOK, Application
  PROVE  TypeOK'
<1>1. ASSUME NEW f \in Requests, Create(f)  PROVE TypeOK'
  <2>1. f \in DOMAIN Factory
    BY RequestsAssumption
  <2>2. Factory[f].role \in Role /\ Factory[f].sets \in SUBSET Field
    BY <2>1, FactoryTyped, RolesTyped
  <2>3. d' \in Private /\ d'.connected = d.connected
    BY <1>1, <2>2 DEF Create, TypeOK, Private
  <2> QED  BY <1>1, <2>3 DEF Create, TypeOK
<1>2. CASE Attach
  <2>1. srv' \in Served
    BY <1>2, RolesTyped DEF Attach, TypeOK, Served
  <2> QED  BY <1>2, <2>1, SetupTyped DEF Attach, TypeOK, Sent
<1>3. ASSUME NEW s \in Listened, Connect(s)  PROVE TypeOK'
  <2>1. app' \in [slots: [Listened -> 0..MaxSlots], hints: HintLists \cup {{}}, hinted: 0..MaxHints]
    <3>1. app.slots \in [Listened -> 0..MaxSlots] /\ app.slots[s] + 1 \in 0..MaxSlots
      BY <1>3, SetupBoundsAssumption DEF TypeOK, Connect
    <3> QED  BY <1>3, <3>1 DEF TypeOK, Connect
  <2>2. CASE s \in Range(d.connected)
    BY <1>3, <2>1, <2>2 DEF Connect, connectNotify, TypeOK
  <2>3. CASE s \notin Range(d.connected)
    <3> DEFINE c == Append(d.connected, s)
               r == IF d.stage = "ready" THEN Relay(d.relays, s) ELSE d.relays
    <3>1. d.connected \in Seq(Listened) /\ d.relays \in [DBusSignal -> Nat] /\ d \in Private
      BY DEF TypeOK, Private
    <3>2. c \in Seq(Listened) /\ IsInjective(c)
      <4>1. /\ c \in Seq(Listened) /\ Len(d.connected) \in Nat
            /\ DOMAIN d.connected = 1..Len(d.connected) /\ DOMAIN c = 1..(Len(d.connected) + 1)
            /\ c[Len(d.connected) + 1] = s
            /\ \A i \in DOMAIN d.connected : c[i] = d.connected[i]
        BY <3>1, Appended
      <4>2. \A i \in DOMAIN d.connected : d.connected[i] # s
        BY <2>3 DEF Range
      <4> HIDE DEF c
      <4>3. \A i, j \in DOMAIN c : c[i] = c[j] => i = j
        <5>1. \A i, j \in DOMAIN d.connected : d.connected[i] = d.connected[j] => i = j
          BY DEF TypeOK, IsInjective
        <5>2. TAKE i, j \in DOMAIN c
        <5>3. CASE i \in DOMAIN d.connected /\ j \in DOMAIN d.connected
          BY <4>1, <5>1, <5>3
        <5>4. CASE i \in DOMAIN d.connected /\ j = Len(d.connected) + 1
          BY <4>1, <4>2, <5>4
        <5>5. CASE i = Len(d.connected) + 1 /\ j \in DOMAIN d.connected
          BY <4>1, <4>2, <5>5
        <5>6. CASE i = Len(d.connected) + 1 /\ j = Len(d.connected) + 1
          BY <5>6
        <5> QED  BY <4>1, <5>3, <5>4, <5>5, <5>6
      <4> QED  BY <4>1, <4>3 DEF IsInjective
    <3>3. r \in [DBusSignal -> Nat]
      BY <3>1 DEF Relay
    <3>4. d' = [d EXCEPT !.connected = c, !.relays = r]
      BY <1>3, <2>3 DEF Connect, connectNotify
    <3> HIDE DEF c, r
    <3>5. d' \in Private /\ d'.connected = c
      BY <3>1, <3>2, <3>3, <3>4 DEF Private
    <3>6. wire' \in Seq(Sent)
      <4>1. Watch(Relayed(s)) \in Sent /\ wire \in Seq(Sent)
        BY MessagesTyped DEF Sent, TypeOK
      <4>2. wire' = wire \/ wire' = Append(wire, Watch(Relayed(s)))
        BY <1>3, <2>3 DEF Connect, connectNotify
      <4> QED  BY <4>1, <4>2
    <3> QED  BY <1>3, <2>1, <3>2, <3>5, <3>6 DEF Connect, TypeOK, Sent
  <2> QED  BY <2>2, <2>3
<1>4. ASSUME NEW l \in HintLists, SetTransactionHints(l)  PROVE TypeOK'
  <2>1. l \in HintList
    BY DEF HintList
  <2>2. app' \in [slots: [Listened -> 0..MaxSlots], hints: HintLists \cup {{}}, hinted: 0..MaxHints]
    <3>1. app.hinted + 1 \in 0..MaxHints
      BY <1>4, SetupBoundsAssumption DEF TypeOK, SetTransactionHints
    <3> QED  BY <1>4, <3>1 DEF TypeOK, SetTransactionHints
  <2>3. d' \in Private /\ d'.connected = d.connected
    BY <1>4, <2>1 DEF TypeOK, SetTransactionHints, Private
  <2>4. wire' \in Seq(Sent)
    <3>1. SetHints(l) \in Sent /\ wire \in Seq(Sent)
      BY <2>1, MessagesTyped DEF Sent, TypeOK
    <3>2. wire' = wire \/ wire' = Append(wire, SetHints(l))
      BY <1>4 DEF SetTransactionHints
    <3> QED  BY <3>1, <3>2
  <2>5. saw' \in [early: SUBSET Listened, wanted: HintList, blind: SUBSET Property,
                  heard: [DBusSignal -> Nat]]
    BY <1>4, <2>1 DEF TypeOK, SetTransactionHints
  <2> QED  BY <1>4, <2>2, <2>3, <2>4, <2>5 DEF SetTransactionHints, TypeOK, Sent
<1>5. ASSUME NEW l \in HintLists, SetGlobalHints(l)  PROVE TypeOK'
  <2>1. l \in HintList
    BY DEF HintList
  <2>2. app' \in [slots: [Listened -> 0..MaxSlots], hints: HintLists \cup {{}}, hinted: 0..MaxHints]
    <3>1. app.hinted + 1 \in 0..MaxHints
      BY <1>5, SetupBoundsAssumption DEF TypeOK, SetGlobalHints
    <3> QED  BY <1>5, <3>1 DEF TypeOK, SetGlobalHints
  <2>3. saw' \in [early: SUBSET Listened, wanted: HintList, blind: SUBSET Property,
                  heard: [DBusSignal -> Nat]]
    BY <1>5, <2>1 DEF TypeOK, SetGlobalHints
  <2> QED  BY <1>5, <2>2, <2>3 DEF SetGlobalHints, TypeOK
<1> QED  BY <1>1, <1>2, <1>3, <1>4, <1>5 DEF Application

(* ... the event loop ...                                                  *)
LEMMA EventLoopTyped ==
  ASSUME TypeOK, EventLoop
  PROVE  TypeOK'
<1>1. queue # <<>> /\ queue \in Seq(Event)
  BY DEF EventLoop, CreateSucceeded, updateProperties, Notify, HandleResult, Handling, TypeOK
<1>2. Tail(queue) \in Seq(Event) /\ Head(queue) \in Event
  BY <1>1, HeadAndTail
<1>3. CASE CreateSucceeded
  BY <1>2, <1>3, SetupTyped DEF CreateSucceeded, TypeOK, Sent
<1>4. CASE updateProperties
  <2> DEFINE v == Head(queue).values
  <2>1. /\ DOMAIN v \subseteq Property
        /\ "Role" \in DOMAIN v => v["Role"] \in Role
        /\ "Status" \in DOMAIN v => v["Status"] \in 0..MaxStatus
    BY <1>2, <1>4, ValuesTyped DEF updateProperties, Handling
  <2>2. queue' \in Seq(Event)
    <3>1. queue' = Tail(queue) \o Posts(v)
      BY <1>4 DEF updateProperties
    <3>2. Posts(v) \in Seq(Event)
      BY PostsTyped
    <3> QED  BY <1>2, <3>1, <3>2
  <2>3. d' = [d EXCEPT !.role = IF "Role" \in DOMAIN v THEN v["Role"] ELSE @,
                       !.status = IF "Status" \in DOMAIN v THEN v["Status"] ELSE @,
                       !.known = @ \cup DOMAIN v]
    BY <1>4 DEF updateProperties
  <2>4. \E b \in SUBSET Property : saw' = [saw EXCEPT !.blind = b]
    <3> DEFINE b == saw.blind \cup
                    UNION {Blind(p, d.known \cup (Upto[p] \cap DOMAIN v)) : p \in Direct \cap DOMAIN v}
    <3>1. saw' = [saw EXCEPT !.blind = b]
      BY <1>4 DEF updateProperties
    <3>2. b \subseteq Property
      BY <2>1 DEF TypeOK, Blind
    <3> QED  BY <3>1, <3>2
  <2> HIDE DEF v
  <2>5. d' \in Private /\ d'.connected = d.connected
    BY <2>1, <2>3 DEF TypeOK, Private
  <2> QED  BY <1>4, <2>2, <2>4, <2>5 DEF updateProperties, TypeOK
<1>5. CASE Notify
  <2>1. Head(queue).property \in Property
    BY <1>2, <1>5 DEF Notify, Handling, Event
  <2> QED  BY <1>2, <1>5, <2>1 DEF Notify, TypeOK, Blind
<1>6. CASE HandleResult
  <2>1. Head(queue).signal \in DBusSignal
    BY <1>2, <1>6 DEF HandleResult, Handling, Event
  <2> DEFINE x == Head(queue).signal
  <2>2. saw' = [saw EXCEPT !.heard = [saw.heard EXCEPT ![x] = @ + d.relays[x]]]
    BY <1>6 DEF HandleResult
  <2>3. saw.heard[x] + d.relays[x] \in Nat /\ saw.heard \in [DBusSignal -> Nat]
    BY <2>1 DEF TypeOK, Private
  <2> HIDE DEF x
  <2>4. [saw.heard EXCEPT ![x] = @ + d.relays[x]] \in [DBusSignal -> Nat]
    BY <2>3
  <2> QED  BY <1>2, <1>6, <2>2, <2>4 DEF HandleResult, TypeOK
<1> QED  BY <1>3, <1>4, <1>5, <1>6 DEF EventLoop

(* ... and the bus and the daemon keep the types.                          *)
LEMMA ServiceTyped ==
  ASSUME TypeOK, Forward \/ Subscribe \/ Daemon
  PROVE  TypeOK'
<1>1. wire \in Seq(Sent) /\ inbox \in Seq(Call) /\ queue \in Seq(Event)
  BY DEF TypeOK, Sent
<1>2. ASSUME Forward  PROVE TypeOK'
  <2>1. Head(wire) \in Call /\ Tail(wire) \in Seq(Sent)
    BY <1>1, <1>2, HeadAndTail DEF Forward, Sent, Subscription
  <2> QED  BY <1>1, <1>2, <2>1 DEF Forward, TypeOK, Sent
<1>3. ASSUME Subscribe  PROVE TypeOK'
  <2>1. Head(wire) \in Subscription /\ Tail(wire) \in Seq(Sent)
    BY <1>1, <1>3, HeadAndTail DEF Subscribe, Sent, Call
  <2> DEFINE q == Head(wire).signals
  <2>2. q \in Seq(Watchable)
    BY <2>1 DEF Subscription
  <2> HIDE DEF q
  <2>3. Range(q) \subseteq Watchable
    BY <2>2 DEF Range
  <2>4. CASE Len(q) > 1
    <3>1. matched' = matched \cup {q[1]} /\ wire' = <<Watch(Tail(q))>> \o Tail(wire)
      BY <1>3, <2>4 DEF Subscribe, q
    <3>2. q[1] \in Watchable /\ Tail(q) \in Seq(Watchable)
      BY <2>2, <2>4
    <3>3. Watch(Tail(q)) \in Sent
      BY <3>2, MessagesTyped DEF Sent
    <3>4. wire' \in Seq(Sent)
      BY <2>1, <3>1, <3>3
    <3> QED  BY <1>3, <3>1, <3>2, <3>4 DEF Subscribe, TypeOK, Sent
  <2>5. CASE ~(Len(q) > 1)
    <3>1. matched' = matched \cup Range(q) /\ wire' = Tail(wire)
      BY <1>3, <2>5 DEF Subscribe, q
    <3> QED  BY <1>3, <2>1, <2>3, <3>1 DEF Subscribe, TypeOK, Sent
  <2> QED  BY <2>4, <2>5
<1>4. CASE AnswerCreate
  BY <1>1, <1>4, EventsTyped DEF AnswerCreate, TypeOK
<1>5. ASSUME NEW k, Serve(k)  PROVE Head(inbox) \in Call /\ Tail(inbox) \in Seq(Call)
  BY <1>1, <1>5, HeadAndTail DEF Serve
<1>6. CASE TakeHints
  <2>1. Head(inbox) \in Call /\ Tail(inbox) \in Seq(Call) /\ Head(inbox).kind = "SetHints"
    BY <1>5, <1>6 DEF TakeHints, Serve
  <2>2. Head(inbox).hints \in HintList
    BY <2>1 DEF Call
  <2>3. srv' \in Served
    BY <1>6, <2>2 DEF TakeHints, TypeOK, Served
  <2> QED  BY <1>6, <2>1, <2>3 DEF TakeHints, Serve, TypeOK
<1>7. CASE AnswerGetAll
  <2>1. Tail(inbox) \in Seq(Call)
    BY <1>5, <1>7 DEF AnswerGetAll
  <2>2. srv.role \in Role /\ srv.status \in 0..MaxStatus
    BY DEF TypeOK, Served
  <2>3. queue' \in Seq(Event)
    BY <1>1, <1>7, <2>2, EventsTyped DEF AnswerGetAll
  <2> QED  BY <1>7, <2>1, <2>3 DEF AnswerGetAll, Serve, TypeOK
<1>8. CASE TakeRun
  <2>1. Head(inbox) \in Call /\ Tail(inbox) \in Seq(Call) /\ Head(inbox).kind = "Run"
    BY <1>5, <1>8 DEF TakeRun, Serve
  <2>2. Head(inbox).call \in Range(DispatchTable)
    BY <2>1 DEF Call
  <2>3. PICK r \in DOMAIN DispatchTable : Head(inbox).call = DispatchTable[r]
    BY <2>2 DEF Range
  <2>4. RoleOf(Head(inbox).call.method) = r /\ r \in Role
    BY <2>3, CallsTyped, RolesTyped
  <2>5. srv' = [srv EXCEPT !.ran = Head(inbox).call, !.ranWith = srv.hints, !.role = r]
    BY <1>8, <2>4 DEF TakeRun
  <2>6. srv' \in Served
    BY <2>2, <2>4, <2>5 DEF TypeOK, Served
  <2>7. queue' \in Seq(Event)
    <3>1. queue' = queue \/ queue' = Append(queue, Properties([Role |-> r]))
      BY <1>8, <2>4 DEF TakeRun, Emit
    <3>2. Properties([Role |-> r]) \in Event
      BY <2>4, EventsTyped
    <3> QED  BY <1>1, <3>1, <3>2
  <2> QED  BY <1>8, <2>1, <2>6, <2>7 DEF TakeRun, Serve, TypeOK
<1>9. CASE ChangeStatus
  <2>1. srv.status + 1 \in 0..MaxStatus
    BY <1>9, SetupBoundsAssumption DEF ChangeStatus, TypeOK, Served
  <2>2. srv' \in Served
    BY <1>9, <2>1 DEF ChangeStatus, TypeOK, Served
  <2>3. queue' \in Seq(Event)
    <3>1. queue' = queue \/ queue' = Append(queue, Properties([Status |-> srv.status + 1]))
      BY <1>9 DEF ChangeStatus, Emit
    <3>2. Properties([Status |-> srv.status + 1]) \in Event
      BY <2>1, EventsTyped
    <3> QED  BY <1>1, <3>1, <3>2
  <2> QED  BY <1>9, <2>2, <2>3 DEF ChangeStatus, TypeOK
<1>10. ASSUME NEW x \in DBusSignal, EmitResult(x)  PROVE TypeOK'
  <2>1. srv' \in Served
    BY <1>10 DEF EmitResult, TypeOK, Served
  <2>2. queue' \in Seq(Event)
    <3>1. queue' = queue \/ queue' = Append(queue, Result(x))
      BY <1>10 DEF EmitResult, Emit
    <3>2. Result(x) \in Event
      BY EventsTyped
    <3>3. Append(queue, Result(x)) \in Seq(Event)
      BY <1>1, <3>2, Appended
    <3> QED  BY <1>1, <3>1, <3>3
  <2> QED  BY <1>10, <2>1, <2>2 DEF EmitResult, TypeOK
<1> QED  BY <1>2, <1>3, <1>4, <1>6, <1>7, <1>8, <1>9, <1>10 DEF Daemon

(* The types hold at the beginning ...                                     *)
LEMMA InitTyped == Init => TypeOK
<1> SUFFICES ASSUME Init  PROVE TypeOK
  OBVIOUS
<1>1. d \in Private /\ IsInjective(d.connected)
  <2>1. <<>> \in Seq(Listened) /\ IsInjective(<<>>)
    BY DEF IsInjective
  <2> QED  BY <2>1, RolesTyped, SetupBoundsAssumption DEF Init, Private
<1>2. srv \in Served
  BY RolesTyped, SetupBoundsAssumption DEF Init, Served, HintList
<1>3. app \in [slots: [Listened -> 0..MaxSlots], hints: HintLists \cup {{}}, hinted: 0..MaxHints]
  BY SetupBoundsAssumption DEF Init
<1>4. saw \in [early: SUBSET Listened, wanted: HintList, blind: SUBSET Property,
               heard: [DBusSignal -> Nat]]
  BY DEF Init, HintList
<1> QED  BY <1>1, <1>2, <1>3, <1>4 DEF Init, TypeOK

(* ... and in every step.                                                  *)
LEMMA TypeStep == TypeOK /\ [Next]_vars => TypeOK'
<1>1. ASSUME TypeOK, UNCHANGED vars  PROVE TypeOK'
  BY <1>1 DEF vars, TypeOK
<1> QED  BY <1>1, ApplicationTyped, EventLoopTyped, ServiceTyped DEF Next

(* Every reachable state has the types.                                    *)
THEOREM TypeCorrect == Spec => []TypeOK
  BY InitTyped, TypeStep, PTL DEF Spec

(***************************************************************************)
(* Before and after setup()                                                *)
(***************************************************************************)
(* setup() finds everything as it was at the beginning, and sends one      *)
(* burst of messages.  Only an own transaction has a method to call.       *)
LEMMA SetupStep ==
  ASSUME TypeOK, BeforeSetup, AfterSetup, Attach \/ CreateSucceeded
  PROVE  /\ d.stage # "ready" /\ hintsAtSetup = Target
         /\ d' = [d EXCEPT !.stage = "ready", !.hints = <<Target>>, !.relays = signalRelays]
         /\ wire' = setupMessages(Target) /\ inbox' = <<>> /\ matched' = {} /\ queue' = <<>>
         /\ saw' = [saw EXCEPT !.early = Range(d.connected)]
         /\ request' = request
         /\ srv'.ran = NotRun /\ srv'.emitted = {} /\ srv'.status = 0
         /\ IF request = "none" THEN d.role = "Unknown" /\ d.connected = <<>>
            ELSE srv' = srv /\ d.role = Factory[request].role
<1>1. d.stage # "ready"
  <2>1. CASE Attach
    BY <2>1 DEF Attach
  <2>2. CASE CreateSucceeded
    <3>1. Head(queue).kind = "tid" /\ Head(queue) = queue[1] /\ 1 \in DOMAIN queue
      BY <2>2, HeadAndTail DEF CreateSucceeded, Handling, TypeOK
    <3> QED  BY <3>1 DEF AfterSetup
  <2> QED  BY <2>1, <2>2
<1>2. /\ wire = <<>> /\ inbox = <<>> /\ matched = {}
      /\ queue = <<>> \/ (d.stage = "creating" /\ queue = <<Message("tid")>>)
      /\ srv.ran = NotRun /\ srv.emitted = {} /\ srv.status = 0
      /\ saw.wanted = IF d.hints # <<>> THEN d.hints[1] ELSE app.hints
      /\ d.stage = "none" => request = "none" /\ d.connected = <<>> /\ d.role = "Unknown"
      /\ d.stage = "creating" => request # "none" /\ d.role = Factory[request].role
  BY <1>1 DEF BeforeSetup
<1>3. hintsAtSetup = Target
  BY <1>2 DEF hintsAtSetup, Target
<1>4. setup(d) /\ matched' = matched /\ inbox' = inbox /\ request' = request
  BY DEF Attach, CreateSucceeded
<1>5. /\ d' = [d EXCEPT !.stage = "ready", !.hints = <<Target>>, !.relays = signalRelays]
      /\ saw' = [saw EXCEPT !.early = Range(d.connected)]
      /\ wire' = <<>> \o setupMessages(Target)
  BY <1>2, <1>3, <1>4 DEF setup
<1>6. wire' = setupMessages(Target)
  <2>1. setupMessages(Target) \in Seq(Sent)
    BY HintsTyped, Burst DEF TypeOK
  <2> QED  BY <1>5, <2>1
<1>7. CASE Attach
  <2>1. /\ d.stage = "none" /\ queue' = queue
        /\ srv' = [srv EXCEPT !.role = "InstallPackages"]
    BY <1>7 DEF Attach
  <2>2. srv'.ran = NotRun /\ srv'.emitted = {} /\ srv'.status = 0
    BY <1>2, <2>1 DEF TypeOK, Served
  <2> QED  BY <1>1, <1>2, <1>3, <1>4, <1>5, <1>6, <2>1, <2>2
<1>8. CASE CreateSucceeded
  <2>1. queue # <<>> /\ queue' = Tail(queue) /\ srv' = srv
    BY <1>8 DEF CreateSucceeded, Handling
  <2>2. \A e : Tail(<<e>>) = <<>>
    OBVIOUS
  <2>3. d.stage = "creating" /\ queue' = <<>>
    BY <1>2, <2>1, <2>2
  <2> QED  BY <1>1, <1>2, <1>3, <1>4, <1>5, <1>6, <2>1, <2>3
<1> QED  BY <1>7, <1>8

(* Nothing but setup() gives the object its proxy, and nothing takes it.   *)
LEMMA StageKept ==
  ASSUME TypeOK, [Next]_vars, ~(Attach \/ CreateSucceeded)
  PROVE  d'.stage = d.stage \/ \E f \in Requests : Create(f) /\ d'.stage = "creating"
<1>1. ASSUME NEW f \in Requests, Create(f)  PROVE d'.stage = "creating"
  BY <1>1 DEF Create, TypeOK, Private
<1>2. ASSUME NEW s \in Listened, Connect(s)  PROVE d.stage = d'.stage
  BY <1>2 DEF Connect, connectNotify, TypeOK, Private
<1>3. ASSUME NEW l \in HintLists, SetTransactionHints(l)  PROVE d.stage = d'.stage
  BY <1>3 DEF SetTransactionHints, TypeOK, Private
<1>4. ASSUME updateProperties  PROVE d.stage = d'.stage
  BY <1>4 DEF updateProperties, TypeOK, Private
<1>5. \/ UNCHANGED d \/ updateProperties
      \/ (\E f \in Requests : Create(f))
      \/ (\E s \in Listened : Connect(s))
      \/ (\E l \in HintLists : SetTransactionHints(l))
  BY DEF vars, Next, Application, EventLoop, Daemon, SetGlobalHints, Notify, HandleResult,
     Forward, Subscribe, AnswerCreate, TakeHints, AnswerGetAll, TakeRun, Serve, ChangeStatus,
     EmitResult
<1> QED  BY <1>1, <1>2, <1>3, <1>4, <1>5

(* The request of an attached transaction is no factory method.            *)
LEMMA NoneIsNoFactory == "none" \notin DOMAIN Factory
  BY DEF Factory, FactoryQueries, FactoryChanges, FactorySearches, Sets

(* Nothing can happen to an object without a proxy but what the            *)
(* application does, and the answer of the daemon.                         *)
LEMMA BeforeStep ==
  ASSUME TypeOK, BeforeSetup, AfterSetup, [Next]_vars
  PROVE  BeforeSetup'
<1>1. CASE Attach \/ CreateSucceeded
  <2>1. d'.stage = "ready"
    BY <1>1, SetupStep DEF TypeOK, Private
  <2> QED  BY <2>1 DEF BeforeSetup
<1> SUFFICES ASSUME ~(Attach \/ CreateSucceeded), d'.stage # "ready"
             PROVE  BeforeSetup'
  BY <1>1 DEF BeforeSetup
<1>2. d.stage # "ready"
  BY StageKept DEF Create
<1>3. /\ wire = <<>> /\ inbox = <<>> /\ matched = {}
      /\ queue = <<>> \/ (d.stage = "creating" /\ queue = <<Message("tid")>>)
      /\ srv.role = "Unknown" /\ srv.status = 0 /\ srv.ran = NotRun /\ srv.emitted = {}
      /\ d.status = 0 /\ d.known = {} /\ d.relays = [x \in DBusSignal |-> 0]
      /\ saw.early = {} /\ saw.blind = {} /\ saw.heard = [x \in DBusSignal |-> 0]
      /\ saw.wanted = IF d.hints # <<>> THEN d.hints[1] ELSE app.hints
      /\ d.stage = "none" => request = "none" /\ d.connected = <<>> /\ d.role = "Unknown"
      /\ d.stage = "creating" => request # "none" /\ d.role = Factory[request].role
  BY <1>2 DEF BeforeSetup
<1>4. ASSUME NEW f \in Requests, Create(f)  PROVE BeforeSetup'
  <2>1. f # "none" /\ Factory[f].role \in Role /\ Factory[f].sets \in SUBSET Field
    BY RequestsAssumption, NoneIsNoFactory, FactoryTyped, RolesTyped
  <2>2. d' = [d EXCEPT !.stage = "creating", !.role = Factory[f].role, !.given = Factory[f].sets]
    BY <1>4 DEF Create
  <2>3. /\ d'.stage = "creating" /\ d'.role = Factory[f].role /\ d'.status = d.status
        /\ d'.known = d.known /\ d'.relays = d.relays /\ d'.hints = d.hints
        /\ d'.connected = d.connected
    BY <2>2 DEF TypeOK, Private
  <2>4. d.stage = "none" /\ request' = f /\ UNCHANGED <<app, wire, matched, inbox, srv, queue, saw>>
    BY <1>4 DEF Create
  <2> QED  BY <1>3, <2>1, <2>3, <2>4 DEF BeforeSetup
<1>5. ASSUME NEW s \in Listened, Connect(s)  PROVE BeforeSetup'
  <2>1. /\ d'.stage = d.stage /\ d'.role = d.role /\ d'.status = d.status
        /\ d'.known = d.known /\ d'.relays = d.relays /\ d'.hints = d.hints
    BY <1>2, <1>5 DEF Connect, connectNotify, TypeOK, Private
  <2>2. d.stage # "none" /\ wire' = wire /\ app'.hints = app.hints
    BY <1>2, <1>5 DEF Connect, connectNotify, TypeOK
  <2>3. UNCHANGED <<request, matched, inbox, srv, queue, saw>>
    BY <1>5 DEF Connect
  <2> QED  BY <1>3, <2>1, <2>2, <2>3 DEF BeforeSetup
<1>6. ASSUME NEW l \in HintLists, SetTransactionHints(l)  PROVE BeforeSetup'
  <2>1. /\ d'.stage = d.stage /\ d'.role = d.role /\ d'.status = d.status
        /\ d'.known = d.known /\ d'.relays = d.relays /\ d'.hints = <<l>>
        /\ d'.connected = d.connected
    BY <1>6 DEF SetTransactionHints, TypeOK, Private
  <2>2. /\ saw'.early = saw.early /\ saw'.blind = saw.blind /\ saw'.heard = saw.heard
        /\ saw'.wanted = l /\ wire' = wire
    BY <1>2, <1>6 DEF SetTransactionHints, TypeOK
  <2>3. UNCHANGED <<request, matched, inbox, srv, queue>> /\ <<l>> # <<>> /\ <<l>>[1] = l
    BY <1>6 DEF SetTransactionHints
  <2> QED  BY <1>3, <2>1, <2>2, <2>3 DEF BeforeSetup
<1>7. ASSUME NEW l \in HintLists, SetGlobalHints(l)  PROVE BeforeSetup'
  <2>1. /\ app'.hints = l
        /\ saw'.early = saw.early /\ saw'.blind = saw.blind /\ saw'.heard = saw.heard
        /\ saw'.wanted = IF d.hints # <<>> THEN saw.wanted ELSE l
    BY <1>2, <1>7 DEF SetGlobalHints, TypeOK
  <2>2. UNCHANGED <<request, d, wire, matched, inbox, srv, queue>>
    BY <1>7 DEF SetGlobalHints
  <2> QED  BY <1>3, <2>1, <2>2 DEF BeforeSetup
<1>8. CASE updateProperties \/ Notify \/ HandleResult
  <2>1. queue # <<>> /\ Head(queue).kind # "tid"
    BY <1>8 DEF updateProperties, Notify, HandleResult, Handling
  <2>2. Head(<<Message("tid")>>).kind = "tid"
    BY DEF Message
  <2> QED  BY <1>3, <2>1, <2>2
<1>9. CASE Forward \/ Subscribe \/ TakeHints \/ AnswerGetAll \/ TakeRun \/ ChangeStatus
             \/ \E x \in DBusSignal : EmitResult(x)
  BY <1>3, <1>9 DEF Forward, Subscribe, TakeHints, AnswerGetAll, TakeRun, Serve, ChangeStatus,
     EmitResult, Running
<1>10. CASE AnswerCreate
  <2>1. /\ d.stage = "creating" /\ queue' = Append(<<>>, Message("tid"))
        /\ UNCHANGED <<request, d, app, wire, matched, inbox, srv, saw>>
    BY <1>10 DEF AnswerCreate
  <2>2. queue' = <<Message("tid")>>
    BY <2>1
  <2> QED  BY <1>3, <2>1, <2>2 DEF BeforeSetup
<1>11. CASE UNCHANGED vars
  BY <1>11 DEF BeforeSetup, vars
<1> QED  BY <1>4, <1>5, <1>6, <1>7, <1>8, <1>9, <1>10, <1>11
         DEF Next, Application, EventLoop, Daemon

(* The queue after an event has been handled, with what the handler has    *)
(* posted.                                                                 *)
LEMMA Handled ==
  ASSUME NEW q \in Seq(Event), q # <<>>, NEW p \in Seq(Event)
  PROVE  LET n == Len(q) - 1
             r == Tail(q) \o p
         IN  /\ r \in Seq(Event) /\ n \in Nat /\ Len(p) \in Nat
             /\ DOMAIN q = 1..(n + 1) /\ Head(q) = q[1] /\ DOMAIN p = 1..Len(p)
             /\ DOMAIN r = 1..(n + Len(p))
             /\ \A i \in 1..n : r[i] = q[i + 1]
             /\ \A i \in DOMAIN r : i > n => i - n \in DOMAIN p /\ r[i] = p[i - n]
<1> DEFINE t == Tail(q)
<1>1. /\ t \in Seq(Event) /\ Len(q) \in Nat /\ Len(q) >= 1 /\ Len(t) = Len(q) - 1
      /\ DOMAIN q = 1..Len(q) /\ DOMAIN t = 1..(Len(q) - 1) /\ Head(q) = q[1]
      /\ \A i \in DOMAIN t : t[i] = q[i + 1]
  BY HeadAndTail
<1> HIDE DEF t
<1>2. /\ t \o p \in Seq(Event) /\ Len(p) \in Nat /\ DOMAIN p = 1..Len(p)
      /\ DOMAIN (t \o p) = 1..(Len(t) + Len(p))
      /\ \A i \in 1..Len(t) : (t \o p)[i] = t[i]
      /\ \A i \in DOMAIN (t \o p) : i > Len(t) => i - Len(t) \in DOMAIN p /\ (t \o p)[i] = p[i - Len(t)]
  BY <1>1
<1> DEFINE r == t \o p
<1> HIDE DEF r
<1>3. /\ r \in Seq(Event) /\ DOMAIN r = 1..((Len(q) - 1) + Len(p))
      /\ \A i \in 1..(Len(q) - 1) : r[i] = q[i + 1]
      /\ \A i \in DOMAIN r : i > Len(q) - 1 => i - (Len(q) - 1) \in DOMAIN p /\ r[i] = p[i - (Len(q) - 1)]
  BY <1>1, <1>2 DEF r
<1> QED  BY <1>1, <1>2, <1>3 DEF r, t

(* The queue changes in one of four ways: setup() leaves it empty, nothing *)
(* happens, the oldest event is handled, and what it posts are             *)
(* notifications, or one event is added.                                   *)
LEMMA QueueMoves ==
  ASSUME TypeOK, [Next]_vars, ~(Attach \/ CreateSucceeded)
  PROVE  \/ queue' = queue
         \/ queue # <<>> /\ queue' = Tail(queue) /\ (Notify \/ HandleResult)
         \/ queue # <<>> /\ queue' = Tail(queue) \o Posts(Head(queue).values) /\ updateProperties
         \/ \E e \in Event : queue' = Append(queue, e) /\ (e.kind = "tid" => d.stage # "ready")
<1>1. ASSUME Notify \/ HandleResult  PROVE queue # <<>> /\ queue' = Tail(queue)
  BY <1>1 DEF Notify, HandleResult, Handling
<1>2. ASSUME updateProperties
      PROVE  queue # <<>> /\ queue' = Tail(queue) \o Posts(Head(queue).values)
  BY <1>2 DEF updateProperties, Handling
<1> DEFINE Added == \E e \in Event : queue' = Append(queue, e) /\ (e.kind = "tid" => d.stage # "ready")
<1>3. ASSUME AnswerCreate  PROVE Added
  BY <1>3, EventsTyped DEF AnswerCreate
<1>4. ASSUME AnswerGetAll  PROVE Added
  <2>1. srv.role \in Role /\ srv.status \in 0..MaxStatus
    BY DEF TypeOK, Served
  <2> QED  BY <1>4, <2>1, EventsTyped DEF AnswerGetAll, Properties
<1>5. ASSUME TakeRun  PROVE Added \/ queue' = queue
  <2>1. Head(inbox) \in Call /\ Head(inbox).kind = "Run"
    BY <1>5, HeadAndTail DEF TakeRun, Serve, TypeOK
  <2>2. RoleOf(Head(inbox).call.method) \in Role
    BY <2>1, CallsTyped, RolesTyped DEF Call, Range
  <2> QED  BY <1>5, <2>2, EventsTyped DEF TakeRun, Emit, Properties
<1>6. ASSUME ChangeStatus  PROVE Added \/ queue' = queue
  <2>1. srv.status + 1 \in 0..MaxStatus
    BY <1>6, SetupBoundsAssumption DEF ChangeStatus, TypeOK, Served
  <2> QED  BY <1>6, <2>1, EventsTyped DEF ChangeStatus, Emit, Properties
<1>7. ASSUME NEW x \in DBusSignal, EmitResult(x)  PROVE Added \/ queue' = queue
  BY <1>7, EventsTyped DEF EmitResult, Emit, Result
<1>8. \/ queue' = queue \/ Notify \/ HandleResult \/ updateProperties \/ AnswerCreate
      \/ AnswerGetAll \/ TakeRun \/ ChangeStatus \/ (\E x \in DBusSignal : EmitResult(x))
  BY DEF vars, Next, Application, Create, Connect, SetTransactionHints, SetGlobalHints, EventLoop,
     Daemon, Forward, Subscribe, TakeHints
<1> QED  BY <1>1, <1>2, <1>3, <1>4, <1>5, <1>6, <1>7, <1>8

(* After setup() no second tid comes.                                      *)
LEMMA AfterStep ==
  ASSUME TypeOK, BeforeSetup, AfterSetup, [Next]_vars
  PROVE  AfterSetup'
<1> SUFFICES ASSUME d'.stage = "ready"  PROVE \A i \in DOMAIN queue' : queue'[i].kind # "tid"
  BY DEF AfterSetup
<1>1. CASE Attach \/ CreateSucceeded
  <2>1. queue' = <<>>
    BY <1>1, SetupStep
  <2> QED  BY <2>1
<1>2. CASE ~(Attach \/ CreateSucceeded)
  <2>1. d.stage = "ready" /\ queue \in Seq(Event) /\ \A i \in DOMAIN queue : queue[i].kind # "tid"
    BY <1>2, StageKept DEF AfterSetup, TypeOK
  <2>2. CASE queue' = queue
    BY <2>1, <2>2
  <2>3. CASE queue # <<>> /\ queue' = Tail(queue)
    BY <2>1, <2>3, HeadAndTail
  <2>4. CASE queue # <<>> /\ queue' = Tail(queue) \o Posts(Head(queue).values)
    <3> DEFINE p == Posts(Head(queue).values)
               n == Len(queue) - 1
    <3>1. p \in Seq(Event) /\ \A i \in DOMAIN p : p[i].kind = "notify"
      BY PostsTyped
    <3>2. /\ n \in Nat /\ DOMAIN queue = 1..(n + 1) /\ DOMAIN queue' = 1..(n + Len(p))
          /\ \A i \in 1..n : queue'[i] = queue[i + 1]
          /\ \A i \in DOMAIN queue' : i > n => i - n \in DOMAIN p /\ queue'[i] = p[i - n]
      BY <2>1, <2>4, <3>1, Handled
    <3> HIDE DEF p, n
    <3> TAKE i \in DOMAIN queue'
    <3>3. CASE i > n
      BY <3>1, <3>2, <3>3
    <3>4. CASE ~(i > n)
      <4>1. i \in 1..n /\ i + 1 \in DOMAIN queue
        BY <3>2, <3>4
      <4> QED  BY <2>1, <3>2, <4>1
    <3> QED  BY <3>3, <3>4
  <2>5. ASSUME NEW e \in Event, queue' = Append(queue, e), e.kind = "tid" => d.stage # "ready"
        PROVE  \A i \in DOMAIN queue' : queue'[i].kind # "tid"
    BY <2>1, <2>5, Appended
  <2> QED  BY <1>2, <2>2, <2>3, <2>4, <2>5, QueueMoves
<1> QED  BY <1>1, <1>2

(***************************************************************************)
(* The method call and the hints                                           *)
(***************************************************************************)
(* Where the method call is in the burst.                                  *)
LEMMA BurstCall ==
  ASSUME TypeOK, NEW l \in HintList, NEW j \in DOMAIN setupMessages(l),
         setupMessages(l)[j].kind = "Run"
  PROVE  /\ d.role \in DOMAIN DispatchTable
         /\ j = 5 + Len(d.connected) /\ setupMessages(l)[j] = Run(DispatchTable[d.role])
<1> DEFINE b == setupMessages(l)
           n == Len(d.connected)
<1>1. /\ n \in Nat
      /\ DOMAIN b = 1..(4 + n + IF d.role \in DOMAIN DispatchTable THEN 1 ELSE 0)
      /\ b[1] = SetHints(l) /\ b[2] = Watch(<<"Destroy">>)
      /\ b[3] = Message("GetAll") /\ b[4] = Watch(<<"PropertiesChanged">>)
      /\ \A i \in 1..n : b[4 + i] = Watch(Relayed(d.connected[i]))
      /\ d.role \in DOMAIN DispatchTable => b[5 + n] = Run(DispatchTable[d.role])
  BY Burst DEF TypeOK
<1>2. b[j].kind = "Run" /\ j \in DOMAIN b
  OBVIOUS
<1> HIDE DEF b, n
<1>3. j # 1 /\ j # 2 /\ j # 3 /\ j # 4
  BY <1>1, <1>2 DEF SetHints, Watch, Message
<1>4. ASSUME NEW i \in 1..n  PROVE j # 4 + i
  <2>1. b[4 + i] = Watch(Relayed(d.connected[i]))
    BY <1>1
  <2>2. b[4 + i].kind = "AddMatch"
    BY <2>1 DEF Watch
  <2> QED  BY <1>2, <2>2
<1>5. ~(j <= 4 + n)
  <2> SUFFICES ASSUME j <= 4 + n  PROVE FALSE
    OBVIOUS
  <2>1. j - 4 \in 1..n /\ j = 4 + (j - 4)
    BY <1>1, <1>2, <1>3
  <2> QED  BY <1>4, <2>1
<1>6. d.role \in DOMAIN DispatchTable /\ j = 5 + n
  BY <1>1, <1>2, <1>5
<1>7. b[j] = Run(DispatchTable[d.role])
  BY <1>1, <1>6
<1> QED  BY <1>6, <1>7 DEF b, n

(* After setup() the request and the hints asked for are fixed.            *)
LEMMA ReadyStep ==
  ASSUME TypeOK, BeforeSetup, AfterSetup, [Next]_vars, ~(Attach \/ CreateSucceeded),
         d.stage = "ready"
  PROVE  /\ d'.stage = "ready" /\ request' = request
         /\ saw'.wanted = saw.wanted /\ saw'.early = saw.early
<1>1. ~(\E f \in Requests : Create(f))
  BY DEF Create
<1>2. d'.stage = "ready"
  BY <1>1, StageKept
<1>3. request' = request
  BY <1>1 DEF vars, Next, Application, Connect, SetTransactionHints, SetGlobalHints, EventLoop,
     updateProperties, Notify, HandleResult, Daemon, Forward, Subscribe, AnswerCreate, TakeHints,
     AnswerGetAll, TakeRun, Serve, ChangeStatus, EmitResult
<1>4. saw'.wanted = saw.wanted /\ saw'.early = saw.early
  <2>1. CASE updateProperties \/ Notify \/ HandleResult
    BY <2>1 DEF updateProperties, Notify, HandleResult, TypeOK
  <2>2. CASE ~(updateProperties \/ Notify \/ HandleResult)
    <3>1. saw' = saw
      BY <1>1, <2>2 DEF vars, Next, Application, Connect, SetTransactionHints, SetGlobalHints,
         EventLoop, Daemon, Forward, Subscribe, AnswerCreate, TakeHints, AnswerGetAll, TakeRun,
         Serve, ChangeStatus, EmitResult
    <3> QED  BY <3>1
  <2> QED  BY <2>1, <2>2
<1> QED  BY <1>2, <1>3, <1>4

(* What becomes of the messages.                                           *)
LEMMA WireMoves ==
  ASSUME TypeOK, [Next]_vars, ~(Attach \/ CreateSucceeded)
  PROVE  \/ /\ UNCHANGED <<wire, inbox, matched>>
            /\ srv'.ran = srv.ran /\ srv'.ranWith = srv.ranWith /\ srv'.hints = srv.hints
            /\ srv'.role = srv.role
         \/ /\ UNCHANGED <<inbox, matched, srv, queue>> /\ d'.known = d.known
            /\ \E m \in Sent : m.kind # "Run" /\ wire' = Append(wire, m)
         \/ Forward \/ Subscribe \/ TakeHints \/ AnswerGetAll \/ TakeRun
<1> DEFINE Same == /\ UNCHANGED <<wire, inbox, matched>>
                   /\ srv'.ran = srv.ran /\ srv'.ranWith = srv.ranWith /\ srv'.hints = srv.hints
                   /\ srv'.role = srv.role
           More == /\ UNCHANGED <<inbox, matched, srv, queue>> /\ d'.known = d.known
                   /\ \E m \in Sent : m.kind # "Run" /\ wire' = Append(wire, m)
<1>1. ASSUME NEW s \in Listened, Connect(s)  PROVE Same \/ More
  <2>1. Watch(Relayed(s)) \in Sent /\ Watch(Relayed(s)).kind # "Run"
    BY MessagesTyped DEF Sent, Watch
  <2>2. wire' = wire \/ wire' = Append(wire, Watch(Relayed(s)))
    BY <1>1 DEF Connect, connectNotify
  <2>3. d'.known = d.known
    BY <1>1 DEF Connect, connectNotify, TypeOK, Private
  <2> QED  BY <1>1, <2>1, <2>2, <2>3 DEF Connect
<1>2. ASSUME NEW l \in HintLists, SetTransactionHints(l)  PROVE Same \/ More
  <2>1. l \in HintList
    BY DEF HintList
  <2>2. SetHints(l) \in Sent /\ SetHints(l).kind # "Run"
    BY <2>1, MessagesTyped DEF Sent, SetHints
  <2>3. d'.known = d.known
    BY <1>2 DEF SetTransactionHints, TypeOK, Private
  <2> QED  BY <1>2, <2>2, <2>3 DEF SetTransactionHints
<1>3. ASSUME ChangeStatus  PROVE Same
  BY <1>3 DEF ChangeStatus, TypeOK, Served
<1>4. ASSUME NEW x \in DBusSignal, EmitResult(x)  PROVE Same
  BY <1>4 DEF EmitResult, TypeOK, Served
<1>5. ASSUME \/ UNCHANGED vars \/ (\E f \in Requests : Create(f))
             \/ (\E l \in HintLists : SetGlobalHints(l))
             \/ updateProperties \/ Notify \/ HandleResult \/ AnswerCreate
      PROVE  Same
  BY <1>5 DEF vars, Create, SetGlobalHints, updateProperties, Notify, HandleResult, AnswerCreate
<1> QED  BY <1>1, <1>2, <1>3, <1>4, <1>5 DEF Next, Application, EventLoop, Daemon

(* The bus forwards a call.                                                *)
LEMMA ForwardStep ==
  ASSUME TypeOK, Forward
  PROVE  /\ wire # <<>> /\ Head(wire) \in Call /\ Head(wire) \in Sent
         /\ inbox' = Append(inbox, Head(wire)) /\ wire' = Tail(wire)
         /\ UNCHANGED <<matched, srv, queue, d, request, saw>>
  BY HeadAndTail DEF TypeOK, Forward, Sent, Subscription

(* The bus takes one signal of a subscription, or the last one.            *)
LEMMA SubscribeStep ==
  ASSUME TypeOK, Subscribe
  PROVE  /\ wire # <<>> /\ Head(wire) \in Subscription /\ inbox' = inbox
         /\ UNCHANGED <<srv, queue, d, request, saw>>
         /\ LET q == Head(wire).signals IN
              \/ /\ matched' = matched \cup {q[1]} /\ q \in Seq(Watchable) /\ Len(q) > 1
                 /\ Watch(Tail(q)) \in Subscription /\ wire' = <<Watch(Tail(q))>> \o Tail(wire)
              \/ /\ matched' = matched \cup Range(q) /\ wire' = Tail(wire)
<1>1. wire # <<>> /\ Head(wire) \in Subscription
  <2>1. wire \in Seq(Sent)
    BY DEF TypeOK, Sent
  <2> QED  BY <2>1, HeadAndTail DEF Subscribe, Sent, Call
<1> DEFINE q == Head(wire).signals
<1>2. q \in Seq(Watchable)
  BY <1>1 DEF Subscription
<1> HIDE DEF q
<1>3. ASSUME Len(q) > 1  PROVE Watch(Tail(q)) \in Subscription
  <2>1. Tail(q) \in Seq(Watchable)
    BY <1>2, <1>3
  <2> QED  BY <2>1, MessagesTyped
<1> QED  BY <1>1, <1>2, <1>3 DEF Subscribe, q

(* The method is called once, as the request wants it.                     *)
LEMMA CallStep ==
  ASSUME TypeOK, BeforeSetup, AfterSetup, CallInv, [Next]_vars
  PROVE  CallInv'
<1>1. CASE d'.stage # "ready"
  <2>1. BeforeSetup'
    BY BeforeStep
  <2>2. /\ wire' = <<>> /\ inbox' = <<>> /\ srv'.ran = NotRun /\ srv'.role = "Unknown"
    BY <1>1, <2>1 DEF BeforeSetup
  <2> QED  BY <1>1, <2>2 DEF CallInv
<1>2. CASE Attach \/ CreateSucceeded
  <2> DEFINE b == setupMessages(Target)
             n == Len(d.connected)
  <2>1. /\ wire' = b /\ inbox' = <<>> /\ request' = request /\ srv'.ran = NotRun
        /\ IF request = "none" THEN d.role = "Unknown" /\ d.connected = <<>>
           ELSE srv' = srv /\ d.role = Factory[request].role
    BY <1>2, SetupStep
  <2>2. Target \in HintList /\ request \in Requests \cup {"none"}
    BY HintsTyped DEF TypeOK
  <2>3. /\ n \in Nat /\ DOMAIN b = 1..(4 + n + IF d.role \in DOMAIN DispatchTable THEN 1 ELSE 0)
        /\ d.role \in DOMAIN DispatchTable => b[5 + n] = Run(DispatchTable[d.role])
    BY <2>2, Burst DEF TypeOK
  <2>4. \A j \in DOMAIN b : b[j].kind = "Run" =>
          d.role \in DOMAIN DispatchTable /\ b[j] = Run(DispatchTable[d.role])
    BY <2>2, BurstCall
  <2> HIDE DEF b, n
  <2>5. request # "none" => d.role = Factory[request].role /\ d.role \in DOMAIN DispatchTable
    BY <2>1, <2>2, FactoryTyped, RequestsAssumption
  <2>6. \A j \in DOMAIN b : b[j].kind = "Run" => request # "none" /\ b[j] = Run(Asked)
    BY <2>1, <2>4, <2>5, RolesTyped DEF Asked
  <2>7. ASSUME request # "none"
        PROVE  /\ srv'.role = "Unknown"
               /\ 5 + n \in DOMAIN b /\ b[5 + n].kind = "Run"
    <3>1. srv.role = "Unknown"
      BY <1>2, SetupStep DEF BeforeSetup
    <3>2. 5 + n \in DOMAIN b
      BY <2>3, <2>5, <2>7
    <3> QED  BY <2>1, <2>3, <2>5, <2>7, <3>1, <3>2 DEF Run
  <2> QED  BY <2>1, <2>6, <2>7 DEF CallInv, Asked
<1>3. CASE d'.stage = "ready" /\ ~(Attach \/ CreateSucceeded)
  <2>1. d.stage = "ready" /\ request' = request /\ Asked' = Asked
    <3>1. d.stage = "ready"
      BY <1>3, StageKept
    <3> QED  BY <1>3, <3>1, ReadyStep DEF Asked
  <2>2. wire \in Seq(Sent) /\ inbox \in Seq(Call) /\ request \in Requests \cup {"none"}
    BY DEF TypeOK, Sent
  <2>3. CASE /\ UNCHANGED <<wire, inbox, matched>>
             /\ srv'.ran = srv.ran /\ srv'.role = srv.role
    BY <1>3, <2>1, <2>3 DEF CallInv
  <2>4. ASSUME UNCHANGED <<inbox, srv>>, NEW m \in Sent, m.kind # "Run", wire' = Append(wire, m)
        PROVE  CallInv'
    <3>1. /\ \A j \in DOMAIN wire' : wire'[j].kind = "Run" => j \in DOMAIN wire /\ wire'[j] = wire[j]
          /\ \A j \in DOMAIN wire : j \in DOMAIN wire' /\ wire'[j] = wire[j]
      BY <2>2, <2>4, Appended
    <3> QED  BY <2>1, <2>4, <3>1 DEF CallInv
  <2>5. CASE Forward
    <3>1. /\ wire # <<>> /\ inbox' = Append(inbox, Head(wire)) /\ wire' = Tail(wire) /\ srv' = srv
          /\ Head(wire) \in Call
      BY <2>5, ForwardStep
    <3>2. /\ 1 \in DOMAIN wire /\ Head(wire) = wire[1] /\ DOMAIN wire' = 1..(Len(wire) - 1)
          /\ \A j \in DOMAIN wire' : j + 1 \in DOMAIN wire /\ wire'[j] = wire[j + 1]
          /\ DOMAIN wire = 1..Len(wire) /\ Len(wire) \in Nat
      BY <2>2, <3>1, HeadAndTail
    <3>3. /\ DOMAIN inbox = 1..Len(inbox) /\ Len(inbox) \in Nat
          /\ DOMAIN inbox' = 1..(Len(inbox) + 1) /\ inbox'[Len(inbox) + 1] = wire[1]
          /\ \A j \in DOMAIN inbox : j \in DOMAIN inbox' /\ inbox'[j] = inbox[j]
      BY <2>2, <3>1, <3>2, Appended
    <3>4. \A j \in DOMAIN wire' : wire'[j].kind = "Run" => request # "none" /\ wire'[j] = Run(Asked)
      BY <3>2 DEF CallInv
    <3>5. \A j \in DOMAIN inbox' : inbox'[j].kind = "Run" => request # "none" /\ inbox'[j] = Run(Asked)
      <4> TAKE j \in DOMAIN inbox'
      <4>1. CASE j \in DOMAIN inbox
        BY <3>3, <4>1 DEF CallInv
      <4>2. CASE j = Len(inbox) + 1
        BY <3>2, <3>3, <4>2 DEF CallInv
      <4> QED  BY <3>3, <4>1, <4>2
    <3>6. ASSUME NEW j \in DOMAIN wire, wire[j].kind = "Run"
          PROVE  \/ \E i \in DOMAIN inbox' : inbox'[i].kind = "Run"
                 \/ \E i \in DOMAIN wire' : wire'[i].kind = "Run"
      <4>1. CASE j = 1
        <5>1. Len(inbox) + 1 \in DOMAIN inbox'
          BY <3>3
        <5> QED  BY <3>3, <3>6, <4>1, <5>1
      <4>2. CASE j # 1
        <5>1. j - 1 \in DOMAIN wire' /\ wire'[j - 1] = wire[j]
          BY <3>2, <3>6, <4>2
        <5> QED  BY <3>6, <5>1
      <4> QED  BY <4>1, <4>2
    <3> QED  BY <2>1, <3>1, <3>3, <3>4, <3>5, <3>6 DEF CallInv
  <2>6. CASE Subscribe
    <3>1. /\ wire # <<>> /\ Head(wire) \in Subscription /\ inbox' = inbox /\ srv' = srv
          /\ \/ \E m \in Subscription : wire' = <<m>> \o Tail(wire)
             \/ wire' = Tail(wire)
      BY <2>6, SubscribeStep
    <3>2. Head(wire) = wire[1] /\ wire[1].kind # "Run"
      BY <2>2, <3>1, HeadAndTail DEF Subscription
    <3>3. CASE wire' = Tail(wire)
      <4>1. /\ \A j \in DOMAIN wire' : j + 1 \in DOMAIN wire /\ wire'[j] = wire[j + 1]
            /\ \A j \in DOMAIN wire : j # 1 => j - 1 \in DOMAIN wire' /\ wire'[j - 1] = wire[j]
        BY <2>2, <3>1, <3>3, HeadAndTail
      <4>2. \A j \in DOMAIN wire' : wire'[j].kind = "Run" => request # "none" /\ wire'[j] = Run(Asked)
        BY <4>1 DEF CallInv
      <4>3. (\E j \in DOMAIN wire : wire[j].kind = "Run") => \E j \in DOMAIN wire' : wire'[j].kind = "Run"
        BY <3>2, <4>1
      <4> QED  BY <2>1, <3>1, <4>2, <4>3 DEF CallInv
    <3>4. ASSUME NEW m \in Subscription, wire' = <<m>> \o Tail(wire)
          PROVE  CallInv'
      <4>1. m.kind # "Run" /\ m \in Sent
        BY DEF Subscription, Sent
      <4>2. /\ DOMAIN wire' = DOMAIN wire /\ wire'[1] = m
            /\ \A j \in DOMAIN wire : j # 1 => wire'[j] = wire[j]
        BY <2>2, <3>1, <3>4, <4>1, Replaced
      <4>3. \A j \in DOMAIN wire' : wire'[j].kind = "Run" => request # "none" /\ wire'[j] = Run(Asked)
        BY <4>1, <4>2 DEF CallInv
      <4>4. (\E j \in DOMAIN wire : wire[j].kind = "Run") => \E j \in DOMAIN wire' : wire'[j].kind = "Run"
        BY <3>2, <4>2
      <4> QED  BY <2>1, <3>1, <4>3, <4>4 DEF CallInv
    <3> QED  BY <3>1, <3>3, <3>4
  <2>7. CASE TakeHints \/ AnswerGetAll \/ TakeRun
    <3>1. inbox # <<>> /\ inbox' = Tail(inbox) /\ wire' = wire
      BY <2>7 DEF TakeHints, AnswerGetAll, TakeRun, Serve
    <3>2. /\ Head(inbox) = inbox[1] /\ 1 \in DOMAIN inbox
          /\ \A j \in DOMAIN inbox' : j + 1 \in DOMAIN inbox /\ inbox'[j] = inbox[j + 1]
          /\ \A j \in DOMAIN inbox : j # 1 => j - 1 \in DOMAIN inbox' /\ inbox'[j - 1] = inbox[j]
      BY <2>2, <3>1, HeadAndTail
    <3>3. \A j \in DOMAIN inbox' : inbox'[j].kind = "Run" => request # "none" /\ inbox'[j] = Run(Asked)
      BY <3>2 DEF CallInv
    <3>4. CASE TakeHints \/ AnswerGetAll
      <4>1. Head(inbox).kind # "Run" /\ srv'.ran = srv.ran /\ srv'.role = srv.role
        BY <3>4 DEF TakeHints, AnswerGetAll, Serve, TypeOK, Served
      <4>2. (\E j \in DOMAIN inbox : inbox[j].kind = "Run") => \E j \in DOMAIN inbox' : inbox'[j].kind = "Run"
        BY <3>2, <4>1
      <4> QED  BY <2>1, <3>1, <3>3, <4>1, <4>2 DEF CallInv
    <3>5. CASE TakeRun
      <4>1. Head(inbox).kind = "Run"
        BY <3>5 DEF TakeRun, Serve
      <4>2. request # "none" /\ Head(inbox) = Run(Asked)
        BY <3>2, <4>1 DEF CallInv
      <4>3. /\ Factory[request].role \in DOMAIN DispatchTable
        BY <2>2, <4>2, FactoryTyped, RequestsAssumption
      <4>4. /\ Asked # NotRun /\ RoleOf(Asked.method) = Factory[request].role
            /\ Factory[request].role # "Unknown"
        BY <4>3, CallsTyped, RolesTyped DEF Asked
      <4>5. srv' = [srv EXCEPT !.ran = Asked, !.ranWith = srv.hints, !.role = Factory[request].role]
        <5>1. Head(inbox).call = Asked
          BY <4>2 DEF Run
        <5> QED  BY <3>5, <4>4, <5>1 DEF TakeRun
      <4>6. srv'.ran = Asked /\ srv'.role # "Unknown"
        BY <4>4, <4>5 DEF TypeOK, Served
      <4> QED  BY <2>1, <3>1, <3>3, <4>2, <4>4, <4>6 DEF CallInv
    <3> QED  BY <2>7, <3>4, <3>5
  <2> QED  BY <1>3, <2>3, <2>4, <2>5, <2>6, <2>7, WireMoves
<1> QED  BY <1>1, <1>2, <1>3

(* What setup() sends before the call is in front of it, ...               *)
LEMMA BurstAhead ==
  ASSUME TypeOK, NEW l \in HintList, NEW S, NEW k \in 1..(4 + Len(d.connected)),
         setupMessages(l)[k] \in S
  PROVE  Ahead(S, <<>>, setupMessages(l))
<1> DEFINE b == setupMessages(l)
<1>1. \A j \in DOMAIN b : b[j].kind = "Run" => j = 5 + Len(d.connected)
  BY BurstCall
<1>2. b[k] \in S /\ Len(d.connected) \in Nat
  BY DEF TypeOK, Private
<1> HIDE DEF b
<1>3. ASSUME NEW j \in DOMAIN b, b[j].kind = "Run"  PROVE \E i \in 1..(j - 1) : b[i] \in S
  <2>1. k \in 1..(j - 1)
    BY <1>1, <1>2, <1>3
  <2> QED  BY <1>2, <2>1
<1>4. Ahead(S, <<>>, b)
  BY <1>3 DEF Ahead
<1> QED  BY <1>4 DEF b

(* ... and of the hints only those asked for are.                          *)
LEMMA BurstHints ==
  ASSUME TypeOK, NEW l \in HintList
  PROVE  Unhindered(HintMessages \ {SetHints(l)}, <<>>, setupMessages(l))
<1> DEFINE b == setupMessages(l)
           n == Len(d.connected)
<1>1. \A j \in DOMAIN b : b[j].kind = "Run" => j = 5 + n
  BY BurstCall
<1>2. /\ n \in Nat
      /\ b[1] = SetHints(l) /\ b[2] = Watch(<<"Destroy">>)
      /\ b[3] = Message("GetAll") /\ b[4] = Watch(<<"PropertiesChanged">>)
      /\ \A i \in 1..n : b[4 + i] = Watch(Relayed(d.connected[i]))
  BY Burst DEF TypeOK
<1> HIDE DEF b, n
<1>3. ASSUME NEW i \in 1..(4 + n)  PROVE b[i] \notin HintMessages \ {SetHints(l)}
  <2>1. CASE i = 1
    BY <1>2, <2>1
  <2>2. CASE i # 1
    <3>1. b[i].kind # "SetHints"
      <4>1. CASE i \in 2..4
        BY <1>2, <4>1 DEF Watch, Message
      <4>2. CASE i \notin 2..4
        <5>1. i - 4 \in 1..n /\ i = 4 + (i - 4)
          BY <1>2, <1>3, <2>2, <4>2
        <5>2. b[4 + (i - 4)] = Watch(Relayed(d.connected[i - 4]))
          BY <1>2, <5>1
        <5>3. b[4 + (i - 4)].kind = "AddMatch"
          BY <5>2 DEF Watch
        <5> QED  BY <5>1, <5>3
      <4> QED  BY <4>1, <4>2
    <3> QED  BY <3>1 DEF HintMessages, SetHints
  <2> QED  BY <2>1, <2>2
<1>4. Unhindered(HintMessages \ {SetHints(l)}, <<>>, b)
  <2>1. ASSUME NEW j \in DOMAIN b, b[j].kind = "Run", NEW i \in 1..(j - 1)
        PROVE  b[i] \notin HintMessages \ {SetHints(l)}
    <3>1. i \in 1..(4 + n)
      BY <1>1, <1>2, <2>1
    <3> QED  BY <1>3, <3>1
  <2> QED  BY <2>1 DEF Unhindered
<1> QED  BY <1>4 DEF b

(* A subscription in front of the call has been taken when the daemon      *)
(* serves the call.                                                        *)
LEMMA SeesStep ==
  ASSUME TypeOK, [Next]_vars, ~(Attach \/ CreateSucceeded), NEW CONSTANT x, Sees(x)
  PROVE  Sees(x)'
<1>1. wire \in Seq(Sent) /\ inbox \in Seq(Call)
  BY DEF TypeOK, Sent
<1>2. matched \subseteq matched'
  BY WireMoves DEF Forward, Subscribe, TakeHints, AnswerGetAll, TakeRun, Serve
<1>3. CASE x \in matched
  BY <1>2, <1>3 DEF Sees
<1>4. CASE Ahead(Subscribing(x), inbox, wire) /\ srv.ran = NotRun
  <2> DEFINE S == Subscribing(x)
  <2>1. S \subseteq Subscription /\ Ahead(S, inbox, wire) /\ srv.ran = NotRun
    BY <1>4 DEF Subscribing
  <2>2. CASE UNCHANGED <<wire, inbox, matched>> /\ srv'.ran = srv.ran
    BY <2>1, <2>2 DEF Sees
  <2>3. ASSUME UNCHANGED <<inbox, srv>>, NEW m \in Sent, m.kind # "Run", wire' = Append(wire, m)
        PROVE  Sees(x)'
    <3>1. Ahead(S, inbox, Append(wire, m))
      BY <1>1, <2>1, <2>3, AheadAppended
    <3> QED  BY <2>1, <2>3, <3>1 DEF Sees
  <2>4. CASE Forward
    <3>1. /\ wire # <<>> /\ Head(wire) \in Call /\ inbox' = Append(inbox, Head(wire))
          /\ wire' = Tail(wire) /\ srv' = srv
      BY <2>4, ForwardStep
    <3>2. Ahead(S, Append(inbox, Head(wire)), Tail(wire))
      BY <1>1, <2>1, <3>1, AheadForwarded
    <3> QED  BY <2>1, <3>1, <3>2 DEF Sees
  <2>5. CASE Subscribe
    <3> DEFINE q == Head(wire).signals
    <3>1. /\ wire # <<>> /\ Head(wire) \in Subscription /\ inbox' = inbox /\ srv' = srv
          /\ \/ /\ matched' = matched \cup {q[1]} /\ q \in Seq(Watchable) /\ Len(q) > 1
                /\ Watch(Tail(q)) \in Subscription /\ wire' = <<Watch(Tail(q))>> \o Tail(wire)
             \/ /\ matched' = matched \cup Range(q) /\ wire' = Tail(wire)
      BY <2>5, SubscribeStep
    <3>2. Head(wire) \in S <=> x \in Range(q)
      BY <3>1 DEF Subscribing
    <3> HIDE DEF q
    <3>3. CASE matched' = matched \cup Range(q) /\ wire' = Tail(wire)
      <4>1. CASE x \in Range(q)
        BY <3>3, <4>1 DEF Sees
      <4>2. CASE x \notin Range(q)
        <5>1. Ahead(S, inbox, Tail(wire))
          BY <1>1, <2>1, <3>1, <3>2, <4>2, AheadSubscribed
        <5> QED  BY <2>1, <3>1, <3>3, <5>1 DEF Sees
      <4> QED  BY <4>1, <4>2
    <3>4. CASE /\ matched' = matched \cup {q[1]} /\ q \in Seq(Watchable) /\ Len(q) > 1
               /\ Watch(Tail(q)) \in Subscription /\ wire' = <<Watch(Tail(q))>> \o Tail(wire)
      <4>1. CASE x = q[1]
        BY <3>4, <4>1 DEF Sees
      <4>2. CASE x # q[1]
        <5>1. x \in Range(q) => x \in Range(Tail(q))
          <6>1. ASSUME NEW i \in DOMAIN q, q[i] = x  PROVE \E j \in DOMAIN Tail(q) : Tail(q)[j] = x
            <7>1. i # 1 /\ DOMAIN q = 1..Len(q) /\ DOMAIN Tail(q) = 1..(Len(q) - 1) /\ Len(q) \in Nat
              BY <3>4, <4>2, <6>1
            <7>2. i - 1 \in DOMAIN Tail(q) /\ Tail(q)[i - 1] = q[i]
              BY <3>4, <6>1, <7>1
            <7> QED  BY <6>1, <7>2
          <6> QED  BY <6>1 DEF Range
        <5>2. Watch(Tail(q)).signals = Tail(q)
          BY DEF Watch
        <5>3. Head(wire) \in S => Watch(Tail(q)) \in S
          BY <3>2, <3>4, <5>1, <5>2 DEF Subscribing
        <5>4. Ahead(S, inbox, <<Watch(Tail(q))>> \o Tail(wire))
          BY <1>1, <2>1, <3>1, <3>4, <5>3, AheadShortened
        <5> QED  BY <2>1, <3>1, <3>4, <5>4 DEF Sees
      <4> QED  BY <4>1, <4>2
    <3> QED  BY <3>1, <3>3, <3>4
  <2>6. CASE TakeHints \/ AnswerGetAll \/ TakeRun
    <3>1. inbox # <<>> /\ inbox' = Tail(inbox) /\ wire' = wire
      BY <2>6 DEF TakeHints, AnswerGetAll, TakeRun, Serve
    <3>2. Head(inbox) \notin S
      BY <1>1, <2>1, <3>1, HeadAndTail DEF Subscription, Call
    <3>3. Ahead(S, Tail(inbox), wire) /\ Head(inbox).kind # "Run"
      BY <1>1, <2>1, <3>1, <3>2, AheadServed
    <3>4. srv'.ran = srv.ran
      BY <2>6, <3>3 DEF TakeHints, AnswerGetAll, TakeRun, Serve, TypeOK, Served
    <3> QED  BY <2>1, <3>1, <3>3, <3>4 DEF Sees
  <2> QED  BY <2>2, <2>3, <2>4, <2>5, <2>6, WireMoves
<1> QED  BY <1>3, <1>4 DEF Sees

(* When the daemon serves the method, it has the hints asked for.          *)
LEMMA HintStep ==
  ASSUME TypeOK, BeforeSetup, AfterSetup, HintInv, [Next]_vars
  PROVE  HintInv'
<1>1. wire \in Seq(Sent) /\ inbox \in Seq(Call) /\ Target \in HintList
  BY HintsTyped DEF TypeOK, Sent
<1>2. CASE d'.stage # "ready"
  <2>1. wire' = <<>> /\ inbox' = <<>> /\ srv'.ran = NotRun
    BY <1>2, BeforeStep DEF BeforeSetup
  <2> QED  BY <2>1 DEF HintInv, Ahead, Unhindered
<1>3. CASE Attach \/ CreateSucceeded
  <2>1. /\ wire' = setupMessages(Target) /\ inbox' = <<>> /\ srv'.ran = NotRun
        /\ saw' = [saw EXCEPT !.early = Range(d.connected)]
    BY <1>3, SetupStep
  <2>2. Target' = Target
    BY <2>1 DEF Target, TypeOK
  <2>3. Unhindered(HintMessages \ {SetHints(Target)}, <<>>, setupMessages(Target))
    BY <1>1, BurstHints
  <2>4. setupMessages(Target)[1] \in HintMessages /\ 1 \in 1..(4 + Len(d.connected))
    <3>1. setupMessages(Target)[1] = SetHints(Target) /\ Len(d.connected) \in Nat
      BY <1>1, Burst DEF TypeOK
    <3> QED  BY <1>1, <3>1 DEF HintMessages
  <2>5. Ahead(HintMessages, <<>>, setupMessages(Target))
    BY <1>1, <2>4, BurstAhead
  <2> QED  BY <2>1, <2>2, <2>3, <2>5 DEF HintInv
<1>4. CASE d'.stage = "ready" /\ ~(Attach \/ CreateSucceeded)
  <2> DEFINE H == HintMessages
             W == HintMessages \ {SetHints(Target)}
  <2>1. Target' = Target
    <3>1. d.stage = "ready"
      BY <1>4, StageKept
    <3> QED  BY <1>4, <3>1, ReadyStep DEF Target
  <2>2. /\ Unhindered(W, inbox, wire)
        /\ srv.hints = Target \/ Ahead(H, inbox, wire)
        /\ srv.ran # NotRun => srv.ranWith = Target
    BY DEF HintInv
  <2>3. \A m \in Subscription : m \notin H
    BY DEF Subscription, HintMessages, SetHints
  <2>4. H' = H /\ W' = W
    BY <2>1 DEF HintMessages
  <2> HIDE DEF H, W
  <2>5. CASE /\ UNCHANGED <<wire, inbox>> /\ srv'.ran = srv.ran /\ srv'.ranWith = srv.ranWith
             /\ srv'.hints = srv.hints
    BY <2>1, <2>2, <2>4, <2>5 DEF HintInv, H, W
  <2>6. ASSUME UNCHANGED <<inbox, srv>>, NEW m \in Sent, m.kind # "Run", wire' = Append(wire, m)
        PROVE  HintInv'
    <3>1. /\ Unhindered(W, inbox, Append(wire, m))
          /\ srv.hints = Target \/ Ahead(H, inbox, Append(wire, m))
      BY <1>1, <2>2, <2>6, AheadAppended
    <3> QED  BY <2>1, <2>2, <2>4, <2>6, <3>1 DEF HintInv, H, W
  <2>7. CASE Forward
    <3>1. /\ wire # <<>> /\ Head(wire) \in Call /\ inbox' = Append(inbox, Head(wire))
          /\ wire' = Tail(wire) /\ srv' = srv
      BY <2>7, ForwardStep
    <3>2. /\ Unhindered(W, Append(inbox, Head(wire)), Tail(wire))
          /\ srv.hints = Target \/ Ahead(H, Append(inbox, Head(wire)), Tail(wire))
      BY <1>1, <2>2, <3>1, AheadForwarded
    <3> QED  BY <2>1, <2>2, <2>4, <3>1, <3>2 DEF HintInv, H, W
  <2>8. CASE Subscribe
    <3>1. /\ wire # <<>> /\ Head(wire) \in Subscription /\ inbox' = inbox /\ srv' = srv
          /\ \/ \E m \in Subscription : wire' = <<m>> \o Tail(wire)
             \/ wire' = Tail(wire)
      BY <2>8, SubscribeStep
    <3>2. Head(wire) \notin H /\ \A m \in Subscription : m \notin W
      BY <2>3, <3>1 DEF W, H
    <3>3. CASE wire' = Tail(wire)
      <4>1. /\ Unhindered(W, inbox, Tail(wire))
            /\ srv.hints = Target \/ Ahead(H, inbox, Tail(wire))
        BY <1>1, <2>2, <3>1, <3>2, AheadSubscribed
      <4> QED  BY <2>1, <2>2, <2>4, <3>1, <3>3, <4>1 DEF HintInv, H, W
    <3>4. ASSUME NEW m \in Subscription, wire' = <<m>> \o Tail(wire)  PROVE HintInv'
      <4>1. /\ Unhindered(W, inbox, <<m>> \o Tail(wire))
            /\ srv.hints = Target \/ Ahead(H, inbox, <<m>> \o Tail(wire))
        BY <1>1, <2>2, <3>1, <3>2, <3>4, AheadShortened
      <4> QED  BY <2>1, <2>2, <2>4, <3>1, <3>4, <4>1 DEF HintInv, H, W
    <3> QED  BY <3>1, <3>3, <3>4
  <2>9. CASE TakeHints \/ AnswerGetAll \/ TakeRun
    <3>1. inbox # <<>> /\ inbox' = Tail(inbox) /\ wire' = wire
      BY <2>9 DEF TakeHints, AnswerGetAll, TakeRun, Serve
    <3>2. Unhindered(W, Tail(inbox), wire)
      BY <1>1, <2>2, <3>1, AheadServed
    <3>3. CASE TakeHints
      <4>1. /\ Head(inbox).kind = "SetHints" /\ srv' = [srv EXCEPT !.hints = Head(inbox).hints]
        BY <3>3 DEF TakeHints, Serve
      <4>2. /\ srv'.hints = Head(inbox).hints /\ srv'.ran = srv.ran /\ srv'.ranWith = srv.ranWith
        BY <4>1 DEF TypeOK, Served
      <4>3. Head(inbox) \in H /\ (Head(inbox) \in W \/ Head(inbox).hints = Target)
        <5>1. Head(inbox) \in Call
          BY <1>1, <3>1, HeadAndTail
        <5>2. Head(inbox) = SetHints(Head(inbox).hints) /\ Head(inbox).hints \in HintList
          BY <4>1, <5>1 DEF Call, SetHints
        <5>3. Head(inbox) \in H
          BY <5>2 DEF H, HintMessages
        <5>4. Head(inbox) = SetHints(Target) => Head(inbox).hints = Target
          BY DEF SetHints
        <5> QED  BY <5>3, <5>4 DEF H, W
      <4>4. CASE Head(inbox).hints = Target
        BY <2>1, <2>2, <2>4, <3>1, <3>2, <4>2, <4>4 DEF HintInv, H, W
      <4>5. CASE Head(inbox) \in W
        <5>1. Ahead(H, Tail(inbox), wire)
          BY <1>1, <2>2, <3>1, <4>5, HinderedIsLast
        <5> QED  BY <2>1, <2>2, <2>4, <3>1, <3>2, <4>2, <5>1 DEF HintInv, H, W
      <4> QED  BY <4>3, <4>4, <4>5
    <3>4. CASE AnswerGetAll
      <4>1. srv' = srv /\ Head(inbox).kind = "GetAll"
        BY <3>4 DEF AnswerGetAll, Serve
      <4>2. Head(inbox) \notin H
        BY <4>1 DEF H, HintMessages, SetHints
      <4>3. srv.hints = Target \/ Ahead(H, Tail(inbox), wire)
        BY <1>1, <2>2, <3>1, <4>2, AheadServed
      <4> QED  BY <2>1, <2>2, <2>4, <3>1, <3>2, <4>1, <4>3 DEF HintInv, H, W
    <3>5. CASE TakeRun
      <4>1. Head(inbox).kind = "Run"
        BY <3>5 DEF TakeRun, Serve
      <4>2. srv.hints = Target
        BY <1>1, <2>2, <3>1, <4>1, AheadServed
      <4>3. srv'.hints = srv.hints /\ srv'.ranWith = srv.hints
        BY <3>5 DEF TakeRun, TypeOK, Served
      <4> QED  BY <2>1, <2>4, <3>1, <3>2, <4>2, <4>3 DEF HintInv, H, W
    <3> QED  BY <2>9, <3>3, <3>4, <3>5
  <2> QED  BY <1>4, <2>5, <2>6, <2>7, <2>8, <2>9, WireMoves
<1> QED  BY <1>2, <1>3, <1>4

(***************************************************************************)
(* The properties                                                          *)
(***************************************************************************)
(* Only updateProperties() changes them after setup().                     *)
LEMMA PropertiesKept ==
  ASSUME TypeOK, [Next]_vars, ~(Attach \/ CreateSucceeded), d.stage = "ready", ~updateProperties
  PROVE  d'.known = d.known /\ d'.role = d.role /\ d'.status = d.status
<1>1. ASSUME NEW s \in Listened, Connect(s)
      PROVE  d'.known = d.known /\ d'.role = d.role /\ d'.status = d.status
  BY <1>1 DEF Connect, connectNotify, TypeOK, Private
<1>2. ASSUME NEW l \in HintLists, SetTransactionHints(l)
      PROVE  d'.known = d.known /\ d'.role = d.role /\ d'.status = d.status
  BY <1>2 DEF SetTransactionHints, TypeOK, Private
<1>3. \/ UNCHANGED d
      \/ (\E s \in Listened : Connect(s))
      \/ (\E l \in HintLists : SetTransactionHints(l))
  BY DEF vars, Next, Application, Create, EventLoop, Daemon, SetGlobalHints, Notify, HandleResult,
     Forward, Subscribe, AnswerCreate, TakeHints, AnswerGetAll, TakeRun, Serve, ChangeStatus,
     EmitResult
<1> QED  BY <1>1, <1>2, <1>3

(* updateProperties() replaces the properties that the event carries.      *)
LEMMA UpdateStep ==
  ASSUME TypeOK, updateProperties
  PROVE  LET e == Head(queue) IN
           /\ e \in Event /\ e.kind = "properties"
           /\ DOMAIN e.values \subseteq Property
           /\ d'.known = d.known \cup DOMAIN e.values
           /\ d'.role = IF Carries(e, "Role") THEN e.values["Role"] ELSE d.role
           /\ d'.status = IF Carries(e, "Status") THEN e.values["Status"] ELSE d.status
           /\ saw'.blind \subseteq saw.blind \cup {"RemainingTime"}
           /\ UNCHANGED <<wire, inbox, matched, srv>>
<1> DEFINE e == Head(queue)
<1>1. e \in Event /\ e.kind = "properties"
  BY HeadAndTail DEF TypeOK, updateProperties, Handling
<1>2. DOMAIN e.values \subseteq Property
  BY <1>1, ValuesTyped
<1>3. d' = [d EXCEPT !.role = IF "Role" \in DOMAIN e.values THEN e.values["Role"] ELSE @,
                     !.status = IF "Status" \in DOMAIN e.values THEN e.values["Status"] ELSE @,
                     !.known = @ \cup DOMAIN e.values]
  BY DEF updateProperties
<1> HIDE DEF e
<1>4. /\ d'.known = d.known \cup DOMAIN e.values
      /\ d'.role = IF Carries(e, "Role") THEN e.values["Role"] ELSE d.role
      /\ d'.status = IF Carries(e, "Status") THEN e.values["Status"] ELSE d.status
  BY <1>1, <1>3 DEF TypeOK, Private, Carries
<1>5. saw'.blind \subseteq saw.blind \cup {"RemainingTime"}
  <2> DEFINE v == Head(queue).values
             b == saw.blind \cup
                  UNION {Blind(p, d.known \cup (Upto[p] \cap DOMAIN v)) : p \in Direct \cap DOMAIN v}
  <2>1. saw' = [saw EXCEPT !.blind = b]
    BY DEF updateProperties
  <2>2. b \subseteq saw.blind \cup {"RemainingTime"}
    BY DEF Blind, Direct
  <2> HIDE DEF b
  <2>3. saw'.blind = b
    BY <2>1 DEF TypeOK
  <2> QED  BY <2>2, <2>3
<1> QED  BY <1>1, <1>2, <1>4, <1>5 DEF updateProperties, e

(* What has been received stays so.                                        *)
LEMMA ReceivedKept ==
  ASSUME TypeOK, [Next]_vars, ~(Attach \/ CreateSucceeded), d.stage = "ready", Received
  PROVE  Received'
<1>1. queue \in Seq(Event) /\ d.known \subseteq Property
  BY DEF TypeOK, Private
<1>2. CASE d.known = Property
  <2>1. CASE updateProperties
    BY <1>2, <2>1, UpdateStep DEF Received
  <2>2. CASE ~updateProperties
    BY <1>2, <2>2, PropertiesKept DEF Received
  <2> QED  BY <2>1, <2>2
<1>3. ASSUME NEW i \in DOMAIN queue, Full(queue[i])  PROVE Received'
  <2>1. CASE queue' = queue
    BY <1>3, <2>1 DEF Received
  <2>2. CASE queue # <<>> /\ queue' = Tail(queue) /\ (Notify \/ HandleResult)
    <3>1. Head(queue).kind # "properties" /\ Head(queue) = queue[1]
      BY <1>1, <2>2, HeadAndTail DEF Notify, HandleResult, Handling
    <3>2. i # 1
      BY <1>3, <3>1 DEF Full
    <3>3. i - 1 \in DOMAIN queue' /\ queue'[i - 1] = queue[i]
      BY <1>1, <1>3, <2>2, <3>2, HeadAndTail
    <3> QED  BY <1>3, <3>3 DEF Received
  <2>3. CASE queue # <<>> /\ queue' = Tail(queue) \o Posts(Head(queue).values) /\ updateProperties
    <3>1. CASE i = 1
      <4>1. Full(Head(queue))
        BY <1>1, <1>3, <2>3, <3>1, HeadAndTail
      <4>2. d'.known = d.known \cup DOMAIN Head(queue).values
        BY <2>3, UpdateStep
      <4> QED  BY <1>1, <4>1, <4>2 DEF Full, Received
    <3>2. CASE i # 1
      <4> DEFINE p == Posts(Head(queue).values)
                 n == Len(queue) - 1
      <4>1. p \in Seq(Event)
        BY PostsTyped
      <4>2. /\ n \in Nat /\ Len(p) \in Nat /\ DOMAIN queue = 1..(n + 1)
            /\ DOMAIN queue' = 1..(n + Len(p))
            /\ \A k \in 1..n : queue'[k] = queue[k + 1]
        BY <1>1, <2>3, <4>1, Handled
      <4> HIDE DEF p, n
      <4>3. i - 1 \in 1..n /\ i - 1 \in DOMAIN queue' /\ queue'[i - 1] = queue[(i - 1) + 1]
        BY <1>3, <3>2, <4>2
      <4>4. queue'[i - 1] = queue[i]
        BY <4>2, <4>3, <1>3
      <4> QED  BY <1>3, <4>3, <4>4 DEF Received
    <3> QED  BY <3>1, <3>2
  <2>4. ASSUME NEW e \in Event, queue' = Append(queue, e)  PROVE Received'
    <3>1. i \in DOMAIN queue' /\ queue'[i] = queue[i]
      BY <1>1, <1>3, <2>4, Appended
    <3> QED  BY <1>3, <3>1 DEF Received
  <2> QED  BY <2>1, <2>2, <2>3, <2>4, QueueMoves
<1> QED  BY <1>2, <1>3 DEF Received

(* GetAll is served before the method, and its reply carries all members.  *)
LEMMA ReceivedStep ==
  ASSUME TypeOK, [Next]_vars, ~(Attach \/ CreateSucceeded), d.stage = "ready",
         Received \/ (Ahead({Message("GetAll")}, inbox, wire) /\ srv.ran = NotRun)
  PROVE  (Received \/ (Ahead({Message("GetAll")}, inbox, wire) /\ srv.ran = NotRun))'
<1> DEFINE S == {Message("GetAll")}
           G == Ahead(S, inbox, wire) /\ srv.ran = NotRun
<1>1. wire \in Seq(Sent) /\ inbox \in Seq(Call)
  BY DEF TypeOK, Sent
<1>2. \A m \in Subscription : m \notin S
  BY DEF Subscription, Message
<1>3. S' = S
  BY DEF Message
<1> HIDE DEF S
<1> SUFFICES ASSUME ~Received  PROVE Received' \/ G'
  BY ReceivedKept DEF S
<1>4. Ahead(S, inbox, wire) /\ srv.ran = NotRun
  BY DEF S
<1>5. CASE UNCHANGED <<wire, inbox>> /\ srv'.ran = srv.ran
  BY <1>3, <1>4, <1>5
<1>6. ASSUME UNCHANGED <<inbox, srv>>, NEW m \in Sent, m.kind # "Run", wire' = Append(wire, m)
      PROVE  G'
  <2>1. Ahead(S, inbox, Append(wire, m))
    BY <1>1, <1>4, <1>6, AheadAppended
  <2> QED  BY <1>3, <1>4, <1>6, <2>1
<1>7. CASE Forward
  <2>1. /\ wire # <<>> /\ Head(wire) \in Call /\ inbox' = Append(inbox, Head(wire))
        /\ wire' = Tail(wire) /\ srv' = srv
    BY <1>7, ForwardStep
  <2>2. Ahead(S, Append(inbox, Head(wire)), Tail(wire))
    BY <1>1, <1>4, <2>1, AheadForwarded
  <2> QED  BY <1>3, <1>4, <2>1, <2>2
<1>8. CASE Subscribe
  <2>1. /\ wire # <<>> /\ Head(wire) \in Subscription /\ inbox' = inbox /\ srv' = srv
        /\ \/ \E m \in Subscription : wire' = <<m>> \o Tail(wire)
           \/ wire' = Tail(wire)
    BY <1>8, SubscribeStep
  <2>2. CASE wire' = Tail(wire)
    <3>1. Ahead(S, inbox, Tail(wire))
      BY <1>1, <1>2, <1>4, <2>1, AheadSubscribed
    <3> QED  BY <1>3, <1>4, <2>1, <2>2, <3>1
  <2>3. ASSUME NEW m \in Subscription, wire' = <<m>> \o Tail(wire)  PROVE G'
    <3>1. Ahead(S, inbox, <<m>> \o Tail(wire))
      BY <1>1, <1>2, <1>4, <2>1, <2>3, AheadShortened
    <3> QED  BY <1>3, <1>4, <2>1, <2>3, <3>1
  <2> QED  BY <2>1, <2>2, <2>3
<1>9. CASE TakeHints \/ TakeRun
  <2>1. inbox # <<>> /\ inbox' = Tail(inbox) /\ wire' = wire /\ Head(inbox).kind \in {"SetHints", "Run"}
    BY <1>9 DEF TakeHints, TakeRun, Serve
  <2>2. Head(inbox) \notin S
    BY <2>1 DEF S, Message
  <2>3. Ahead(S, Tail(inbox), wire) /\ Head(inbox).kind # "Run"
    BY <1>1, <1>4, <2>1, <2>2, AheadServed
  <2>4. srv'.ran = srv.ran
    BY <1>9, <2>3 DEF TakeHints, TakeRun, Serve, TypeOK, Served
  <2> QED  BY <1>3, <1>4, <2>1, <2>3, <2>4
<1>10. CASE AnswerGetAll
  <2> DEFINE e == Properties([RemainingTime |-> 0, Role |-> srv.role, Status |-> srv.status])
  <2>1. queue \in Seq(Event) /\ srv.role \in Role /\ srv.status \in 0..MaxStatus
    BY DEF TypeOK, Served
  <2>2. e \in Event /\ Full(e)
    BY <2>1, EventsTyped DEF Full, Properties, Property
  <2>3. queue' = Append(queue, e)
    BY <1>10 DEF AnswerGetAll
  <2> HIDE DEF e
  <2>4. Len(queue) + 1 \in DOMAIN queue' /\ queue'[Len(queue) + 1] = e
    BY <2>1, <2>2, <2>3, Appended
  <2> QED  BY <2>2, <2>4 DEF Received
<1> QED  BY <1>5, <1>6, <1>7, <1>8, <1>9, <1>10, WireMoves

(* The daemon runs the method of the call.                                 *)
LEMMA RunStep ==
  ASSUME TypeOK, TakeRun
  PROVE  \E r \in Role : /\ srv'.role = r /\ srv'.status = srv.status /\ srv'.emitted = srv.emitted
                         /\ Emit("PropertiesChanged", Properties([Role |-> r]))
                         /\ UNCHANGED <<d, saw, matched>>
<1> DEFINE r == RoleOf(Head(inbox).call.method)
<1>1. Head(inbox) \in Call /\ Head(inbox).kind = "Run"
  BY HeadAndTail DEF TakeRun, Serve, TypeOK
<1>2. r \in Role
  BY <1>1, CallsTyped, RolesTyped DEF Call, Range
<1>3. /\ srv' = [srv EXCEPT !.ran = Head(inbox).call, !.ranWith = srv.hints, !.role = r]
      /\ Emit("PropertiesChanged", Properties([Role |-> r]))
      /\ UNCHANGED <<d, saw, matched>>
  BY DEF TakeRun, Serve
<1> HIDE DEF r
<1>4. srv'.role = r /\ srv'.status = srv.status /\ srv'.emitted = srv.emitted
  BY <1>3 DEF TypeOK, Served
<1> QED  BY <1>2, <1>3, <1>4

(* The daemon's replies and changes are events with properties.            *)
LEMMA Replies ==
  ASSUME TypeOK, AnswerGetAll \/ TakeRun \/ ChangeStatus
  PROVE  /\ UNCHANGED <<saw, d, request, matched>> /\ srv'.emitted = srv.emitted
         /\ \/ queue' = queue
            \/ \E e \in Event : queue' = Append(queue, e) /\ e.kind = "properties"
<1>1. CASE AnswerGetAll
  <2>1. Properties([RemainingTime |-> 0, Role |-> srv.role, Status |-> srv.status]) \in Event
    BY EventsTyped DEF TypeOK, Served
  <2> QED  BY <1>1, <2>1 DEF AnswerGetAll, Serve, Properties
<1>2. CASE TakeRun
  <2>1. PICK r \in Role :
          /\ srv'.emitted = srv.emitted /\ Emit("PropertiesChanged", Properties([Role |-> r]))
          /\ UNCHANGED <<d, saw, matched>>
    BY <1>2, RunStep
  <2>2. Properties([Role |-> r]) \in Event /\ Properties([Role |-> r]).kind = "properties"
    BY EventsTyped DEF Properties
  <2> QED  BY <1>2, <2>1, <2>2 DEF Emit, TakeRun, Serve
<1>3. CASE ChangeStatus
  <2>1. srv.status + 1 \in 0..MaxStatus
    BY <1>3, SetupBoundsAssumption DEF ChangeStatus, TypeOK, Served
  <2>2. /\ Properties([Status |-> srv.status + 1]) \in Event
        /\ Properties([Status |-> srv.status + 1]).kind = "properties"
    BY <2>1, EventsTyped DEF Properties
  <2> QED  BY <1>3, <2>2 DEF ChangeStatus, Emit, TypeOK, Served
<1> QED  BY <1>1, <1>2, <1>3

(* Only the notifications of properties show whether they are all known.   *)
LEMMA BlindKept ==
  ASSUME TypeOK, [Next]_vars, ~(Attach \/ CreateSucceeded), ~updateProperties, ~Notify
  PROVE  saw'.blind = saw.blind
<1>1. CASE HandleResult
  BY <1>1 DEF HandleResult, TypeOK
<1>2. ASSUME NEW l \in HintLists, SetTransactionHints(l) \/ SetGlobalHints(l)
      PROVE  saw'.blind = saw.blind
  BY <1>2 DEF SetTransactionHints, SetGlobalHints, TypeOK
<1>3. \/ saw' = saw \/ HandleResult
      \/ \E l \in HintLists : SetTransactionHints(l) \/ SetGlobalHints(l)
  BY DEF vars, Next, Application, Create, Connect, EventLoop, Daemon, Forward, Subscribe,
     AnswerCreate, TakeHints, AnswerGetAll, TakeRun, Serve, ChangeStatus, EmitResult
<1> QED  BY <1>1, <1>2, <1>3

(* Until everything has been received there is no notification, and the    *)
(* first properties on their way are the reply to GetAll.                  *)
Waiting(known, events) ==
  \/ known = Property
  \/ /\ known = {}
     /\ \A i \in DOMAIN events :
          /\ events[i].kind # "notify"
          /\ events[i].kind = "properties" => \E h \in 1..i : Full(events[h])

(* This stays so if the method runs only when the reply is on its way.     *)
LEMMA WaitingStep ==
  ASSUME TypeOK, [Next]_vars, ~(Attach \/ CreateSucceeded), d.stage = "ready",
         Waiting(d.known, queue),
         srv.role # "Unknown" \/ TakeRun => Received
  PROVE  Waiting(d'.known, queue')
<1>1. queue \in Seq(Event) /\ d.known \subseteq Property
  BY DEF TypeOK, Private
<1>2. CASE updateProperties
  <2>1. Head(queue) = queue[1] /\ 1 \in DOMAIN queue /\ Head(queue).kind = "properties"
    BY <1>1, <1>2, HeadAndTail DEF updateProperties, Handling
  <2>2. d'.known = d.known \cup DOMAIN Head(queue).values /\ DOMAIN Head(queue).values \subseteq Property
    BY <1>2, UpdateStep
  <2>3. d.known = Property \/ Full(Head(queue))
    <3> SUFFICES ASSUME d.known # Property  PROVE Full(Head(queue))
      OBVIOUS
    <3>1. PICK h \in 1..1 : Full(queue[h])
      BY <2>1 DEF Waiting
    <3> QED  BY <2>1, <3>1
  <2> QED  BY <1>1, <2>2, <2>3 DEF Waiting, Full
<1>3. CASE ~updateProperties /\ d.known = Property
  BY <1>3, PropertiesKept DEF Waiting
<1>4. CASE ~updateProperties /\ d.known # Property
  <2>1. /\ d'.known = {}
        /\ \A i \in DOMAIN queue :
             /\ queue[i].kind # "notify"
             /\ queue[i].kind = "properties" => \E h \in 1..i : Full(queue[h])
    BY <1>4, PropertiesKept DEF Waiting
  <2>2. CASE queue' = queue
    BY <2>1, <2>2 DEF Waiting
  <2>3. CASE queue # <<>> /\ queue' = Tail(queue) /\ (Notify \/ HandleResult)
    <3>1. /\ Head(queue) = queue[1] /\ 1 \in DOMAIN queue /\ Len(queue) \in Nat
          /\ DOMAIN queue = 1..Len(queue) /\ DOMAIN queue' = 1..(Len(queue) - 1)
          /\ \A i \in DOMAIN queue' : i + 1 \in DOMAIN queue /\ queue'[i] = queue[i + 1]
      BY <1>1, <2>3, HeadAndTail
    <3>2. queue[1].kind # "properties"
      BY <2>3, <3>1 DEF Notify, HandleResult, Handling
    <3>3. ASSUME NEW i \in DOMAIN queue'
          PROVE  /\ queue'[i].kind # "notify"
                 /\ queue'[i].kind = "properties" => \E h \in 1..i : Full(queue'[h])
      <4>1. queue'[i].kind # "notify"
        BY <2>1, <3>1
      <4>2. ASSUME queue'[i].kind = "properties"  PROVE \E h \in 1..i : Full(queue'[h])
        <5>1. PICK h \in 1..(i + 1) : Full(queue[h])
          BY <2>1, <3>1, <4>2
        <5>2. h # 1
          BY <3>2, <5>1 DEF Full
        <5>3. h - 1 \in 1..i /\ h - 1 \in DOMAIN queue' /\ (h - 1) + 1 = h
          BY <3>1, <5>2
        <5>4. queue'[h - 1] = queue[h]
          BY <3>1, <5>3
        <5> QED  BY <5>1, <5>3, <5>4
      <4> QED  BY <4>1, <4>2
    <3> QED  BY <2>1, <3>3 DEF Waiting
  <2>4. ASSUME NEW e \in Event, queue' = Append(queue, e), e.kind # "notify",
               e.kind = "properties" => Full(e) \/ \E i \in DOMAIN queue : Full(queue[i])
        PROVE  Waiting(d'.known, queue')
    <3>1. /\ DOMAIN queue = 1..Len(queue) /\ Len(queue) \in Nat
          /\ DOMAIN queue' = 1..(Len(queue) + 1) /\ queue'[Len(queue) + 1] = e
          /\ \A i \in 1..Len(queue) : queue'[i] = queue[i]
      BY <1>1, <2>4, Appended
    <3>2. ASSUME NEW i \in DOMAIN queue'
          PROVE  /\ queue'[i].kind # "notify"
                 /\ queue'[i].kind = "properties" => \E h \in 1..i : Full(queue'[h])
      <4>1. CASE i \in 1..Len(queue)
        <5>1. queue'[i].kind # "notify" /\ (queue'[i].kind = "properties" => \E h \in 1..i : Full(queue[h]))
          BY <2>1, <3>1, <4>1
        <5>2. \A h \in 1..i : queue'[h] = queue[h]
          BY <3>1, <4>1
        <5> QED  BY <5>1, <5>2
      <4>2. CASE i = Len(queue) + 1
        <5>1. Len(queue) + 1 \in 1..i /\ \A h \in 1..Len(queue) : h \in 1..i
          BY <3>1, <4>2
        <5> QED  BY <2>4, <3>1, <4>2, <5>1
      <4> QED  BY <3>1, <4>1, <4>2
    <3> QED  BY <2>1, <3>2 DEF Waiting
  <2>5. Received => \E i \in DOMAIN queue : Full(queue[i])
    BY <1>4 DEF Received
  <2>6. CASE AnswerCreate
    BY <2>6 DEF AnswerCreate
  <2>7. CASE AnswerGetAll
    <3> DEFINE e == Properties([RemainingTime |-> 0, Role |-> srv.role, Status |-> srv.status])
    <3>1. e \in Event /\ Full(e) /\ e.kind = "properties"
      BY EventsTyped DEF TypeOK, Served, Full, Properties, Property
    <3>2. queue' = Append(queue, e)
      BY <2>7 DEF AnswerGetAll
    <3> HIDE DEF e
    <3> QED  BY <2>4, <3>1, <3>2
  <2>8. CASE TakeRun \/ ChangeStatus
    <3>1. Received
      BY <2>8 DEF ChangeStatus, Running
    <3>2. \/ queue' = queue
          \/ \E e \in Event : queue' = Append(queue, e) /\ e.kind = "properties"
      BY <2>8, Replies
    <3> QED  BY <2>2, <2>4, <2>5, <3>1, <3>2
  <2>9. ASSUME NEW x \in DBusSignal, EmitResult(x)  PROVE Waiting(d'.known, queue')
    <3>1. Result(x) \in Event /\ Result(x).kind = "result"
      BY EventsTyped DEF Result
    <3>2. queue' = queue \/ queue' = Append(queue, Result(x))
      BY <2>9 DEF EmitResult, Emit
    <3> QED  BY <2>2, <2>4, <3>1, <3>2
  <2>10. \/ queue' = queue
         \/ queue # <<>> /\ queue' = Tail(queue) /\ (Notify \/ HandleResult)
         \/ AnswerCreate \/ AnswerGetAll \/ TakeRun \/ ChangeStatus
         \/ \E x \in DBusSignal : EmitResult(x)
    BY <1>4 DEF vars, Next, Application, Create, Connect, SetTransactionHints, SetGlobalHints,
       EventLoop, Notify, HandleResult, Handling, Daemon, Forward, Subscribe, TakeHints
  <2> QED  BY <2>2, <2>3, <2>6, <2>7, <2>8, <2>9, <2>10 DEF AnswerCreate
<1> QED  BY <1>2, <1>3, <1>4

(* Notifications of a request come when everything has been received.      *)
LEMMA KnownStep ==
  ASSUME TypeOK, BeforeSetup, AfterSetup, CallInv, KnownInv, [Next]_vars
  PROVE  KnownInv'
<1> DEFINE G == {Message("GetAll")}
<1> SUFFICES ASSUME request' # "none"
             PROVE  /\ Waiting(d'.known, queue')
                    /\ (Received \/ (Ahead(G, inbox, wire) /\ srv.ran = NotRun))'
                    /\ saw'.blind \subseteq {"RemainingTime"}
  BY DEF KnownInv, Waiting
<1>1. CASE d'.stage # "ready"
  <2>1. /\ wire' = <<>> /\ inbox' = <<>> /\ srv'.ran = NotRun /\ d'.known = {} /\ saw'.blind = {}
        /\ queue' = <<>> \/ queue' = <<Message("tid")>>
    BY <1>1, BeforeStep DEF BeforeSetup
  <2>2. \A i \in DOMAIN queue' : queue'[i].kind = "tid"
    BY <2>1 DEF Message
  <2>3. Waiting(d'.known, queue')
    BY <2>1, <2>2 DEF Waiting
  <2>4. Ahead(G, <<>>, <<>>)
    BY DEF Ahead
  <2>5. (Ahead(G, inbox, wire))'
    BY <2>1, <2>4
  <2> QED  BY <2>1, <2>3, <2>5
<1>2. CASE Attach \/ CreateSucceeded
  <2>1. /\ wire' = setupMessages(Target) /\ inbox' = <<>> /\ srv'.ran = NotRun /\ queue' = <<>>
        /\ saw' = [saw EXCEPT !.early = Range(d.connected)] /\ d.stage # "ready"
        /\ d' = [d EXCEPT !.stage = "ready", !.hints = <<Target>>, !.relays = signalRelays]
    BY <1>2, SetupStep
  <2>2. d.known = {} /\ saw.blind = {}
    BY <2>1 DEF BeforeSetup
  <2>3. d'.known = {} /\ saw'.blind = {}
    BY <2>1, <2>2 DEF TypeOK, Private
  <2>4. Target \in HintList
    BY HintsTyped
  <2>5. setupMessages(Target)[3] \in G /\ 3 \in 1..(4 + Len(d.connected))
    <3>1. setupMessages(Target)[3] = Message("GetAll") /\ Len(d.connected) \in Nat
      BY <2>4, Burst DEF TypeOK
    <3> QED  BY <3>1
  <2>6. Ahead(G, <<>>, setupMessages(Target))
    BY <2>4, <2>5, BurstAhead
  <2>7. Waiting({}, <<>>)
    BY DEF Waiting
  <2> QED  BY <2>1, <2>3, <2>6, <2>7
<1>3. CASE d'.stage = "ready" /\ ~(Attach \/ CreateSucceeded)
  <2>1. d.stage = "ready" /\ request' = request
    <3>1. d.stage = "ready"
      BY <1>3, StageKept
    <3> QED  BY <1>3, <3>1, ReadyStep
  <2>2. /\ Waiting(d.known, queue)
        /\ Received \/ (Ahead(G, inbox, wire) /\ srv.ran = NotRun)
        /\ saw.blind \subseteq {"RemainingTime"}
    BY <2>1 DEF KnownInv, Waiting
  <2>3. (Received \/ (Ahead(G, inbox, wire) /\ srv.ran = NotRun))'
    BY <1>3, <2>1, <2>2, ReceivedStep
  <2>4. srv.role # "Unknown" => Received
    BY <2>1, <2>2 DEF CallInv
  <2>5. TakeRun => Received
    <3>1. wire \in Seq(Sent) /\ inbox \in Seq(Call)
      BY DEF TypeOK, Sent
    <3>2. ASSUME TakeRun, Ahead(G, inbox, wire)  PROVE FALSE
      BY <3>1, <3>2, AheadServed DEF TakeRun, Serve
    <3> QED  BY <2>2, <3>2
  <2>6. Waiting(d'.known, queue')
    BY <1>3, <2>1, <2>2, <2>4, <2>5, WaitingStep
  <2>7. saw'.blind \subseteq {"RemainingTime"}
    <3>1. CASE updateProperties
      BY <2>2, <3>1, UpdateStep
    <3>2. CASE Notify
      <4>1. Head(queue) = queue[1] /\ 1 \in DOMAIN queue /\ Head(queue).kind = "notify"
        BY <3>2, HeadAndTail DEF Notify, Handling, TypeOK
      <4>2. d.known = Property
        BY <2>2, <4>1 DEF Waiting
      <4>3. saw'.blind = saw.blind
        BY <3>2, <4>2 DEF Notify, Blind, TypeOK
      <4> QED  BY <2>2, <4>3
    <3>3. CASE ~updateProperties /\ ~Notify
      <4>1. saw'.blind = saw.blind
        BY <1>3, <2>1, <3>3, BlindKept
      <4> QED  BY <2>2, <4>1
    <3> QED  BY <3>1, <3>2, <3>3
  <2> QED  BY <2>3, <2>6, <2>7
<1> QED  BY <1>1, <1>2, <1>3

(* Handling an event takes over the value that it carries, and posts only  *)
(* notifications.                                                          *)
LEMMA SettlesHandled ==
  ASSUME NEW q \in Seq(Event), q # <<>>, NEW more \in Seq(Event),
         NEW r, r = Tail(q) \o more, NEW p, NEW value, NEW now, NEW new,
         \A i \in DOMAIN more : ~Carries(more[i], p),
         Settles(p, value, now, q),
         new = IF Carries(Head(q), p) THEN Head(q).values[p] ELSE now
  PROVE  Settles(p, value, new, r)
<1> DEFINE n == Len(q) - 1
<1>1. /\ n \in Nat /\ Len(more) \in Nat /\ DOMAIN q = 1..(n + 1) /\ Head(q) = q[1]
      /\ DOMAIN r = 1..(n + Len(more))
      /\ \A i \in 1..n : r[i] = q[i + 1]
      /\ \A i \in DOMAIN r : i > n => i - n \in DOMAIN more /\ r[i] = more[i - n]
  BY Handled
<1> HIDE DEF n
<1>2. \A j \in DOMAIN r : j > n => ~Carries(r[j], p)
  BY <1>1
<1>3. ASSUME NEW k \in 0..n, \A j \in DOMAIN q : j > k + 1 => ~Carries(q[j], p),
             NEW j \in DOMAIN r, j > k
      PROVE  ~Carries(r[j], p)
  <2>1. CASE j > n
    BY <1>2, <1>3, <2>1
  <2>2. CASE ~(j > n)
    <3>1. j \in 1..n /\ j + 1 \in DOMAIN q /\ j + 1 > k + 1
      BY <1>1, <1>3, <2>2
    <3> QED  BY <1>1, <1>3, <3>1
  <2> QED  BY <2>1, <2>2
<1>4. CASE now = value /\ \A i \in DOMAIN q : ~Carries(q[i], p)
  <2>1. 1 \in DOMAIN q /\ 0 \in 0..n /\ \A j \in DOMAIN r : j > 0
    BY <1>1
  <2>2. new = value
    BY <1>1, <1>4, <2>1
  <2>3. \A j \in DOMAIN r : ~Carries(r[j], p)
    BY <1>3, <1>4, <2>1
  <2> QED  BY <2>2, <2>3 DEF Settles
<1>5. ASSUME NEW i \in DOMAIN q, Carries(q[i], p), q[i].values[p] = value,
             \A j \in DOMAIN q : j > i => ~Carries(q[j], p)
      PROVE  Settles(p, value, new, r)
  <2>1. CASE i = 1
    <3>1. new = value
      BY <1>1, <1>5, <2>1
    <3>2. 0 \in 0..n /\ \A j \in DOMAIN r : j > 0
      BY <1>1
    <3>3. \A j \in DOMAIN q : j > 0 + 1 => ~Carries(q[j], p)
      BY <1>5, <2>1
    <3>4. \A j \in DOMAIN r : ~Carries(r[j], p)
      BY <1>3, <3>2, <3>3
    <3> QED  BY <3>1, <3>4 DEF Settles
  <2>2. CASE i # 1
    <3>1. i - 1 \in 1..n /\ i - 1 \in 0..n /\ i - 1 \in DOMAIN r /\ (i - 1) + 1 = i
      BY <1>1, <1>5, <2>2
    <3>2. r[i - 1] = q[i]
      BY <1>1, <3>1
    <3>3. \A j \in DOMAIN q : j > (i - 1) + 1 => ~Carries(q[j], p)
      BY <1>5, <3>1
    <3>4. \A j \in DOMAIN r : j > i - 1 => ~Carries(r[j], p)
      BY <1>3, <3>1, <3>3
    <3> QED  BY <1>5, <3>1, <3>2, <3>4 DEF Settles
  <2> QED  BY <2>1, <2>2
<1> QED  BY <1>4, <1>5 DEF Settles

(* An event that is posted does not carry the value, or carries the last   *)
(* one.                                                                    *)
LEMMA SettlesAppended ==
  ASSUME NEW q \in Seq(Event), NEW e \in Event, NEW p, NEW value, NEW now,
         \/ Settles(p, value, now, q) /\ ~Carries(e, p)
         \/ Carries(e, p) /\ e.values[p] = value
  PROVE  Settles(p, value, now, Append(q, e))
<1> DEFINE r == Append(q, e)
           n == Len(q)
<1>1. /\ n \in Nat /\ DOMAIN q = 1..n /\ DOMAIN r = 1..(n + 1) /\ r[n + 1] = e
      /\ \A i \in 1..n : r[i] = q[i]
  BY Appended
<1> HIDE DEF r, n
<1>2. CASE Carries(e, p) /\ e.values[p] = value
  <2>1. n + 1 \in DOMAIN r /\ \A j \in DOMAIN r : ~(j > n + 1)
    BY <1>1
  <2> QED  BY <1>1, <1>2, <2>1 DEF Settles, r
<1>3. CASE now = value /\ (\A i \in DOMAIN q : ~Carries(q[i], p)) /\ ~Carries(e, p)
  <2>1. \A i \in DOMAIN r : ~Carries(r[i], p)
    BY <1>1, <1>3
  <2> QED  BY <1>3, <2>1 DEF Settles, r
<1>4. ASSUME NEW i \in DOMAIN q, Carries(q[i], p), q[i].values[p] = value,
             \A j \in DOMAIN q : j > i => ~Carries(q[j], p), ~Carries(e, p)
      PROVE  Settles(p, value, now, r)
  <2>1. i \in DOMAIN r /\ r[i] = q[i]
    BY <1>1, <1>4
  <2>2. \A j \in DOMAIN r : j > i => ~Carries(r[j], p)
    BY <1>1, <1>4
  <2> QED  BY <1>4, <2>1, <2>2 DEF Settles
<1> QED  BY <1>2, <1>3, <1>4 DEF Settles, r

(* What becomes of the events, and of what the daemon knows.               *)
LEMMA EventMoves ==
  ASSUME TypeOK, [Next]_vars, ~(Attach \/ CreateSucceeded), d.stage = "ready"
  PROVE  \/ /\ UNCHANGED queue /\ saw'.heard = saw.heard
            /\ srv'.ran = srv.ran /\ srv'.role = srv.role /\ srv'.status = srv.status
            /\ srv'.emitted = srv.emitted
            /\ d'.role = d.role /\ d'.status = d.status
         \/ updateProperties \/ Notify \/ HandleResult
         \/ AnswerGetAll \/ TakeRun \/ ChangeStatus
         \/ \E x \in DBusSignal : EmitResult(x)
<1> DEFINE Same == /\ UNCHANGED queue /\ saw'.heard = saw.heard
                   /\ srv'.ran = srv.ran /\ srv'.role = srv.role /\ srv'.status = srv.status
                   /\ srv'.emitted = srv.emitted
                   /\ d'.role = d.role /\ d'.status = d.status
<1>1. ASSUME NEW s \in Listened, Connect(s)  PROVE Same
  BY <1>1 DEF Connect, connectNotify, TypeOK, Private
<1>2. ASSUME NEW l \in HintLists, SetTransactionHints(l) \/ SetGlobalHints(l)  PROVE Same
  BY <1>2 DEF SetTransactionHints, SetGlobalHints, TypeOK, Private
<1>3. ASSUME TakeHints  PROVE Same
  BY <1>3 DEF TakeHints, Serve, TypeOK, Served
<1>4. ASSUME UNCHANGED vars \/ Forward \/ Subscribe  PROVE Same
  BY <1>4 DEF vars, Forward, Subscribe
<1>5. ~AnswerCreate /\ ~(\E f \in Requests : Create(f))
  BY DEF AnswerCreate, Create
<1> QED  BY <1>1, <1>2, <1>3, <1>4, <1>5 DEF Next, Application, EventLoop, Daemon

(* Once the method runs, the client receives the signals it sees.          *)
LEMMA SeesRunning ==
  ASSUME TypeOK, CallInv, request # "none", NEW x, Sees(x), Running \/ TakeRun
  PROVE  x \in matched
<1>1. wire \in Seq(Sent) /\ inbox \in Seq(Call)
  BY DEF TypeOK, Sent
<1>2. CASE Running
  BY <1>2 DEF CallInv, Running, Sees
<1>3. CASE TakeRun
  <2>1. inbox # <<>> /\ Head(inbox).kind = "Run"
    BY <1>3 DEF TakeRun, Serve
  <2> QED  BY <1>1, <2>1, AheadServed DEF Sees
<1> QED  BY <1>2, <1>3

(* The values of role and status are the last ones that the client has or  *)
(* will receive.                                                           *)
LEMMA SettleStep ==
  ASSUME TypeOK, BeforeSetup, AfterSetup, CallInv, SettleInv, [Next]_vars
  PROVE  SettleInv'
<1> DEFINE PC == "PropertiesChanged"
<1>1. queue \in Seq(Event) /\ srv.role \in Role /\ srv.status \in 0..MaxStatus
  BY DEF TypeOK, Served
<1> SUFFICES ASSUME request' # "none"
             PROVE  /\ Sees(PC)'
                    /\ Settles("Status", srv'.status, d'.status, queue')
                    /\ srv'.ran # NotRun => Settles("Role", srv'.role, d'.role, queue')
  BY DEF SettleInv
<1>2. CASE d'.stage # "ready"
  <2>1. /\ wire' = <<>> /\ inbox' = <<>> /\ srv'.ran = NotRun /\ srv'.status = 0 /\ d'.status = 0
        /\ queue' = <<>> \/ queue' = <<Message("tid")>>
    BY <1>2, BeforeStep DEF BeforeSetup
  <2>2. \A i \in DOMAIN queue' : queue'[i].kind = "tid"
    BY <2>1 DEF Message
  <2>3. Settles("Status", srv'.status, d'.status, queue')
    BY <2>1, <2>2 DEF Settles, Carries
  <2>4. Ahead(Subscribing(PC), <<>>, <<>>)
    BY DEF Ahead
  <2>5. Ahead(Subscribing(PC), inbox, wire)'
    BY <2>1, <2>4 DEF Subscribing
  <2> QED  BY <2>1, <2>3, <2>5 DEF Sees
<1>3. CASE Attach \/ CreateSucceeded
  <2>1. /\ wire' = setupMessages(Target) /\ inbox' = <<>> /\ srv'.ran = NotRun /\ queue' = <<>>
        /\ srv'.status = 0 /\ d.stage # "ready"
        /\ d' = [d EXCEPT !.stage = "ready", !.hints = <<Target>>, !.relays = signalRelays]
    BY <1>3, SetupStep
  <2>2. d'.status = 0
    BY <2>1 DEF BeforeSetup, TypeOK, Private
  <2>3. Settles("Status", srv'.status, d'.status, queue')
    BY <2>1, <2>2 DEF Settles
  <2>4. Target \in HintList
    BY HintsTyped
  <2>5. setupMessages(Target)[4] \in Subscribing(PC) /\ 4 \in 1..(4 + Len(d.connected))
    <3>1. setupMessages(Target)[4] = Watch(<<PC>>) /\ Len(d.connected) \in Nat
      BY <2>4, Burst DEF TypeOK
    <3>2. Watch(<<PC>>).signals = <<PC>> /\ PC \in Range(<<PC>>)
      BY DEF Watch, Range
    <3> QED  BY <3>1, <3>2, MessagesTyped DEF Subscribing
  <2>6. Ahead(Subscribing(PC), <<>>, setupMessages(Target))
    BY <2>4, <2>5, BurstAhead
  <2>7. Ahead(Subscribing(PC), inbox, wire)'
    BY <2>1, <2>6 DEF Subscribing
  <2> QED  BY <2>1, <2>3, <2>7 DEF Sees
<1>4. CASE d'.stage = "ready" /\ ~(Attach \/ CreateSucceeded)
  <2>1. d.stage = "ready" /\ request' = request
    <3>1. d.stage = "ready"
      BY <1>4, StageKept
    <3> QED  BY <1>4, <3>1, ReadyStep
  <2>2. /\ Sees(PC)
        /\ Settles("Status", srv.status, d.status, queue)
        /\ srv.ran # NotRun => Settles("Role", srv.role, d.role, queue)
    BY <2>1 DEF SettleInv
  <2>3. Sees(PC)'
    BY <1>4, <2>2, SeesStep
  <2> SUFFICES /\ Settles("Status", srv'.status, d'.status, queue')
               /\ srv'.ran # NotRun => Settles("Role", srv'.role, d'.role, queue')
    BY <2>3
  <2>4. ASSUME queue # <<>>, NEW more \in Seq(Event), queue' = Tail(queue) \o more,
               \A i \in DOMAIN more : more[i].kind # "properties", srv' = srv,
               d'.status = IF Carries(Head(queue), "Status") THEN Head(queue).values["Status"] ELSE d.status,
               d'.role = IF Carries(Head(queue), "Role") THEN Head(queue).values["Role"] ELSE d.role
        PROVE  /\ Settles("Status", srv'.status, d'.status, queue')
               /\ srv'.ran # NotRun => Settles("Role", srv'.role, d'.role, queue')
    <3>1. \A p : \A i \in DOMAIN more : ~Carries(more[i], p)
      BY <2>4 DEF Carries
    <3>2. Settles("Status", srv.status, d'.status, queue')
      BY <1>1, <2>2, <2>4, <3>1, SettlesHandled
    <3>3. srv.ran # NotRun => Settles("Role", srv.role, d'.role, queue')
      BY <1>1, <2>2, <2>4, <3>1, SettlesHandled
    <3> QED  BY <2>4, <3>2, <3>3
  <2>5. CASE updateProperties
    <3> DEFINE more == Posts(Head(queue).values)
    <3>1. queue # <<>> /\ queue' = Tail(queue) \o more
      BY <2>5 DEF updateProperties, Handling
    <3>2. more \in Seq(Event) /\ \A i \in DOMAIN more : more[i].kind # "properties"
      BY PostsTyped
    <3>3. /\ srv' = srv
          /\ d'.status = IF Carries(Head(queue), "Status") THEN Head(queue).values["Status"] ELSE d.status
          /\ d'.role = IF Carries(Head(queue), "Role") THEN Head(queue).values["Role"] ELSE d.role
      BY <2>5, UpdateStep
    <3> HIDE DEF more
    <3> QED  BY <2>4, <3>1, <3>2, <3>3
  <2>6. CASE Notify \/ HandleResult
    <3>1. /\ queue # <<>> /\ queue' = Tail(queue) /\ Head(queue).kind # "properties"
          /\ UNCHANGED <<d, srv>>
      BY <2>6 DEF Notify, HandleResult, Handling
    <3>2. <<>> \in Seq(Event) /\ Tail(queue) = Tail(queue) \o <<>>
      BY <1>1, <3>1
    <3> DEFINE more == <<>>
    <3>3. \A i \in DOMAIN more : more[i].kind # "properties"
      OBVIOUS
    <3>4. more \in Seq(Event) /\ queue' = Tail(queue) \o more
      BY <3>1, <3>2
    <3> HIDE DEF more
    <3> QED  BY <2>4, <3>1, <3>3, <3>4 DEF Carries
  <2>7. CASE AnswerGetAll
    <3> DEFINE e == Properties([RemainingTime |-> 0, Role |-> srv.role, Status |-> srv.status])
    <3>1. /\ e \in Event /\ Carries(e, "Role") /\ Carries(e, "Status")
          /\ e.values["Role"] = srv.role /\ e.values["Status"] = srv.status
      BY <1>1, EventsTyped DEF Carries, Properties
    <3>2. queue' = Append(queue, e) /\ UNCHANGED <<srv, d>>
      BY <2>7 DEF AnswerGetAll, Serve
    <3> HIDE DEF e
    <3> QED  BY <1>1, <3>1, <3>2, SettlesAppended
  <2>8. CASE TakeRun
    <3>1. PICK r \in Role :
            /\ srv'.role = r /\ srv'.status = srv.status
            /\ Emit(PC, Properties([Role |-> r])) /\ UNCHANGED <<d, saw, matched>>
      BY <2>8, RunStep
    <3> DEFINE e == Properties([Role |-> r])
    <3>2. PC \in matched
      BY <2>1, <2>2, <2>8, SeesRunning
    <3>3. e \in Event /\ Carries(e, "Role") /\ e.values["Role"] = r /\ ~Carries(e, "Status")
      BY EventsTyped DEF Carries, Properties
    <3>4. queue' = Append(queue, e)
      BY <3>1, <3>2 DEF Emit
    <3> HIDE DEF e
    <3> QED  BY <1>1, <2>2, <3>1, <3>3, <3>4, SettlesAppended
  <2>9. CASE ChangeStatus
    <3> DEFINE e == Properties([Status |-> srv.status + 1])
    <3>1. srv.status + 1 \in 0..MaxStatus
      BY <1>1, <2>9, SetupBoundsAssumption DEF ChangeStatus
    <3>2. PC \in matched
      BY <2>1, <2>2, <2>9, SeesRunning DEF ChangeStatus
    <3>3. /\ e \in Event /\ Carries(e, "Status") /\ e.values["Status"] = srv.status + 1
          /\ ~Carries(e, "Role")
      BY <3>1, EventsTyped DEF Carries, Properties
    <3>4. /\ queue' = Append(queue, e) /\ d' = d
          /\ srv'.status = srv.status + 1 /\ srv'.role = srv.role /\ srv'.ran = srv.ran
      BY <2>9, <3>2 DEF ChangeStatus, Emit, TypeOK, Served
    <3> HIDE DEF e
    <3> QED  BY <1>1, <2>2, <3>3, <3>4, SettlesAppended
  <2>10. ASSUME NEW x \in DBusSignal, EmitResult(x)
         PROVE  /\ Settles("Status", srv'.status, d'.status, queue')
                /\ srv'.ran # NotRun => Settles("Role", srv'.role, d'.role, queue')
    <3>1. Result(x) \in Event /\ \A p : ~Carries(Result(x), p)
      BY EventsTyped DEF Result, Carries
    <3>2. /\ queue' = queue \/ queue' = Append(queue, Result(x))
          /\ d' = d /\ srv'.status = srv.status /\ srv'.role = srv.role /\ srv'.ran = srv.ran
      BY <2>10 DEF EmitResult, Emit, TypeOK, Served
    <3>3. CASE queue' = queue
      BY <2>2, <3>2, <3>3
    <3>4. CASE queue' = Append(queue, Result(x))
      BY <1>1, <2>2, <3>1, <3>2, <3>4, SettlesAppended
    <3> QED  BY <3>2, <3>3, <3>4
  <2>11. CASE /\ UNCHANGED queue
              /\ srv'.ran = srv.ran /\ srv'.role = srv.role /\ srv'.status = srv.status
              /\ d'.role = d.role /\ d'.status = d.status
    BY <2>2, <2>11
  <2> QED  BY <1>4, <2>1, <2>5, <2>6, <2>7, <2>8, <2>9, <2>10, <2>11, EventMoves
<1> QED  BY <1>2, <1>3, <1>4

(***************************************************************************)
(* The results                                                             *)
(***************************************************************************)
(* Every D-Bus signal behind a connected signal is relayed once.           *)
LEMMA RelayStep ==
  ASSUME TypeOK, BeforeSetup, AfterSetup, RelayInv, [Next]_vars
  PROVE  RelayInv'
<1> DEFINE Behinds(c, x) == \E i \in DOMAIN c : x \in Range(Relayed(c[i]))
<1>1. d.connected \in Seq(Listened) /\ d.relays \in [DBusSignal -> Nat]
  BY DEF TypeOK, Private
<1> SUFFICES ASSUME NEW x \in DBusSignal
             PROVE  d'.relays[x] = IF d'.stage = "ready" /\ Behinds(d'.connected, x) THEN 1 ELSE 0
  BY DEF RelayInv
<1>2. CASE d'.stage # "ready"
  BY <1>2, BeforeStep DEF BeforeSetup
<1>3. CASE Attach \/ CreateSucceeded
  <2>1. d' = [d EXCEPT !.stage = "ready", !.hints = <<Target>>, !.relays = signalRelays]
    BY <1>3, SetupStep
  <2>2. d'.stage = "ready" /\ d'.relays = signalRelays /\ d'.connected = d.connected
    BY <2>1 DEF TypeOK, Private
  <2> QED  BY <2>2, RelaysCounted
<1>4. CASE d'.stage = "ready" /\ ~(Attach \/ CreateSucceeded)
  <2>1. d.stage = "ready"
    BY <1>4, StageKept
  <2>2. d.relays[x] = IF Behinds(d.connected, x) THEN 1 ELSE 0
    BY <2>1 DEF RelayInv
  <2>3. CASE UNCHANGED <<d.relays, d.connected>>
    BY <1>4, <2>2, <2>3
  <2>4. ASSUME NEW s \in Listened, s \notin Range(d.connected),
               d' = [d EXCEPT !.connected = Append(@, s), !.relays = Relay(@, s)]
        PROVE  d'.relays[x] = IF Behinds(d'.connected, x) THEN 1 ELSE 0
    <3>1. d'.connected = Append(d.connected, s) /\ d'.relays = Relay(d.relays, s)
      BY <2>4 DEF TypeOK, Private
    <3>2. d'.relays[x] = d.relays[x] + IF x \in Range(Relayed(s)) THEN 1 ELSE 0
      BY <3>1 DEF Relay
    <3>3. /\ Len(d.connected) \in Nat /\ DOMAIN d.connected = 1..Len(d.connected)
          /\ DOMAIN d'.connected = 1..(Len(d.connected) + 1)
          /\ d'.connected[Len(d.connected) + 1] = s
          /\ \A i \in DOMAIN d.connected : i \in DOMAIN d'.connected /\ d'.connected[i] = d.connected[i]
      BY <1>1, <3>1, Appended
    <3>4. Behinds(d'.connected, x) <=> Behinds(d.connected, x) \/ x \in Range(Relayed(s))
      <4>1. ASSUME Behinds(d.connected, x)  PROVE Behinds(d'.connected, x)
        BY <3>3, <4>1
      <4>2. ASSUME x \in Range(Relayed(s))  PROVE Behinds(d'.connected, x)
        <5>1. Len(d.connected) + 1 \in DOMAIN d'.connected
          BY <3>3
        <5> QED  BY <3>3, <4>2, <5>1
      <4>3. ASSUME NEW i \in DOMAIN d'.connected, x \in Range(Relayed(d'.connected[i]))
            PROVE  Behinds(d.connected, x) \/ x \in Range(Relayed(s))
        <5>1. i \in DOMAIN d.connected \/ i = Len(d.connected) + 1
          BY <3>3
        <5> QED  BY <3>3, <4>3, <5>1
      <4> QED  BY <4>1, <4>2, <4>3
    <3>5. ~(Behinds(d.connected, x) /\ x \in Range(Relayed(s)))
      <4> SUFFICES ASSUME NEW i \in DOMAIN d.connected, x \in Range(Relayed(d.connected[i])),
                          x \in Range(Relayed(s))
                   PROVE  FALSE
        OBVIOUS
      <4>1. d.connected[i] \in Listened
        BY <1>1
      <4>2. /\ d.connected[i] \in DOMAIN Behind /\ s \in DOMAIN Behind
            /\ x \in Range(Behind[d.connected[i]]) /\ x \in Range(Behind[s])
        BY <4>1, RelayedTyped
      <4>3. d.connected[i] = s
        BY <4>2, BehindDiffer
      <4> QED  BY <2>4, <4>3 DEF Range
    <3> HIDE DEF Behinds
    <3> QED  BY <2>2, <3>2, <3>4, <3>5
  <2>5. \/ UNCHANGED <<d.relays, d.connected>>
        \/ \E s \in Listened :
             /\ s \notin Range(d.connected)
             /\ d' = [d EXCEPT !.connected = Append(@, s), !.relays = Relay(@, s)]
    <3>1. ASSUME NEW s \in Listened, Connect(s)
          PROVE  \/ UNCHANGED d
                 \/ /\ s \notin Range(d.connected)
                    /\ d' = [d EXCEPT !.connected = Append(@, s), !.relays = Relay(@, s)]
      BY <2>1, <3>1 DEF Connect, connectNotify
    <3>2. ASSUME NEW l \in HintLists, SetTransactionHints(l)  PROVE UNCHANGED <<d.relays, d.connected>>
      BY <3>2 DEF SetTransactionHints, TypeOK, Private
    <3>3. ASSUME updateProperties  PROVE UNCHANGED <<d.relays, d.connected>>
      BY <3>3 DEF updateProperties, TypeOK, Private
    <3>4. \/ UNCHANGED d \/ updateProperties
          \/ (\E s \in Listened : Connect(s))
          \/ (\E l \in HintLists : SetTransactionHints(l))
      BY <1>4, <2>1 DEF vars, Next, Application, Create, EventLoop, Daemon, SetGlobalHints, Notify,
         HandleResult, Forward, Subscribe, AnswerCreate, TakeHints, AnswerGetAll, TakeRun, Serve,
         ChangeStatus, EmitResult
    <3> QED  BY <3>1, <3>2, <3>3, <3>4
  <2> QED  BY <1>4, <2>3, <2>4, <2>5
<1> QED  BY <1>2, <1>3, <1>4

(* An event is handled: if it is the result, it is no longer on its way.   *)
LEMMA OnceHandled ==
  ASSUME NEW q \in Seq(Event), q # <<>>, NEW more \in Seq(Event),
         NEW r, r = Tail(q) \o more, NEW x, NEW emitted, NEW heard,
         \A i \in DOMAIN more : more[i] # Result(x),
         Once(x, emitted, heard, q)
  PROVE  /\ Head(q) # Result(x) => Once(x, emitted, heard, r)
         /\ Head(q) # Result(x) /\ Arrives(x, emitted, heard, q) => Arrives(x, emitted, heard, r)
         /\ Head(q) = Result(x) => heard = 0 /\ Once(x, emitted, 0, r) /\ Once(x, emitted, 1, r)
<1> DEFINE n == Len(q) - 1
<1>1. /\ n \in Nat /\ Len(more) \in Nat /\ DOMAIN q = 1..(n + 1) /\ Head(q) = q[1]
      /\ DOMAIN r = 1..(n + Len(more))
      /\ \A i \in 1..n : r[i] = q[i + 1]
      /\ \A i \in DOMAIN r : i > n => i - n \in DOMAIN more /\ r[i] = more[i - n]
  BY Handled
<1> HIDE DEF n
<1>2. ASSUME NEW i \in DOMAIN r, r[i] = Result(x)
      PROVE  i \in 1..n /\ i + 1 \in DOMAIN q /\ q[i + 1] = Result(x)
  <2>1. ~(i > n)
    BY <1>1, <1>2
  <2> QED  BY <1>1, <1>2, <2>1
<1>3. ASSUME NEW i \in DOMAIN r, r[i] = Result(x), NEW j \in DOMAIN r, r[j] = Result(x)
      PROVE  x \in emitted /\ j = i /\ heard # 1
  <2>1. i + 1 = j + 1 /\ x \in emitted /\ heard # 1
    BY <1>2, <1>3 DEF Once
  <2>2. i \in Int /\ j \in Int
    BY <1>1
  <2> QED  BY <2>1, <2>2
<1>4. Once(x, emitted, heard, r)
  BY <1>3 DEF Once
<1>5. ASSUME Head(q) # Result(x), Arrives(x, emitted, heard, q)  PROVE Arrives(x, emitted, heard, r)
  <2>1. ASSUME NEW i \in DOMAIN q, q[i] = Result(x)  PROVE \E j \in DOMAIN r : r[j] = Result(x)
    <3>1. i # 1
      BY <1>1, <1>5, <2>1
    <3>2. i - 1 \in 1..n /\ (i - 1) + 1 = i /\ i - 1 \in DOMAIN r
      BY <1>1, <2>1, <3>1
    <3>3. r[i - 1] = q[(i - 1) + 1]
      BY <1>1, <3>2
    <3> QED  BY <2>1, <3>2, <3>3
  <2> QED  BY <1>5, <2>1 DEF Arrives
<1>6. ASSUME Head(q) = Result(x)  PROVE heard = 0 /\ Once(x, emitted, 0, r) /\ Once(x, emitted, 1, r)
  <2>1. 1 \in DOMAIN q /\ q[1] = Result(x)
    BY <1>1, <1>6
  <2>2. x \in emitted /\ heard = 0
    BY <2>1 DEF Once
  <2>3. ASSUME NEW i \in DOMAIN r, r[i] = Result(x)  PROVE FALSE
    <3>1. i + 1 = 1 /\ i \in 1..n
      BY <1>2, <2>1, <2>3 DEF Once
    <3> QED  BY <1>1, <3>1
  <2> QED  BY <2>2, <2>3 DEF Once
<1> QED  BY <1>4, <1>5, <1>6

(* An event is posted: another one, or the result when it is emitted.      *)
LEMMA OnceAppended ==
  ASSUME NEW q \in Seq(Event), NEW e \in Event, NEW x, NEW emitted, NEW heard,
         Once(x, emitted, heard, q)
  PROVE  /\ e # Result(x) => Once(x, emitted, heard, Append(q, e))
         /\ Arrives(x, emitted, heard, q) => Arrives(x, emitted, heard, Append(q, e))
         /\ e = Result(x) /\ x \notin emitted =>
              \A more : x \in more => /\ Once(x, more, heard, Append(q, e))
                                      /\ Arrives(x, more, heard, Append(q, e))
<1> DEFINE r == Append(q, e)
           n == Len(q)
<1>1. /\ n \in Nat /\ DOMAIN q = 1..n /\ DOMAIN r = 1..(n + 1) /\ r[n + 1] = e
      /\ \A i \in 1..n : r[i] = q[i]
  BY Appended
<1> HIDE DEF r, n
<1>2. ASSUME e # Result(x)  PROVE Once(x, emitted, heard, r)
  <2>1. \A i \in DOMAIN r : r[i] = Result(x) => i \in DOMAIN q /\ q[i] = Result(x)
    BY <1>1, <1>2
  <2> QED  BY <2>1 DEF Once
<1>3. ASSUME Arrives(x, emitted, heard, q)  PROVE Arrives(x, emitted, heard, r)
  <2>1. \A i \in DOMAIN q : i \in DOMAIN r /\ r[i] = q[i]
    BY <1>1
  <2> QED  BY <1>3, <2>1 DEF Arrives
<1>4. ASSUME e = Result(x), x \notin emitted, NEW more, x \in more
      PROVE  Once(x, more, heard, r) /\ Arrives(x, more, heard, r)
  <2>1. heard \in {0, 1} /\ heard # 1 /\ \A i \in DOMAIN q : q[i] # Result(x)
    BY <1>4 DEF Once
  <2>2. \A i \in DOMAIN r : r[i] = Result(x) => i = n + 1
    BY <1>1, <2>1
  <2>3. n + 1 \in DOMAIN r /\ r[n + 1] = Result(x)
    BY <1>1, <1>4
  <2>4. Arrives(x, more, heard, r)
    BY <2>3 DEF Arrives
  <2>5. Once(x, more, heard, r)
    BY <1>4, <2>1, <2>2 DEF Once
  <2> QED  BY <2>4, <2>5
<1> QED  BY <1>2, <1>3, <1>4 DEF r

(* The daemon emits a result.                                              *)
LEMMA EmitStep ==
  ASSUME TypeOK, NEW y \in DBusSignal, EmitResult(y)
  PROVE  /\ y \notin srv.emitted /\ srv'.emitted = srv.emitted \cup {y} /\ Running
         /\ queue' = IF y \in matched THEN Append(queue, Result(y)) ELSE queue
         /\ Result(y) \in Event /\ saw' = saw /\ d' = d
  BY EventsTyped DEF EmitResult, Emit, TypeOK, Served

(* No two signals have the same result.                                    *)
LEMMA ResultsDiffer == \A x, y : Result(x) = Result(y) => x = y
<1>1. \A x : Result(x).signal = x
  BY DEF Result
<1> QED  BY <1>1

(* A result that is handled is counted.                                    *)
LEMMA HeardStep ==
  ASSUME TypeOK, RelayInv, HandleResult
  PROVE  \E y \in DBusSignal :
           /\ queue # <<>> /\ Head(queue) = Result(y) /\ queue' = Tail(queue)
           /\ d.relays[y] \in {0, 1}
           /\ saw'.heard[y] = saw.heard[y] + d.relays[y]
           /\ \A x \in DBusSignal : x # y => saw'.heard[x] = saw.heard[x]
           /\ srv' = srv
<1> DEFINE y == Head(queue).signal
<1>1. queue # <<>> /\ Head(queue) \in Event /\ Head(queue).kind = "result"
  BY HeadAndTail DEF TypeOK, HandleResult, Handling
<1>2. y \in DBusSignal /\ Head(queue) = Result(y)
  BY <1>1 DEF Event, Result
<1>3. saw' = [saw EXCEPT !.heard[y] = @ + d.relays[y]]
  BY DEF HandleResult
<1>4. d.relays[y] \in {0, 1}
  BY <1>2 DEF RelayInv
<1> HIDE DEF y
<1>5. saw'.heard = [saw.heard EXCEPT ![y] = @ + d.relays[y]]
  BY <1>3 DEF TypeOK
<1>6. saw.heard \in [DBusSignal -> Nat]
  BY DEF TypeOK
<1>7. /\ saw'.heard[y] = saw.heard[y] + d.relays[y]
      /\ \A x \in DBusSignal : x # y => saw'.heard[x] = saw.heard[x]
  BY <1>2, <1>5, <1>6
<1> QED  BY <1>1, <1>2, <1>4, <1>7 DEF HandleResult

(* Every result is posted at most once, and heard at most once.            *)
LEMMA OnceStep ==
  ASSUME TypeOK, BeforeSetup, AfterSetup, RelayInv, OnceInv, [Next]_vars
  PROVE  OnceInv'
<1>1. queue \in Seq(Event)
  BY DEF TypeOK
<1> SUFFICES ASSUME NEW x \in DBusSignal
             PROVE  Once(x, srv'.emitted, saw'.heard[x], queue')
  BY DEF OnceInv
<1>2. Once(x, srv.emitted, saw.heard[x], queue)
  BY DEF OnceInv
<1>3. CASE d'.stage # "ready"
  <2>1. saw'.heard[x] = 0 /\ (queue' = <<>> \/ queue' = <<Message("tid")>>)
    BY <1>3, BeforeStep DEF BeforeSetup
  <2>2. \A i \in DOMAIN queue' : queue'[i].kind = "tid"
    BY <2>1 DEF Message
  <2>3. \A i \in DOMAIN queue' : queue'[i] # Result(x)
    BY <2>2 DEF Result
  <2> QED  BY <2>1, <2>3 DEF Once
<1>4. CASE Attach \/ CreateSucceeded
  <2>1. queue' = <<>> /\ saw' = [saw EXCEPT !.early = Range(d.connected)] /\ d.stage # "ready"
    BY <1>4, SetupStep
  <2>2. saw'.heard[x] = 0
    BY <2>1 DEF BeforeSetup, TypeOK
  <2> QED  BY <2>1, <2>2 DEF Once
<1>5. CASE d'.stage = "ready" /\ ~(Attach \/ CreateSucceeded)
  <2>1. d.stage = "ready"
    BY <1>5, StageKept
  <2>2. CASE updateProperties
    <3> DEFINE more == Posts(Head(queue).values)
    <3>1. queue # <<>> /\ Head(queue).kind = "properties" /\ queue' = Tail(queue) \o more
      BY <2>2 DEF updateProperties, Handling
    <3>2. more \in Seq(Event) /\ \A i \in DOMAIN more : more[i].kind = "notify"
      BY PostsTyped
    <3>3. Head(queue) # Result(x) /\ \A i \in DOMAIN more : more[i] # Result(x)
      BY <3>1, <3>2 DEF Result
    <3>4. srv' = srv /\ saw'.heard = saw.heard
      BY <2>2 DEF updateProperties, TypeOK
    <3> HIDE DEF more
    <3>5. Once(x, srv.emitted, saw.heard[x], queue')
      BY <1>1, <1>2, <3>1, <3>2, <3>3, OnceHandled
    <3> QED  BY <3>4, <3>5
  <2>3. CASE Notify \/ HandleResult
    <3>1. queue # <<>> /\ queue' = Tail(queue) /\ srv' = srv
      BY <2>3 DEF Notify, HandleResult, Handling
    <3> DEFINE more == <<>>
    <3>2. more \in Seq(Event) /\ queue' = Tail(queue) \o more
      BY <1>1, <3>1
    <3>3. \A i \in DOMAIN more : more[i] # Result(x)
      OBVIOUS
    <3> HIDE DEF more
    <3>4. /\ Head(queue) # Result(x) => Once(x, srv.emitted, saw.heard[x], queue')
          /\ Head(queue) = Result(x) => /\ saw.heard[x] = 0 /\ Once(x, srv.emitted, 0, queue')
                                        /\ Once(x, srv.emitted, 1, queue')
      BY <1>1, <1>2, <3>1, <3>2, <3>3, OnceHandled
    <3>5. CASE Notify
      <4>1. Head(queue).kind = "notify" /\ saw'.heard = saw.heard
        BY <3>5 DEF Notify, Handling, TypeOK
      <4>2. Head(queue) # Result(x)
        BY <4>1 DEF Result
      <4> QED  BY <3>1, <3>4, <4>1, <4>2
    <3>6. CASE HandleResult
      <4>1. PICK y \in DBusSignal :
              /\ Head(queue) = Result(y) /\ d.relays[y] \in {0, 1}
              /\ saw'.heard[y] = saw.heard[y] + d.relays[y]
              /\ \A z \in DBusSignal : z # y => saw'.heard[z] = saw.heard[z]
        BY <3>6, HeardStep
      <4>2. CASE x = y
        <5>1. saw'.heard[x] \in {0, 1}
          BY <3>4, <4>1, <4>2
        <5> QED  BY <3>1, <3>4, <4>1, <4>2, <5>1
      <4>3. CASE x # y
        <5>1. Head(queue) # Result(x)
          BY <4>1, <4>3, ResultsDiffer
        <5> QED  BY <3>1, <3>4, <4>1, <4>3, <5>1
      <4> QED  BY <4>2, <4>3
    <3> QED  BY <2>3, <3>5, <3>6
  <2>4. CASE AnswerGetAll \/ TakeRun \/ ChangeStatus
    <3>1. /\ saw' = saw /\ srv'.emitted = srv.emitted
          /\ queue' = queue \/ \E e \in Event : queue' = Append(queue, e) /\ e.kind = "properties"
      BY <2>4, Replies
    <3>2. ASSUME NEW e \in Event, queue' = Append(queue, e), e.kind = "properties"
          PROVE  Once(x, srv.emitted, saw.heard[x], queue')
      <4>1. e # Result(x)
        BY <3>2 DEF Result
      <4> QED  BY <1>1, <1>2, <3>2, <4>1, OnceAppended
    <3> QED  BY <1>2, <3>1, <3>2
  <2>5. ASSUME NEW y \in DBusSignal, EmitResult(y)
        PROVE  Once(x, srv'.emitted, saw'.heard[x], queue')
    <3>1. /\ y \notin srv.emitted /\ srv'.emitted = srv.emitted \cup {y}
          /\ queue' = queue \/ queue' = Append(queue, Result(y))
          /\ Result(y) \in Event /\ saw' = saw
      BY <2>5, EmitStep
    <3>2. CASE queue' = queue
      <4>1. Once(x, srv.emitted \cup {y}, saw.heard[x], queue)
        BY <1>2 DEF Once
      <4> QED  BY <3>1, <3>2, <4>1
    <3>3. CASE queue' = Append(queue, Result(y)) /\ x = y
      <4>1. Result(y) = Result(x) /\ x \notin srv.emitted /\ x \in srv'.emitted
        BY <3>1, <3>3
      <4> QED  BY <1>1, <1>2, <3>1, <3>3, <4>1, OnceAppended
    <3>4. CASE queue' = Append(queue, Result(y)) /\ x # y
      <4>1. Result(y) # Result(x)
        BY <3>4, ResultsDiffer
      <4>2. Once(x, srv.emitted, saw.heard[x], Append(queue, Result(y)))
        BY <1>1, <1>2, <3>1, <4>1, OnceAppended
      <4>3. Once(x, srv.emitted \cup {y}, saw.heard[x], Append(queue, Result(y)))
        BY <4>2 DEF Once
      <4> QED  BY <3>1, <3>4, <4>3
    <3> QED  BY <3>1, <3>2, <3>3, <3>4
  <2>6. CASE UNCHANGED queue /\ saw'.heard = saw.heard /\ srv'.emitted = srv.emitted
    BY <1>2, <2>6
  <2> QED  BY <1>5, <2>1, <2>2, <2>3, <2>4, <2>5, <2>6, EventMoves
<1> QED  BY <1>3, <1>4, <1>5

(* A signal that was connected stays connected.                            *)
LEMMA ConnectedKept ==
  ASSUME TypeOK, [Next]_vars, ~(Attach \/ CreateSucceeded)
  PROVE  Range(d.connected) \subseteq Range(d'.connected)
<1>1. d.connected \in Seq(Listened)
  BY DEF TypeOK, Private
<1>2. ASSUME NEW s \in Listened, Connect(s)
      PROVE  d'.connected = d.connected \/ d'.connected = Append(d.connected, s)
  BY <1>2 DEF Connect, connectNotify, TypeOK, Private
<1>3. ASSUME NEW s \in Listened, d'.connected = Append(d.connected, s)
      PROVE  Range(d.connected) \subseteq Range(d'.connected)
  <2>1. \A i \in DOMAIN d.connected : i \in DOMAIN d'.connected /\ d'.connected[i] = d.connected[i]
    BY <1>1, <1>3, Appended
  <2> QED  BY <2>1 DEF Range
<1>4. \/ d'.connected = d.connected
      \/ \E s \in Listened : Connect(s)
  <2>1. ASSUME NEW f \in Requests, Create(f)  PROVE d'.connected = d.connected
    BY <2>1 DEF Create, TypeOK, Private
  <2>2. ASSUME NEW l \in HintLists, SetTransactionHints(l)  PROVE d'.connected = d.connected
    BY <2>2 DEF SetTransactionHints, TypeOK, Private
  <2>3. ASSUME updateProperties  PROVE d'.connected = d.connected
    BY <2>3 DEF updateProperties, TypeOK, Private
  <2>4. \/ UNCHANGED d \/ updateProperties
        \/ (\E f \in Requests : Create(f))
        \/ (\E s \in Listened : Connect(s))
        \/ (\E l \in HintLists : SetTransactionHints(l))
    BY DEF vars, Next, Application, EventLoop, Daemon, SetGlobalHints, Notify, HandleResult,
       Forward, Subscribe, AnswerCreate, TakeHints, AnswerGetAll, TakeRun, Serve, ChangeStatus,
       EmitResult
  <2> QED  BY <2>1, <2>2, <2>3, <2>4
<1> QED  BY <1>2, <1>3, <1>4

(* A result that a slot waits for is on its way or has been heard.         *)
LEMMA ArrivesStep ==
  ASSUME TypeOK, CallInv, RelayInv, OnceInv, [Next]_vars, ~(Attach \/ CreateSucceeded),
         d.stage = "ready", request # "none", NEW x \in DBusSignal, Sees(x),
         Arrives(x, srv.emitted, saw.heard[x], queue), NEW s \in Range(d.connected),
         x \in Range(Relayed(s))
  PROVE  Arrives(x, srv'.emitted, saw'.heard[x], queue')
<1>1. queue \in Seq(Event) /\ Once(x, srv.emitted, saw.heard[x], queue)
  BY DEF TypeOK, OnceInv
<1>2. d.relays[x] = 1
  BY DEF RelayInv, Range
<1>3. CASE updateProperties
  <2> DEFINE more == Posts(Head(queue).values)
  <2>1. queue # <<>> /\ Head(queue).kind = "properties" /\ queue' = Tail(queue) \o more
    BY <1>3 DEF updateProperties, Handling
  <2>2. more \in Seq(Event) /\ \A i \in DOMAIN more : more[i].kind = "notify"
    BY PostsTyped
  <2>3. Head(queue) # Result(x) /\ \A i \in DOMAIN more : more[i] # Result(x)
    BY <2>1, <2>2 DEF Result
  <2>4. srv' = srv /\ saw'.heard = saw.heard
    BY <1>3 DEF updateProperties, TypeOK
  <2> HIDE DEF more
  <2>5. Arrives(x, srv.emitted, saw.heard[x], queue')
    BY <1>1, <2>1, <2>2, <2>3, OnceHandled
  <2> QED  BY <2>4, <2>5
<1>4. CASE Notify \/ HandleResult
  <2>1. queue # <<>> /\ queue' = Tail(queue) /\ srv' = srv
    BY <1>4 DEF Notify, HandleResult, Handling
  <2> DEFINE more == <<>>
  <2>2. more \in Seq(Event) /\ queue' = Tail(queue) \o more
    BY <1>1, <2>1
  <2>3. \A i \in DOMAIN more : more[i] # Result(x)
    OBVIOUS
  <2> HIDE DEF more
  <2>4. /\ Head(queue) # Result(x) => Arrives(x, srv.emitted, saw.heard[x], queue')
        /\ Head(queue) = Result(x) => saw.heard[x] = 0
    BY <1>1, <2>1, <2>2, <2>3, OnceHandled
  <2>5. CASE Notify
    <3>1. Head(queue).kind = "notify" /\ saw'.heard = saw.heard
      BY <2>5 DEF Notify, Handling, TypeOK
    <3>2. Head(queue) # Result(x)
      BY <3>1 DEF Result
    <3> QED  BY <2>1, <2>4, <3>1, <3>2
  <2>6. CASE HandleResult
    <3>1. PICK y \in DBusSignal :
            /\ Head(queue) = Result(y)
            /\ saw'.heard[y] = saw.heard[y] + d.relays[y]
            /\ \A z \in DBusSignal : z # y => saw'.heard[z] = saw.heard[z]
      BY <2>6, HeardStep
    <3>2. CASE x = y
      BY <1>2, <2>4, <3>1, <3>2 DEF Arrives
    <3>3. CASE x # y
      <4>1. Head(queue) # Result(x)
        BY <3>1, <3>3, ResultsDiffer
      <4> QED  BY <2>1, <2>4, <3>1, <3>3, <4>1
    <3> QED  BY <3>2, <3>3
  <2> QED  BY <1>4, <2>5, <2>6
<1>5. CASE AnswerGetAll \/ TakeRun \/ ChangeStatus
  <2>1. /\ saw' = saw /\ srv'.emitted = srv.emitted
        /\ queue' = queue \/ \E e \in Event : queue' = Append(queue, e) /\ e.kind = "properties"
    BY <1>5, Replies
  <2>2. ASSUME NEW e \in Event, queue' = Append(queue, e)
        PROVE  Arrives(x, srv.emitted, saw.heard[x], queue')
    BY <1>1, <2>2, OnceAppended
  <2> QED  BY <2>1, <2>2
<1>6. ASSUME NEW y \in DBusSignal, EmitResult(y)
      PROVE  Arrives(x, srv'.emitted, saw'.heard[x], queue')
  <2>1. /\ y \notin srv.emitted /\ srv'.emitted = srv.emitted \cup {y} /\ Running
        /\ queue' = IF y \in matched THEN Append(queue, Result(y)) ELSE queue
        /\ Result(y) \in Event /\ saw' = saw
    BY <1>6, EmitStep
  <2>2. CASE x = y
    <3>1. queue' = Append(queue, Result(y)) /\ x \notin srv.emitted /\ x \in srv'.emitted
      BY <2>1, <2>2, SeesRunning
    <3>2. Arrives(x, srv'.emitted, saw.heard[x], Append(queue, Result(y)))
      BY <1>1, <2>1, <2>2, <3>1, OnceAppended
    <3> QED  BY <2>1, <3>1, <3>2
  <2>3. CASE x # y
    <3>1. Arrives(x, srv.emitted, saw.heard[x], queue')
      <4>1. Arrives(x, srv.emitted, saw.heard[x], Append(queue, Result(y)))
        BY <1>1, <2>1, OnceAppended
      <4> QED  BY <2>1, <4>1
    <3> QED  BY <2>1, <2>3, <3>1 DEF Arrives
  <2> QED  BY <2>2, <2>3
<1>7. CASE UNCHANGED queue /\ saw'.heard = saw.heard /\ srv'.emitted = srv.emitted
  BY <1>7
<1> QED  BY <1>3, <1>4, <1>5, <1>6, <1>7, EventMoves

(* The signals connected before setup() are subscribed to before the       *)
(* method is called.                                                       *)
LEMMA EarlyStep ==
  ASSUME TypeOK, BeforeSetup, AfterSetup, CallInv, RelayInv, OnceInv, EarlyInv, [Next]_vars
  PROVE  EarlyInv'
<1> SUFFICES ASSUME NEW s \in saw'.early, NEW x \in Range(Relayed(s))
             PROVE  /\ request' # "none" /\ d'.stage = "ready"
                    /\ s \in Range(d'.connected)
                    /\ Sees(x)'
                    /\ Arrives(x, srv'.emitted, saw'.heard[x], queue')
  BY DEF EarlyInv
<1>1. CASE d'.stage # "ready"
  BY <1>1, BeforeStep DEF BeforeSetup
<1>2. CASE Attach \/ CreateSucceeded
  <2> DEFINE b == setupMessages(Target)
             n == Len(d.connected)
  <2>1. /\ wire' = b /\ inbox' = <<>> /\ srv'.ran = NotRun /\ srv'.emitted = {}
        /\ saw' = [saw EXCEPT !.early = Range(d.connected)] /\ request' = request
        /\ d' = [d EXCEPT !.stage = "ready", !.hints = <<Target>>, !.relays = signalRelays]
        /\ request = "none" => d.connected = <<>>
    BY <1>2, SetupStep
  <2>2. /\ saw'.early = Range(d.connected) /\ d'.stage = "ready" /\ d'.connected = d.connected
    BY <2>1 DEF TypeOK, Private
  <2>3. PICK i \in DOMAIN d.connected : d.connected[i] = s
    BY <2>2 DEF Range
  <2>4. Target \in HintList /\ d.connected \in Seq(Listened)
    BY HintsTyped DEF TypeOK, Private
  <2>5. request' # "none" /\ s \in Listened
    BY <2>1, <2>3, <2>4
  <2>6. /\ n \in Nat /\ DOMAIN d.connected = 1..n
        /\ b[4 + i] = Watch(Relayed(d.connected[i]))
    BY <2>3, <2>4, Burst DEF TypeOK
  <2>7. b[4 + i] \in Subscribing(x)
    <3>1. Watch(Relayed(s)) \in Subscription /\ Watch(Relayed(s)).signals = Relayed(s)
      BY <2>5, MessagesTyped DEF Watch
    <3> QED  BY <2>3, <2>6, <3>1 DEF Subscribing
  <2>8. 4 + i \in 1..(4 + n)
    BY <2>3, <2>6
  <2>9. Ahead(Subscribing(x), <<>>, b)
    BY <2>4, <2>7, <2>8, BurstAhead
  <2>10. Sees(x)'
    <3>1. Ahead(Subscribing(x), inbox, wire)'
      BY <2>1, <2>9 DEF Subscribing
    <3> QED  BY <2>1, <3>1 DEF Sees
  <2> QED  BY <2>1, <2>2, <2>5, <2>10 DEF Arrives
<1>3. CASE d'.stage = "ready" /\ ~(Attach \/ CreateSucceeded)
  <2>1. d.stage = "ready"
    BY <1>3, StageKept
  <2>2. request' = request /\ saw'.early = saw.early
    BY <1>3, <2>1, ReadyStep
  <2>3. /\ request # "none" /\ s \in Range(d.connected) /\ Sees(x)
        /\ Arrives(x, srv.emitted, saw.heard[x], queue)
    BY <2>2 DEF EarlyInv
  <2>4. x \in DBusSignal
    <3>1. s \in Listened
      BY <2>2 DEF TypeOK
    <3> QED  BY <3>1, RelayedTyped DEF DBusSignal
  <2>5. Sees(x)'
    BY <1>3, <2>3, SeesStep
  <2>6. Arrives(x, srv'.emitted, saw'.heard[x], queue')
    BY <1>3, <2>1, <2>3, <2>4, ArrivesStep
  <2>7. s \in Range(d'.connected)
    BY <1>3, <2>3, ConnectedKept
  <2> QED  BY <1>3, <2>2, <2>3, <2>5, <2>6, <2>7
<1> QED  BY <1>1, <1>2, <1>3

(***************************************************************************)
(* The inductive invariant                                                 *)
(***************************************************************************)
Inv ==
  /\ TypeOK /\ BeforeSetup /\ AfterSetup
  /\ CallInv /\ HintInv /\ KnownInv /\ SettleInv
  /\ RelayInv /\ OnceInv /\ EarlyInv

(* At the beginning nothing has been sent.                                 *)
LEMMA InitInv == Init => Inv
<1> SUFFICES ASSUME Init  PROVE Inv
  OBVIOUS
<1>1. /\ request = "none" /\ wire = <<>> /\ inbox = <<>> /\ matched = {} /\ queue = <<>>
      /\ d.stage = "none" /\ d.role = "Unknown" /\ d.hints = <<>> /\ d.connected = <<>>
      /\ d.relays = [x \in DBusSignal |-> 0] /\ d.status = 0 /\ d.known = {}
      /\ app.hints = {}
      /\ srv.role = "Unknown" /\ srv.status = 0 /\ srv.ran = NotRun /\ srv.emitted = {}
      /\ saw.early = {} /\ saw.wanted = {} /\ saw.blind = {}
      /\ saw.heard = [x \in DBusSignal |-> 0]
  BY DEF Init
<1>2. TypeOK
  BY InitTyped
<1>3. BeforeSetup /\ AfterSetup /\ EarlyInv
  BY <1>1 DEF BeforeSetup, AfterSetup, EarlyInv
<1>4. CallInv /\ KnownInv /\ SettleInv
  BY <1>1 DEF CallInv, KnownInv, SettleInv
<1>5. HintInv
  BY <1>1 DEF HintInv, Ahead, Unhindered
<1>6. RelayInv /\ OnceInv
  BY <1>1 DEF RelayInv, OnceInv, Once
<1> QED  BY <1>2, <1>3, <1>4, <1>5, <1>6 DEF Inv

(* It holds in every reachable state.                                      *)
LEMMA InvInductive == Spec => []Inv
<1>1. Inv /\ [Next]_vars => Inv'
  BY TypeStep, BeforeStep, AfterStep, CallStep, HintStep, KnownStep, SettleStep, RelayStep,
     OnceStep, EarlyStep DEF Inv
<1> QED  BY <1>1, InitInv, PTL DEF Spec

(***************************************************************************)
(* What follows                                                            *)
(***************************************************************************)
(* The method that the daemon runs is that of the request, with its        *)
(* parameters, for every one of the factory methods.                       *)
THEOREM Delivered == Spec => []RequestDelivered
<1>1. Inv => RequestDelivered
  <2> SUFFICES ASSUME Inv, srv.ran # NotRun
               PROVE  /\ request # "none"
                      /\ srv.ran.reads = Factory[request].sets
                      /\ \A f \in DOMAIN Factory :
                           srv.ran.method = Dispatch[Factory[f].role].method => f = request
    BY DEF RequestDelivered
  <2>1. request # "none" /\ srv.ran = DispatchTable[Factory[request].role]
    BY DEF Inv, CallInv, Asked
  <2>2. request \in DOMAIN Factory
    BY <2>1, RequestsAssumption DEF Inv, TypeOK
  <2>3. srv.ran.reads = Factory[request].sets
    BY <2>1, <2>2, ParametersRead
  <2>4. ASSUME NEW f \in DOMAIN Factory, srv.ran.method = Dispatch[Factory[f].role].method
        PROVE  f = request
    <3>1. Factory[f].role = Factory[request].role
      BY <2>1, <2>2, <2>4, FactoryTyped, MethodsDiffer, RolesTyped
    <3> QED  BY <2>2, <3>1, RolesDiffer
  <2> QED  BY <2>1, <2>3, <2>4
<1> QED  BY <1>1, InvInductive, PTL

(* It runs with the hints that were asked for when the tid came, whatever  *)
(* hints are sent afterwards.                                              *)
THEOREM HintsRight == Spec => []HintsInEffect
<1>1. Inv => HintsInEffect
  BY DEF Inv, HintInv, HintsInEffect, Target
<1> QED  BY <1>1, InvInductive, PTL

(* No queued notification finds a member uninitialised.                    *)
THEOREM NotifiedReady == Spec => []QueuedMeansReady
<1>1. Inv => QueuedMeansReady
  BY DEF Inv, KnownInv, QueuedMeansReady
<1> QED  BY <1>1, InvInductive, PTL

(* role() and status() are right when everything has been handled.         *)
THEOREM PropertiesRight == Spec => []PropertiesConverge
<1>1. Inv => PropertiesConverge
  <2> SUFFICES ASSUME Inv, Quiet, request # "none"
               PROVE  d.role = srv.role /\ d.status = srv.status
    BY DEF PropertiesConverge
  <2>1. d.stage = "ready" /\ wire = <<>> /\ inbox = <<>> /\ queue = <<>>
    BY DEF Quiet
  <2>2. srv.ran # NotRun
    BY <2>1 DEF Inv, CallInv
  <2>3. Settles("Status", srv.status, d.status, <<>>) /\ Settles("Role", srv.role, d.role, <<>>)
    BY <2>1, <2>2 DEF Inv, SettleInv
  <2> QED  BY <2>3 DEF Settles
<1> QED  BY <1>1, InvInductive, PTL

(* The copies of a result on its way: one, or none.                        *)
LEMMA QueuedOnce ==
  ASSUME OnceInv, NEW x \in DBusSignal
  PROVE  /\ saw.heard[x] \in {0, 1} /\ Queued(x) \in {0, 1}
         /\ saw.heard[x] = 1 => Queued(x) = 0
         /\ (\E i \in DOMAIN queue : queue[i] = Result(x)) => Queued(x) = 1
<1> DEFINE at == {i \in DOMAIN queue : queue[i] = Result(x)}
<1>1. Once(x, srv.emitted, saw.heard[x], queue)
  BY DEF OnceInv
<1>2. CASE at = {}
  <2>1. Queued(x) = 0
    BY <1>2, FS_EmptySet DEF Queued
  <2> QED  BY <1>1, <1>2, <2>1 DEF Once
<1>3. CASE at # {}
  <2>1. PICK i \in DOMAIN queue : queue[i] = Result(x)
    BY <1>3
  <2>2. at = {i}
    BY <1>1, <2>1 DEF Once
  <2>3. Queued(x) = 1
    BY <2>2, FS_Singleton DEF Queued
  <2> QED  BY <1>1, <2>1, <2>3 DEF Once
<1> QED  BY <1>2, <1>3

(* No result is reported twice.                                            *)
THEOREM ReportedOnce == Spec => []ResultsOnce
<1>1. Inv => ResultsOnce
  <2> SUFFICES ASSUME Inv, NEW x \in DBusSignal  PROVE Copies(x) <= 1
    BY DEF ResultsOnce
  <2>1. d.relays[x] \in {0, 1}
    BY DEF Inv, RelayInv
  <2>2. /\ saw.heard[x] \in {0, 1} /\ Queued(x) \in {0, 1}
        /\ saw.heard[x] = 1 => Queued(x) = 0
    BY QueuedOnce DEF Inv
  <2>3. d.relays[x] * Queued(x) <= 1 /\ (Queued(x) = 0 => d.relays[x] * Queued(x) = 0)
        /\ d.relays[x] * Queued(x) \in Nat
    BY <2>1, <2>2
  <2>4. saw.heard[x] + d.relays[x] * Queued(x) <= 1
    BY <2>2, <2>3
  <2> QED  BY <2>4 DEF Copies
<1> QED  BY <1>1, InvInductive, PTL

(* No result is lost for a slot that was connected before the tid was      *)
(* known, unless it is the signal whose slot does not exist.               *)
THEOREM ResultsArrive ==
  ASSUME Listened \cap NoSuchSlot = {}
  PROVE  Spec => []EarlyResultsArrive
<1>1. Inv => EarlyResultsArrive
  <2> SUFFICES ASSUME Inv, NEW s \in saw.early, NEW x \in Range(Behind[s]), x \in srv.emitted
               PROVE  Copies(x) > 0
    BY DEF EarlyResultsArrive
  <2>1. s \in Listened
    BY DEF Inv, TypeOK
  <2>2. Relayed(s) = Behind[s] /\ x \in DBusSignal
    BY <2>1 DEF Relayed, DBusSignal
  <2>3. d.stage = "ready" /\ s \in Range(d.connected) /\ Arrives(x, srv.emitted, saw.heard[x], queue)
    BY <2>2 DEF Inv, EarlyInv
  <2>4. d.relays[x] = 1
    BY <2>2, <2>3 DEF Inv, RelayInv, Range
  <2>5. /\ saw.heard[x] \in {0, 1} /\ Queued(x) \in {0, 1}
        /\ saw.heard[x] = 1 \/ Queued(x) = 1
    BY <2>2, <2>3, QueuedOnce DEF Inv, Arrives
  <2>6. saw.heard[x] + 1 * Queued(x) > 0
    BY <2>5
  <2> QED  BY <2>4, <2>6 DEF Copies
<1> QED  BY <1>1, InvInductive, PTL
=============================================================================

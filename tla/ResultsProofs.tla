---------------------------- MODULE ResultsProofs ----------------------------
(***************************************************************************)
(* Proofs about Results: the groups of a search arrive, the ids of         *)
(* packages can be cut, and as long as the daemon puts no severities into  *)
(* lists of packages, the application is told every result once, in the    *)
(* daemon's order and with its state.                                      *)
(***************************************************************************)
EXTENDS Results, NamesProofs

(* What the application may be told.                                       *)
Told == {Meaning(r) : r \in Result}

Signal == [signal : {"Package", "Packages", "UpdateDetail", "UpdateDetails"},
           args : Seq({Encoded(r) : r \in Result})]

(***************************************************************************)
(* The inductive invariant                                                 *)
(***************************************************************************)
Typed ==
  /\ asked \subseteq Bits
  /\ reported \in Seq(Result)
  /\ queue \in Seq(Signal)
  /\ shown \in Seq(Told)

(* The slot of signal s tells the results in rs from position n on.        *)
TellsFrom(s, rs, n) ==
  /\ Slot(s) \in Seq(Told)
  /\ \A k \in 1..Len(Slot(s)) :
        n + k - 1 \in 1..Len(rs) /\ Slot(s)[k] = Meaning(rs[n + k - 1])

(* The signals on their way carry the results that have not been shown:    *)
(* signal i starts where the one in front of it ends.                      *)
Starts(at) ==
  /\ at[1] = Len(shown) + 1
  /\ at[Len(queue) + 1] = Len(reported) + 1
  /\ \A i \in 1..Len(queue) :
        TellsFrom(queue[i], reported, at[i]) /\ at[i + 1] = at[i] + Len(Slot(queue[i]))

Inv ==
  /\ Typed
  /\ \A n \in 1..Len(shown) : n \in 1..Len(reported) /\ shown[n] = Meaning(reported[n])
  /\ \E at \in [1..(Len(queue) + 1) -> Nat] : Starts(at)

(***************************************************************************)
(* Slots                                                                   *)
(***************************************************************************)
(* The two halves of the packed number.                                    *)
LEMMA Unpacked ==
  ASSUME NEW s \in Info, NEW i \in Info
  PROVE  infoReal(s * Half + i) = IF i = InfoUnknown THEN s ELSE i
<1>1. s \in 0..30 /\ i \in 0..30
  BY DEF Info
<1>2. (s * 65536 + i) \div 65536 = s
  BY <1>1
<1>3. (s * 65536 + i) % 65536 = i
  BY <1>1
<1> QED  BY <1>1, <1>2, <1>3 DEF infoReal, Half, InfoUnknown

(* A result is an update detail or a package with a state and a severity.  *)
LEMMA Kinds ==
  ASSUME NEW r \in Result
  PROVE  \/ r.kind = "updateDetail" /\ Encoded(r) = r /\ Meaning(r) = r
         \/ /\ r.kind = "package" /\ r.real \in Info /\ r.severity \in Info
            /\ Encoded(r) = [kind |-> "package", info |-> r.severity * Half + r.real, pid |-> r.pid]
            /\ Meaning(r) = [kind |-> "package", pid |-> r.pid,
                             info |-> IF r.real = InfoUnknown THEN r.severity ELSE r.real]
BY InfosAssumption DEF Result, Package, Encoded, Meaning

(* A single signal tells what its result means.                            *)
LEMMA SingleTold ==
  ASSUME NEW r \in Result
  PROVE  Single(r) \in Signal /\ Slot(Single(r)) = <<Meaning(r)>>
<1>1. Single(r) \in Signal
  BY Kinds DEF Single, Signal
<1>2. CASE r.kind = "updateDetail"
  BY <1>1, <1>2, Kinds DEF Single, Slot, UpdateDetail
<1>3. CASE r.kind = "package"
  <2>1. Slot(Single(r)) = PackageSlot(<<Encoded(r)>>)
    BY <1>3 DEF Single, Slot
  <2>2. infoReal(r.severity * Half + r.real) = IF r.real = InfoUnknown THEN r.severity ELSE r.real
    BY <1>3, Kinds, Unpacked
  <2>3. PackageSlot(<<Encoded(r)>>) = <<[Encoded(r) EXCEPT !.info = infoReal(Encoded(r).info)]>>
    BY DEF PackageSlot
  <2>4. [Encoded(r) EXCEPT !.info = infoReal(Encoded(r).info)] = Meaning(r)
    BY <1>3, <2>2, Kinds
  <2> QED  BY <1>1, <2>1, <2>3, <2>4
<1> QED  BY <1>2, <1>3, Kinds

(* So does a list, because its packages have no severity.                  *)
LEMMA PairTold ==
  ASSUME NEW r1 \in Result, NEW r2 \in Result, Batched(r1, r2), PackedBatches = FALSE
  PROVE  Pair(r1, r2) \in Signal /\ Slot(Pair(r1, r2)) = <<Meaning(r1), Meaning(r2)>>
<1>1. Pair(r1, r2) \in Signal
  BY Kinds DEF Pair, Signal
<1>2. CASE r1.kind = "updateDetail"
  BY <1>1, <1>2, Kinds DEF Pair, Slot, UpdateDetails, Batched
<1>3. CASE r1.kind = "package"
  <2>1. Slot(Pair(r1, r2)) = <<Encoded(r1), Encoded(r2)>>
    BY <1>3 DEF Pair, Slot, Packages
  <2>2. r2.kind = "package" /\ r1.severity = 0 /\ r2.severity = 0
    BY <1>3 DEF Batched
  <2>3. ASSUME NEW r \in {r1, r2}
        PROVE  Encoded(r) = Meaning(r)
    <3>1. r.kind = "package" /\ r.severity = 0 /\ r.real \in 0..30 /\ r \in Result
      BY <1>3, <2>2, Kinds DEF Info
    <3>2. r.severity * Half + r.real = r.real
      BY <3>1 DEF Half
    <3>3. (IF r.real = InfoUnknown THEN r.severity ELSE r.real) = r.real
      BY <3>1 DEF InfoUnknown
    <3> QED  BY <3>1, <3>2, <3>3, Kinds
  <2> QED  BY <1>1, <2>1, <2>3
<1> QED  BY <1>2, <1>3, Kinds

(***************************************************************************)
(* Every step preserves the invariant                                      *)
(***************************************************************************)
LEMMA InitInv == Init => Inv
<1> SUFFICES ASSUME Init
             PROVE  Inv
  OBVIOUS
<1>1. Typed /\ Len(queue) = 0 /\ Len(shown) = 0 /\ Len(reported) = 0
  BY DEF Init, Typed
<1>2. Starts([i \in 1..(Len(queue) + 1) |-> 1])
  BY <1>1 DEF Starts
<1>3. [i \in 1..(Len(queue) + 1) |-> 1] \in [1..(Len(queue) + 1) -> Nat]
  OBVIOUS
<1> QED  BY <1>1, <1>2, <1>3 DEF Inv

(* A signal is posted that tells the results added to reported.            *)
LEMMA Posted ==
  ASSUME Inv, NEW s \in Signal, NEW more \in Seq(Result), Slot(s) \in Seq(Told),
         Len(Slot(s)) = Len(more), \A k \in 1..Len(more) : Slot(s)[k] = Meaning(more[k]),
         NEW rs, rs = reported \o more, reported' = rs, queue' = Append(queue, s),
         UNCHANGED <<asked, shown>>
  PROVE  Inv'
<1>1. /\ Len(reported) \in Nat /\ Len(more) \in Nat /\ Len(queue) \in Nat /\ Len(shown) \in Nat
      /\ rs \in Seq(Result) /\ Len(rs) = Len(reported) + Len(more)
      /\ \A n \in 1..Len(reported) : rs[n] = reported[n]
      /\ \A k \in 1..Len(more) : rs[Len(reported) + k] = more[k]
  BY DEF Inv, Typed
<1>2. /\ Len(queue') = Len(queue) + 1 /\ queue' \in Seq(Signal)
      /\ \A i \in 1..Len(queue) : queue'[i] = queue[i]
      /\ queue'[Len(queue) + 1] = s
  BY DEF Inv, Typed
<1>3. Typed'
  BY <1>1, <1>2 DEF Inv, Typed
<1>4. (\A n \in 1..Len(shown) : n \in 1..Len(reported) /\ shown[n] = Meaning(reported[n]))'
  BY <1>1 DEF Inv
<1>5. PICK at \in [1..(Len(queue) + 1) -> Nat] : Starts(at)
  BY DEF Inv
<1>6. PICK now \in [1..(Len(queue) + 2) -> Nat] :
         /\ now[Len(queue) + 2] = Len(rs) + 1
         /\ \A i \in 1..(Len(queue) + 1) : now[i] = at[i]
  <2> DEFINE f == [i \in 1..(Len(queue) + 2) |-> IF i = Len(queue) + 2 THEN Len(rs) + 1 ELSE at[i]]
  <2>1. f \in [1..(Len(queue) + 2) -> Nat]
    BY <1>1
  <2>2. Len(queue) + 2 \in 1..(Len(queue) + 2) /\ 1..(Len(queue) + 1) \subseteq 1..(Len(queue) + 2)
    BY <1>1
  <2>3. f[Len(queue) + 2] = Len(rs) + 1 /\ \A i \in 1..(Len(queue) + 1) : f[i] = at[i]
    BY <1>1, <2>2
  <2> QED  BY <2>1, <2>3
<1>7. now[1] = at[1]
  BY <1>1, <1>6
<1>8. ASSUME NEW i \in 1..Len(queue)
      PROVE  TellsFrom(queue'[i], rs, now[i]) /\ now[i + 1] = now[i] + Len(Slot(queue'[i]))
  <2>1. TellsFrom(queue[i], reported, at[i]) /\ at[i + 1] = at[i] + Len(Slot(queue[i]))
    BY <1>5 DEF Starts
  <2>2. at[i] \in Nat /\ now[i] = at[i] /\ now[i + 1] = at[i + 1]
    <3>1. i \in 1..(Len(queue) + 1) /\ i + 1 \in 1..(Len(queue) + 1)
      BY <1>1
    <3> QED  BY <1>6, <3>1
  <2>3. queue'[i] = queue[i]
    BY <1>2
  <2>4. \A n \in 1..Len(reported) : n \in 1..Len(rs) /\ rs[n] = reported[n]
    BY <1>1
  <2>5. TellsFrom(queue[i], rs, at[i])
    BY <2>1, <2>4 DEF TellsFrom
  <2> QED  BY <2>1, <2>2, <2>3, <2>5
<1>9. /\ TellsFrom(s, rs, now[Len(queue) + 1])
      /\ now[Len(queue) + 2] = now[Len(queue) + 1] + Len(Slot(s))
  <2>1. now[Len(queue) + 1] = Len(reported) + 1
    <3>1. Len(queue) + 1 \in 1..(Len(queue) + 1)
      BY <1>1
    <3> QED  BY <1>5, <1>6, <3>1 DEF Starts
  <2>2. ASSUME NEW k \in 1..Len(Slot(s))
        PROVE  /\ Len(reported) + 1 + k - 1 \in 1..Len(rs)
               /\ Slot(s)[k] = Meaning(rs[Len(reported) + 1 + k - 1])
    <3>1. k \in 1..Len(more) /\ Len(reported) + 1 + k - 1 = Len(reported) + k
      BY <1>1
    <3> QED  BY <1>1, <3>1
  <2> QED  BY <1>1, <1>6, <2>1, <2>2 DEF TellsFrom
<1>10. Starts(now)'
  <2>1. now[1] = Len(shown') + 1
    BY <1>5, <1>7 DEF Starts
  <2>2. now[Len(queue') + 1] = Len(reported') + 1
    <3>1. Len(queue') + 1 = Len(queue) + 2
      BY <1>1, <1>2
    <3> QED  BY <1>6, <3>1
  <2>3. ASSUME NEW i \in 1..Len(queue')
        PROVE  TellsFrom(queue'[i], rs, now[i]) /\ now[i + 1] = now[i] + Len(Slot(queue'[i]))
    <3>1. CASE i = Len(queue) + 1
      <4>1. i + 1 = Len(queue) + 2 /\ queue'[i] = s
        BY <1>1, <1>2, <3>1
      <4> QED  BY <1>9, <3>1, <4>1
    <3>2. CASE i # Len(queue) + 1
      <4>1. i \in 1..Len(queue)
        BY <1>1, <1>2, <3>2
      <4> QED  BY <1>8, <4>1
    <3> QED  BY <3>1, <3>2
  <2> QED  BY <2>1, <2>2, <2>3 DEF Starts
<1>11. now \in [1..(Len(queue') + 1) -> Nat]
  <2>1. Len(queue') + 1 = Len(queue) + 2
    BY <1>1, <1>2
  <2> QED  BY <1>6, <2>1
<1> QED  BY <1>3, <1>4, <1>10, <1>11 DEF Inv

(* A signal is relayed: what it tells are the next results.                *)
LEMMA Relayed == Inv /\ Relay => Inv'
<1> SUFFICES ASSUME Inv, Relay
             PROVE  Inv'
  OBVIOUS
<1> DEFINE s == Head(queue)
           told == Slot(s)
<1>1. PICK at \in [1..(Len(queue) + 1) -> Nat] : Starts(at)
  BY DEF Inv
<1>2. /\ Len(queue) \in Nat \ {0} /\ queue' \in Seq(Signal) /\ Len(queue') = Len(queue) - 1
      /\ \A i \in 1..Len(queue') : queue'[i] = queue[i + 1]
      /\ s = queue[1]
  BY DEF Inv, Typed, Relay
<1>3. /\ reported' = reported /\ asked' = asked
      /\ shown' = shown \o told
  BY DEF Relay
<1>4. TellsFrom(s, reported, Len(shown) + 1) /\ at[2] = Len(shown) + 1 + Len(told)
  <2>1. 1 \in 1..Len(queue)
    BY <1>2
  <2>2. TellsFrom(queue[1], reported, at[1]) /\ at[1 + 1] = at[1] + Len(Slot(queue[1]))
    BY <1>1, <2>1 DEF Starts
  <2> QED  BY <1>1, <1>2, <2>2 DEF Starts
<1> HIDE DEF s, told
<1>5. /\ told \in Seq(Told)
      /\ \A k \in 1..Len(told) : /\ Len(shown) + 1 + k - 1 \in 1..Len(reported)
                                 /\ told[k] = Meaning(reported[Len(shown) + 1 + k - 1])
  BY <1>4 DEF TellsFrom, told
<1>6. /\ shown \in Seq(Told) /\ Len(shown) \in Nat /\ Len(told) \in Nat
      /\ shown' \in Seq(Told) /\ Len(shown') = Len(shown) + Len(told)
      /\ \A n \in 1..Len(shown) : shown'[n] = shown[n]
      /\ \A k \in 1..Len(told) : shown'[Len(shown) + k] = told[k]
  BY <1>3, <1>5 DEF Inv, Typed
<1>7. Typed'
  BY <1>2, <1>3, <1>6 DEF Inv, Typed
<1>8. ASSUME NEW n \in 1..Len(shown')
      PROVE  n \in 1..Len(reported) /\ shown'[n] = Meaning(reported[n])
  <2>1. CASE n \in 1..Len(shown)
    BY <1>6, <2>1 DEF Inv
  <2>2. CASE n \notin 1..Len(shown)
    <3>1. PICK k \in 1..Len(told) : n = Len(shown) + k
      <4>1. n - Len(shown) \in 1..Len(told) /\ n = Len(shown) + (n - Len(shown))
        BY <1>6, <2>2
      <4> QED  BY <4>1
    <3>2. Len(shown) + 1 + k - 1 = n
      BY <1>6, <3>1
    <3> QED  BY <1>5, <1>6, <3>1, <3>2
  <2> QED  BY <2>1, <2>2
<1>9. PICK now \in [1..Len(queue) -> Nat] : \A i \in 1..Len(queue) : now[i] = at[i + 1]
  <2> DEFINE f == [i \in 1..Len(queue) |-> at[i + 1]]
  <2>1. \A i \in 1..Len(queue) : i + 1 \in 1..(Len(queue) + 1)
    BY <1>2
  <2>2. f \in [1..Len(queue) -> Nat]
    BY <2>1
  <2> QED  BY <2>2
<1>10. Len(queue') + 1 = Len(queue)
  BY <1>2
<1>11. Starts(now)'
  <2>1. now[1] = Len(shown') + 1
    BY <1>2, <1>4, <1>6, <1>9
  <2>2. now[Len(queue') + 1] = Len(reported) + 1
    <3>1. Len(queue) \in 1..Len(queue)
      BY <1>2
    <3> QED  BY <1>1, <1>9, <1>10, <3>1 DEF Starts
  <2>3. ASSUME NEW i \in 1..Len(queue')
        PROVE  /\ TellsFrom(queue'[i], reported, now[i])
               /\ now[i + 1] = now[i] + Len(Slot(queue'[i]))
    <3>1. i + 1 \in 1..Len(queue) /\ queue'[i] = queue[i + 1]
      BY <1>2
    <3>2. now[i] = at[i + 1] /\ now[i + 1] = at[i + 1 + 1]
      <4>1. i \in 1..Len(queue) /\ i + 1 \in 1..Len(queue)
        BY <1>2
      <4> QED  BY <1>9, <4>1
    <3>3. TellsFrom(queue[i + 1], reported, at[i + 1])
          /\ at[i + 1 + 1] = at[i + 1] + Len(Slot(queue[i + 1]))
      BY <1>1, <3>1 DEF Starts
    <3> QED  BY <3>1, <3>2, <3>3
  <2> QED  BY <1>3, <2>1, <2>2, <2>3 DEF Starts
<1>12. now \in [1..(Len(queue') + 1) -> Nat]
  BY <1>9, <1>10
<1> QED  BY <1>3, <1>7, <1>8, <1>11, <1>12 DEF Inv

LEMMA NextInv ==
  ASSUME PackedBatches = FALSE, Inv, [Next]_vars
  PROVE  Inv'
<1>1. ASSUME NEW r \in Result, Report(r)
      PROVE  Inv'
  <2> DEFINE more == <<r>>
             rs == reported \o more
  <2>1. more \in Seq(Result) /\ Len(more) = 1 /\ more[1] = r
    OBVIOUS
  <2>2. reported' = rs
    BY <1>1 DEF Report, Inv, Typed
  <2>3. /\ Single(r) \in Signal /\ Slot(Single(r)) \in Seq(Told) /\ Len(Slot(Single(r))) = 1
        /\ Slot(Single(r))[1] = Meaning(r)
    <3>1. Single(r) \in Signal /\ Slot(Single(r)) = <<Meaning(r)>> /\ Meaning(r) \in Told
      BY SingleTold DEF Told
    <3> QED  BY <3>1
  <2> HIDE DEF more
  <2>4. \A k \in 1..Len(more) : Slot(Single(r))[k] = Meaning(more[k])
    BY <2>1, <2>3
  <2> QED  BY <1>1, <2>1, <2>2, <2>3, <2>4, Posted DEF Report
<1>2. ASSUME NEW r1 \in Result, NEW r2 \in Result, ReportTwo(r1, r2)
      PROVE  Inv'
  <2> DEFINE more == <<r1, r2>>
             rs == reported \o more
  <2>1. more \in Seq(Result) /\ Len(more) = 2 /\ more[1] = r1 /\ more[2] = r2
    OBVIOUS
  <2>2. reported' = rs
    BY <1>2 DEF ReportTwo
  <2>3. /\ Pair(r1, r2) \in Signal /\ Slot(Pair(r1, r2)) \in Seq(Told)
        /\ Len(Slot(Pair(r1, r2))) = 2
        /\ Slot(Pair(r1, r2))[1] = Meaning(r1) /\ Slot(Pair(r1, r2))[2] = Meaning(r2)
    <3>1. Pair(r1, r2) \in Signal /\ Slot(Pair(r1, r2)) = <<Meaning(r1), Meaning(r2)>>
      BY <1>2, PairTold DEF ReportTwo
    <3>2. Meaning(r1) \in Told /\ Meaning(r2) \in Told
      BY DEF Told
    <3> QED  BY <3>1, <3>2
  <2> HIDE DEF more
  <2>4. \A k \in 1..Len(more) : Slot(Pair(r1, r2))[k] = Meaning(more[k])
    BY <2>1, <2>3
  <2> QED  BY <1>2, <2>1, <2>2, <2>3, <2>4, Posted DEF ReportTwo
<1>3. ASSUME NEW g \in Bits, AddGroup(g)
      PROVE  Inv'
  BY <1>3 DEF AddGroup, SetBit, Inv, Typed, Starts
<1>4. CASE Search
  BY <1>4 DEF Search, Inv, Typed, Starts
<1>5. CASE UNCHANGED vars
  BY <1>5 DEF vars, Inv, Typed, Starts
<1> QED  BY <1>1, <1>2, <1>3, <1>4, <1>5, Relayed DEF Next

(***************************************************************************)
(* The theorems                                                            *)
(***************************************************************************)
(* Every reachable state is well-typed: no package is shown with a state   *)
(* that Transaction::Info does not have.                                   *)
THEOREM TypeCorrect ==
  ASSUME PackedBatches = FALSE
  PROVE  Spec => []TypeOK
<1>1. Inv => TypeOK
  <2> SUFFICES ASSUME Inv
               PROVE  TypeOK
    OBVIOUS
  <2>1. ASSUME NEW i \in DOMAIN queue
        PROVE  queue[i].signal \in {"Package", "Packages", "UpdateDetail", "UpdateDetails"}
    <3>1. queue[i] \in Signal
      BY DEF Inv, Typed
    <3> QED  BY <3>1 DEF Signal
  <2>2. ASSUME NEW i \in DOMAIN shown, shown[i].kind = "package"
        PROVE  shown[i].info \in Info
    <3>1. PICK r \in Result : shown[i] = Meaning(r)
      BY DEF Inv, Typed, Told
    <3> QED  BY <2>2, <3>1, Kinds
  <2> QED  BY <2>1, <2>2 DEF Inv, Typed, TypeOK
<1> QED  BY <1>1, InitInv, NextInv, PTL DEF Spec

(* The application is told every result once, in the order of the daemon   *)
(* and with its state or severity: for all results and numbers of them.    *)
(* The hypothesis leaves out what results_batched shows to go wrong.       *)
THEOREM ResultsShown ==
  ASSUME PackedBatches = FALSE
  PROVE  Spec => []ShownAsReported
<1>1. Inv => ShownAsReported
  <2> SUFFICES ASSUME Inv
               PROVE  ShownAsReported
    OBVIOUS
  <2>1. DOMAIN shown = 1..Len(shown) /\ DOMAIN reported = 1..Len(reported)
    BY DEF Inv, Typed
  <2>2. ASSUME queue = <<>>
        PROVE  Len(shown) = Len(reported)
    <3>1. PICK at \in [1..(Len(queue) + 1) -> Nat] : Starts(at)
      BY DEF Inv
    <3>2. Len(queue) = 0 /\ Len(shown) \in Nat /\ Len(reported) \in Nat
      BY <2>2 DEF Inv, Typed
    <3> QED  BY <3>1, <3>2 DEF Starts
  <2> QED  BY <2>1, <2>2 DEF Inv, ShownAsReported
<1> QED  BY <1>1, InitInv, NextInv, PTL DEF Spec

(***************************************************************************)
(* The groups of a search                                                  *)
(***************************************************************************)
(* The names that are sent are those of the groups that were asked for.    *)
Asked ==
  /\ asked \subseteq Bits
  /\ sent = <<>> \/ sent = <<searchGroups(asked)>>

(* The names of a search are read back as the groups that were asked for.  *)
THEOREM GroupsSent == Spec => []GroupsDelivered
<1>1. Asked => GroupsDelivered
  <2> SUFFICES ASSUME Asked, sent # <<>>
               PROVE  GroupsDelivered
    BY DEF GroupsDelivered
  <2>1. sent[1] = searchGroups(asked)
    BY DEF Asked
  <2>2. asked \subseteq 0..63
    BY BitsAssumption DEF Asked
  <2> DEFINE read == [n \in DOMAIN sent[1] |-> enumFromString(sent[1][n])]
  <2>3. PICK names : names = sent[1]
    OBVIOUS
  <2>4. PICK r : r = [n \in DOMAIN names |-> enumFromString(names[n])]
    OBVIOUS
  <2>5. read = r
    BY <2>3, <2>4
  <2>6. Recovers(r, asked)
    <3>1. PICK mask : mask = asked
      OBVIOUS
    <3>2. mask \subseteq 0..63 /\ names = searchGroups(mask)
      BY <2>1, <2>2, <2>3, <3>1
    <3> HIDE DEF read
    <3>3. DOMAIN r = DOMAIN names /\ \A n \in DOMAIN names : r[n] = enumFromString(names[n])
      BY <2>4
    <3>4. Recovers(r, mask)
      BY <3>2, <3>3, AllRead
    <3> QED  BY <3>1, <3>4
  <2>7. Recovers(read, asked)
    BY <2>5, <2>6
  <2> QED  BY <2>7, Zenon DEF GroupsDelivered, Recovers
<1>2. Init => Asked
  BY DEF Init, Asked
<1>3. Asked /\ [Next]_vars => Asked'
  <2> SUFFICES ASSUME Asked, [Next]_vars
               PROVE  Asked'
    OBVIOUS
  <2>1. ASSUME NEW g \in Bits, AddGroup(g)
        PROVE  Asked'
    BY <2>1 DEF Asked, AddGroup, SetBit
  <2>2. ASSUME Search
        PROVE  Asked'
    BY <2>2 DEF Asked, Search
  <2>3. ASSUME UNCHANGED <<asked, sent>>
        PROVE  Asked'
    BY <2>3 DEF Asked
  <2> QED  BY <2>1, <2>2, <2>3 DEF Next, Report, ReportTwo, Relay, vars
<1> QED  BY <1>1, <1>2, <1>3, PTL DEF Spec

(***************************************************************************)
(* The package ids that are shown                                          *)
(***************************************************************************)
(* What may be shown: what a result means or, in lists, how it is encoded. *)
Entry == {Encoded(r) : r \in Result} \cup Told

(* The signals the daemon sends.                                           *)
Sendable == {s \in Signal : Slot(s) \in Seq(Entry)}

(* All of it has a package id of the daemon.                               *)
LEMMA EntryPid ==
  ASSUME NEW e \in Entry
  PROVE  e.pid \in PackageIds
<1>1. PICK r \in Result : e = Encoded(r) \/ e = Meaning(r)
  BY DEF Entry, Told
<1>2. r.pid \in PackageIds
  BY DEF Result, Package
<1> QED  BY <1>1, <1>2, Kinds

(* A single signal is one of them.                                         *)
LEMMA SingleSendable ==
  ASSUME NEW r \in Result
  PROVE  Single(r) \in Sendable
<1>1. Meaning(r) \in Entry
  BY DEF Entry, Told
<1>2. <<Meaning(r)>> \in Seq(Entry)
  BY <1>1
<1>3. Slot(Single(r)) \in Seq(Entry)
  BY <1>2, SingleTold
<1>4. Single(r) \in Signal
  BY SingleTold
<1> QED  BY <1>3, <1>4 DEF Sendable

(* So is a list, with or without severities.                               *)
LEMMA PairSendable ==
  ASSUME NEW r1 \in Result, NEW r2 \in Result, Batched(r1, r2)
  PROVE  Pair(r1, r2) \in Sendable
<1>1. Pair(r1, r2) \in Signal
  BY Kinds DEF Pair, Signal
<1>2. Slot(Pair(r1, r2)) = <<Encoded(r1), Encoded(r2)>>
  BY Kinds DEF Pair, Slot, Packages, UpdateDetails
<1>3. Encoded(r1) \in Entry /\ Encoded(r2) \in Entry
  BY DEF Entry
<1>4. <<Encoded(r1), Encoded(r2)>> \in Seq(Entry)
  BY <1>3
<1>5. Slot(Pair(r1, r2)) \in Seq(Entry)
  BY <1>2, <1>4
<1> QED  BY <1>1, <1>5 DEF Sendable

(* The inductive invariant.                                                *)
Entries == queue \in Seq(Sendable) /\ shown \in Seq(Entry)

(* It is one.                                                              *)
LEMMA EntriesNext == Entries /\ [Next]_vars => Entries'
<1> SUFFICES ASSUME Entries, [Next]_vars
             PROVE  Entries'
  OBVIOUS
<1>1. ASSUME NEW r \in Result, Report(r)
      PROVE  Entries'
  BY <1>1, SingleSendable DEF Report, Entries
<1>2. ASSUME NEW r1 \in Result, NEW r2 \in Result, ReportTwo(r1, r2)
      PROVE  Entries'
  BY <1>2, PairSendable DEF ReportTwo, Entries
<1>3. ASSUME Relay
      PROVE  Entries'
  <2>1. Head(queue) \in Sendable /\ Tail(queue) \in Seq(Sendable)
    BY <1>3 DEF Relay, Entries
  <2>2. Slot(Head(queue)) \in Seq(Entry)
    BY <2>1 DEF Sendable
  <2> QED  BY <1>3, <2>1, <2>2 DEF Relay, Entries
<1>4. ASSUME UNCHANGED <<queue, shown>>
      PROVE  Entries'
  BY <1>4 DEF Entries
<1> QED  BY <1>1, <1>2, <1>3, <1>4 DEF Next, AddGroup, Search, vars

(* The parts of each package id the application is shown give the id,      *)
(* whatever the daemon packs into lists.                                   *)
THEOREM IdsShown == Spec => []IdsReassembled
<1>1. Init => Entries
  BY DEF Init, Entries
<1>2. Entries => IdsReassembled
  <2> SUFFICES ASSUME Entries, NEW n \in DOMAIN shown
               PROVE  Reassembled(shown[n].pid)
    BY DEF IdsReassembled, Reassembled, Cut
  <2>1. shown[n] \in Entry
    BY DEF Entries
  <2>2. PICK id \in PackageIds : id = shown[n].pid
    BY <2>1, EntryPid
  <2>3. id \in Seq(ToSet(id))
    BY IdsAssumption
  <2>4. Reassembled(id)
    BY <2>3, IdReassembled
  <2> QED  BY <2>2, <2>4
<1> QED  BY <1>1, <1>2, EntriesNext, PTL DEF Spec
=============================================================================

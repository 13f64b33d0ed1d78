------------------------------- MODULE Results -------------------------------
(***************************************************************************)
(* What an application gets for a request: it collects groups and searches *)
(* them, the daemon reports packages and update details, one per signal or *)
(* several in one (transactionprivate.cpp), and the slots of               *)
(* TransactionPrivate relay them to the application one by one.            *)
(***************************************************************************)
EXTENDS Names

CONSTANTS
  Bits,           \* numbers of groups the application may add to its set
  Reals,          \* states the daemon reports of packages
  Severities,     \* severities it adds to them
  PackageIds,     \* package ids it reports
  PackedBatches,  \* it adds severities in Packages too
  MaxResults      \* bound: results in a behaviour

(* The values of Transaction::Info.                                        *)
Info == 0..30
InfoUnknown == 0

ASSUME BitsAssumption == Bits \subseteq 0..63
ASSUME InfosAssumption == Reals \subseteq Info /\ Severities \subseteq Info
ASSUME BatchesAssumption == PackedBatches \in BOOLEAN /\ MaxResults \in Nat
ASSUME IdsAssumption == \A id \in PackageIds : id \in Seq(ToSet(id))

VARIABLES
  asked,     \* the groups the application asks for, a Bitfield
  sent,      \* the lists of names sent by searchGroups()
  reported,  \* history: the results of the daemon
  queue,     \* signals on their way to the client
  shown      \* history: the signals the application has received

vars == <<asked, sent, reported, queue, shown>>

(* A package has a state and, from some daemons, the severity of the       *)
(* update; an update detail is relayed as it is.                           *)
Package(i, s, id) == [kind |-> "package", real |-> i, severity |-> s, pid |-> id]
Result == {Package(i, s, id) : i \in Reals, s \in Severities, id \in PackageIds}
          \cup {[kind |-> "updateDetail", pid |-> id] : id \in PackageIds}

TypeOK ==
  /\ asked \subseteq Bits
  /\ reported \in Seq(Result)
  /\ \A i \in DOMAIN queue : queue[i].signal \in {"Package", "Packages", "UpdateDetail", "UpdateDetails"}
  /\ \A i \in DOMAIN shown : shown[i].kind = "package" => shown[i].info \in Info

Init ==
  /\ asked = {}
  /\ sent = <<>>
  /\ reported = <<>>
  /\ queue = <<>>
  /\ shown = <<>>

(***************************************************************************)
(* The application                                                         *)
(***************************************************************************)
AddGroup(g) ==
  /\ sent = <<>>
  /\ g \notin asked
  /\ asked' = SetBit(asked, g)
  /\ UNCHANGED <<sent, reported, queue, shown>>

Search ==
  /\ sent = <<>>
  /\ sent' = <<searchGroups(asked)>>
  /\ UNCHANGED <<asked, reported, queue, shown>>

(***************************************************************************)
(* The daemon (not under src/)                                             *)
(***************************************************************************)
(* 2 ^ 16                                                                  *)
Half == 65536

(* The severity goes into the high half of the 32 bits of the info.        *)
Encoded(r) ==
  IF r.kind = "package"
    THEN [kind |-> "package", info |-> r.severity * Half + r.real, pid |-> r.pid]
    ELSE r

Single(r) == [signal |-> IF r.kind = "package" THEN "Package" ELSE "UpdateDetail",
              args |-> <<Encoded(r)>>]
Pair(r1, r2) == [signal |-> IF r1.kind = "package" THEN "Packages" ELSE "UpdateDetails",
                 args |-> <<Encoded(r1), Encoded(r2)>>]

(* Results of one kind may share a signal.                                 *)
Batched(r1, r2) ==
  /\ r1.kind = r2.kind
  /\ r1.kind = "package" /\ ~PackedBatches => r1.severity = 0 /\ r2.severity = 0

Report(r) ==
  /\ sent # <<>>
  /\ Len(reported) < MaxResults
  /\ reported' = Append(reported, r)
  /\ queue' = Append(queue, Single(r))
  /\ UNCHANGED <<asked, sent, shown>>

ReportTwo(r1, r2) ==
  /\ sent # <<>>
  /\ Len(reported) + 1 < MaxResults
  /\ Batched(r1, r2)
  /\ reported' = reported \o <<r1, r2>>
  /\ queue' = Append(queue, Pair(r1, r2))
  /\ UNCHANGED <<asked, sent, shown>>

(***************************************************************************)
(* The slots of TransactionPrivate                                         *)
(***************************************************************************)
(* Mutants of infoReal: the whole number is cast; the severity is lost if  *)
(* there is no state.                                                      *)
infoCast(info) == info
infoLow(info) == info % Half

(* The Info of a packed number: the state, or else the severity.           *)
infoReal(info) ==
  IF info \div Half # 0 /\ info % Half = InfoUnknown THEN info \div Half ELSE info % Half

(* Package() unpacks the info; UpdateDetail() forwards its arguments.      *)
PackageSlot(args) == <<[args[1] EXCEPT !.info = infoReal(@)]>>
UpdateDetail(args) == args

(* The lists are forwarded one by one, the info as it is.                  *)
Packages(args) == args
UpdateDetails(args) == args

(* The signals that the slot of a D-Bus signal emits.                      *)
Slot(s) == CASE s.signal = "Package" -> PackageSlot(s.args)
             [] s.signal = "Packages" -> Packages(s.args)
             [] s.signal = "UpdateDetail" -> UpdateDetail(s.args)
             [] s.signal = "UpdateDetails" -> UpdateDetails(s.args)

Relay ==
  /\ queue # <<>>
  /\ shown' = shown \o Slot(Head(queue))
  /\ queue' = Tail(queue)
  /\ UNCHANGED <<asked, sent, reported>>

Next == \/ \E g \in Bits : AddGroup(g)
        \/ Search
        \/ \E r \in Result : Report(r)
        \/ \E r1, r2 \in Result : ReportTwo(r1, r2)
        \/ Relay

Spec == Init /\ [][Next]_vars

(***************************************************************************)
(* Properties                                                              *)
(***************************************************************************)
(* The names that searchGroups(Groups) sends are read back, by the         *)
(* library's own enumFromString(), as the groups that were asked for: none *)
(* is missing, added or repeated.                                          *)
GroupsDelivered ==
  sent # <<>> =>
    LET read == [n \in DOMAIN sent[1] |-> enumFromString(sent[1][n])]
    IN /\ ToSet(read) \ {GroupUnknown} = (asked \cap Group) \ {GroupUnknown}
       /\ \A m, n \in DOMAIN read : read[m] = read[n] /\ m # n => read[m] = GroupUnknown

(* The application is told every result once, in the daemon's order, and   *)
(* of each package the state, or the severity if the state is unknown,     *)
(* whether results come alone or in lists.                                 *)
Meaning(r) ==
  IF r.kind = "package"
    THEN [kind |-> "package", pid |-> r.pid,
          info |-> IF r.real = InfoUnknown THEN r.severity ELSE r.real]
    ELSE r
ShownAsReported ==
  /\ \A n \in DOMAIN shown : n \in DOMAIN reported /\ shown[n] = Meaning(reported[n])
  /\ queue = <<>> => Len(shown) = Len(reported)

(* The four parts of a package id the application is shown, put together   *)
(* again, give the id.                                                     *)
IdsReassembled == \A n \in DOMAIN shown : Reassembled(shown[n].pid)
=============================================================================

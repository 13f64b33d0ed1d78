--------------------------- MODULE TransactionSetup ---------------------------
(***************************************************************************)
(* How a request of the application becomes a D-Bus method call: a factory *)
(* method of Daemon fills in a Transaction (daemon.cpp), and when the      *)
(* daemon has given it a tid, setup() sends the hints, asks for the        *)
(* properties, subscribes to what the application listens to and           *)
(* dispatches the method (transactionprivate.cpp).  All of these are       *)
(* messages: the bus takes them in order, acts on the subscriptions        *)
(* itself, and forwards the calls to the daemon, which may already emit.   *)
(*                                                                         *)
(* One Transaction, made by a factory method or attached to a transaction  *)
(* that another client runs.  Failures and deletion are in Transaction.    *)
(***************************************************************************)
EXTENDS Naturals, Sequences, FiniteSets, Functions

CONSTANTS
  Requests,    \* factory methods the application calls
  Attaching,   \* it may use Transaction(tid) instead
  Listened,    \* signals of Transaction it connects to
  MaxSlots,    \* bound: slots connected to one signal
  HintLists,   \* hint lists it sets
  MaxHints,    \* bound: calls of setHints()
  MaxStatus    \* bound: changes of the daemon's status property

(***************************************************************************)
(* The factory methods of Daemon: the role and the fields they set         *)
(***************************************************************************)
Sets(r, fields) == [role |-> r, sets |-> fields]

FactoryQueries ==
  [acceptEula |-> Sets("AcceptEula", {"eulaId"}),
   downloadPackages |-> Sets("DownloadPackages", {"search", "storeInCache"}),
   getCategories |-> Sets("GetCategories", {}),
   dependsOn |-> Sets("DependsOn", {"search", "filters", "recursive"}),
   getDetails |-> Sets("GetDetails", {"search"}),
   getDetailsLocal |-> Sets("GetDetailsLocal", {"search"}),
   getFiles |-> Sets("GetFiles", {"search"}),
   getFilesLocal |-> Sets("GetFilesLocal", {"search"}),
   getOldTransactions |-> Sets("GetOldTransactions", {"numberOfOldTransactions"}),
   getPackages |-> Sets("GetPackages", {"filters"}),
   getRepoList |-> Sets("GetRepoList", {"filters"}),
   requiredBy |-> Sets("RequiredBy", {"search", "filters", "recursive"})]

FactoryChanges ==
  [getUpdatesDetails |-> Sets("GetUpdateDetail", {"search"}),
   getUpdates |-> Sets("GetUpdates", {"filters"}),
   getDistroUpgrades |-> Sets("GetDistroUpgrades", {}),
   upgradeSystem |-> Sets("UpgradeSystem", {"upgradeDistroId", "upgradeKind", "transactionFlags"}),
   installFiles |-> Sets("InstallFiles", {"search", "transactionFlags"}),
   installPackages |-> Sets("InstallPackages", {"search", "transactionFlags"}),
   installSignature |-> Sets("InstallSignature",
                             {"signatureType", "signatureKey", "signaturePackage"}),
   refreshCache |-> Sets("RefreshCache", {"refreshCacheForce"}),
   removePackages |-> Sets("RemovePackages",
                           {"search", "allowDeps", "autoremove", "transactionFlags"}),
   repairSystem |-> Sets("RepairSystem", {"transactionFlags"}),
   repoEnable |-> Sets("RepoEnable", {"repoId", "repoEnable"})]

FactorySearches ==
  [repoRemove |-> Sets("RepoRemove", {"repoId", "autoremove", "transactionFlags"}),
   repoSetData |-> Sets("RepoSetData", {"repoId", "repoParameter", "repoValue"}),
   resolve |-> Sets("Resolve", {"search", "filters"}),
   searchFiles |-> Sets("SearchFile", {"search", "filters"}),
   searchDetails |-> Sets("SearchDetails", {"search", "filters"}),
   searchGroups |-> Sets("SearchGroup", {"search", "filters"}),
   searchNames |-> Sets("SearchName", {"search", "filters"}),
   updatePackages |-> Sets("UpdatePackages", {"search", "transactionFlags"}),
   whatProvides |-> Sets("WhatProvides", {"search", "filters"})]

Factory ==
  [f \in DOMAIN FactoryQueries \cup DOMAIN FactoryChanges \cup DOMAIN FactorySearches |->
     IF f \in DOMAIN FactoryQueries THEN FactoryQueries[f]
     ELSE IF f \in DOMAIN FactoryChanges THEN FactoryChanges[f] ELSE FactorySearches[f]]

(***************************************************************************)
(* runQueuedTransaction(): the method of a role and the fields it reads    *)
(***************************************************************************)
Calls(m, fields) == [method |-> m, reads |-> fields]

DispatchTable ==
  [AcceptEula |-> Calls("AcceptEula", {"eulaId"}),
   DownloadPackages |-> Calls("DownloadPackages", {"storeInCache", "search"}),
   GetCategories |-> Calls("GetCategories", {}),
   DependsOn |-> Calls("DependsOn", {"filters", "search", "recursive"}),
   GetDetails |-> Calls("GetDetails", {"search"}),
   GetFiles |-> Calls("GetFiles", {"search"}),
   GetOldTransactions |-> Calls("GetOldTransactions", {"numberOfOldTransactions"}),
   GetPackages |-> Calls("GetPackages", {"filters"}),
   GetRepoList |-> Calls("GetRepoList", {"filters"}),
   RequiredBy |-> Calls("RequiredBy", {"filters", "search", "recursive"}),
   GetUpdateDetail |-> Calls("GetUpdateDetail", {"search"}),
   GetUpdates |-> Calls("GetUpdates", {"filters"}),
   GetDistroUpgrades |-> Calls("GetDistroUpgrades", {}),
   InstallFiles |-> Calls("InstallFiles", {"transactionFlags", "search"}),
   InstallPackages |-> Calls("InstallPackages", {"transactionFlags", "search"}),
   InstallSignature |-> Calls("InstallSignature",
                              {"signatureType", "signatureKey", "signaturePackage"}),
   RefreshCache |-> Calls("RefreshCache", {"refreshCacheForce"}),
   RemovePackages |-> Calls("RemovePackages",
                            {"transactionFlags", "search", "allowDeps", "autoremove"}),
   RepairSystem |-> Calls("RepairSystem", {"transactionFlags"}),
   RepoEnable |-> Calls("RepoEnable", {"repoId", "repoEnable"}),
   RepoSetData |-> Calls("RepoSetData", {"repoId", "repoParameter", "repoValue"}),
   Resolve |-> Calls("Resolve", {"filters", "search"}),
   SearchFile |-> Calls("SearchFiles", {"filters", "search"}),
   SearchDetails |-> Calls("SearchDetails", {"filters", "search"}),
   SearchGroup |-> Calls("SearchGroups", {"filters", "search"}),
   SearchName |-> Calls("SearchNames", {"filters", "search"}),
   UpdatePackages |-> Calls("UpdatePackages", {"transactionFlags", "search"}),
   WhatProvides |-> Calls("WhatProvides", {"filters", "search"}),
   GetDetailsLocal |-> Calls("GetDetailsLocal", {"search"}),
   GetFilesLocal |-> Calls("GetFilesLocal", {"search"}),
   RepoRemove |-> Calls("RepoRemove", {"transactionFlags", "repoId", "autoremove"}),
   UpgradeSystem |-> Calls("UpgradeSystem",
                           {"transactionFlags", "upgradeDistroId", "upgradeKind"})]

(***************************************************************************)
(* setupSignal(): the D-Bus signals behind a signal of Transaction         *)
(***************************************************************************)
Behind ==
  [category |-> <<"Category">>, details |-> <<"Details">>,
   distroUpgrade |-> <<"DistroUpgrade">>, errorCode |-> <<"ErrorCode">>,
   files |-> <<"Files">>, finished |-> <<"Finished">>,
   package |-> <<"Packages", "Package">>, repoDetail |-> <<"RepoDetail">>,
   repoSignatureRequired |-> <<"RepoSignatureRequired">>,
   eulaRequired |-> <<"EulaRequired">>, mediaChangeRequired |-> <<"MediaChangeRequired">>,
   itemProgress |-> <<"ItemProgress">>, requireRestart |-> <<"RequireRestart">>,
   transaction |-> <<"Transaction">>, updateDetail |-> <<"UpdateDetails", "UpdateDetail">>]

(* The slot named there takes eight arguments, the one declared takes      *)
(* nine: there is no such slot and QObject::connect() fails.               *)
NoSuchSlot == {"transaction"}

Relayed(s) == IF s \in NoSuchSlot THEN <<>> ELSE Behind[s]

ASSUME RequestsAssumption == Requests \subseteq DOMAIN Factory
ASSUME AttachingAssumption == Attaching \in BOOLEAN
ASSUME ListenedAssumption == Listened \subseteq DOMAIN Behind
ASSUME SetupBoundsAssumption == MaxSlots \in Nat /\ MaxHints \in Nat /\ MaxStatus \in Nat

VARIABLES
  request,  \* the factory method that was called, "none" for Transaction(tid)
  d,        \* the TransactionPrivate
  app,      \* what the application has set: slots and hints
  wire,     \* messages from the client to the bus
  matched,  \* the signals the bus sends to the client
  inbox,    \* calls the bus has forwarded to the daemon
  srv,      \* the transaction inside the daemon
  queue,    \* the events posted to the client's event loop
  saw       \* history: what the application asked for and was told

vars == <<request, d, app, wire, matched, inbox, srv, queue, saw>>

Field == UNION {Factory[f].sets : f \in DOMAIN Factory}
Role == DOMAIN DispatchTable \cup {"Unknown", "Cancel"}
DBusSignal == UNION {Range(Behind[s]) : s \in Listened}
HintList == SUBSET ((UNION HintLists) \cup {"supports-plural-signals"})
NotRun == Calls("none", {})

(* Some of the properties.                                                 *)
Property == {"RemainingTime", "Role", "Status"}

(* d: "creating" until the tid is known, "ready" after setup().  given:    *)
(* the request fields that were assigned; the rest are defaults, or        *)
(* uninitialised.  hints: <<>> or one list.  relays[x]: connections from   *)
(* the proxy's signal x.  known: the properties that have been received.   *)
Private ==
  [stage: {"none", "creating", "ready"}, role: Role, given: SUBSET Field,
   hints: {<<>>} \cup {<<l>> : l \in HintList}, connected: Seq(Listened),
   relays: [DBusSignal -> Nat], status: 0..MaxStatus, known: SUBSET Property]

(* srv: the method that was called, the hints in effect then and now, and  *)
(* the result signals that have been emitted.                              *)
Served ==
  [role: Role, status: 0..MaxStatus, hints: HintList, ranWith: HintList,
   ran: Range(DispatchTable) \cup {NotRun}, emitted: SUBSET DBusSignal]

(* The messages of the client: calls are for the daemon, subscriptions for *)
(* the bus, which takes them one signal at a time.                         *)
Message(k) == [kind |-> k]
Watch(q) == [kind |-> "AddMatch", signals |-> q]
SetHints(l) == [kind |-> "SetHints", hints |-> l]
Run(c) == [kind |-> "Run", call |-> c]

Watchable == DBusSignal \cup {"Destroy", "PropertiesChanged"}
Call == [kind: {"GetAll"}] \cup [kind: {"SetHints"}, hints: HintList]
          \cup [kind: {"Run"}, call: Range(DispatchTable)]
Subscription == [kind: {"AddMatch"}, signals: Seq(Watchable)]

(* What arrives at the client's event loop.                                *)
Properties(v) == [kind |-> "properties", values |-> v]
Notification(p) == [kind |-> "notify", property |-> p]
Result(x) == [kind |-> "result", signal |-> x]

Reply == [RemainingTime: {0}, Role: Role, Status: 0..MaxStatus]
Event == [kind: {"tid"}] \cup [kind: {"notify"}, property: Property]
           \cup [kind: {"result"}, signal: DBusSignal]
           \cup [kind: {"properties"}, values: Reply \cup [Role: Role] \cup [Status: 0..MaxStatus]]

TypeOK ==
  /\ request \in Requests \cup {"none"}
  /\ d \in Private
  /\ IsInjective(d.connected)
  /\ app \in [slots: [Listened -> 0..MaxSlots], hints: HintLists \cup {{}}, hinted: 0..MaxHints]
  /\ wire \in Seq(Call \cup Subscription)
  /\ inbox \in Seq(Call)
  /\ matched \subseteq Watchable
  /\ srv \in Served
  /\ queue \in Seq(Event)
  /\ saw \in [early: SUBSET Listened, wanted: HintList, blind: SUBSET Property,
              heard: [DBusSignal -> Nat]]

Init ==
  /\ request = "none"
  /\ d = [stage |-> "none", role |-> "Unknown", given |-> {}, hints |-> <<>>,
          connected |-> <<>>, relays |-> [x \in DBusSignal |-> 0],
          status |-> 0, known |-> {}]
  /\ app = [slots |-> [s \in Listened |-> 0], hints |-> {}, hinted |-> 0]
  /\ wire = <<>> /\ matched = {} /\ inbox = <<>> /\ queue = <<>>
  /\ srv = [role |-> "Unknown", status |-> 0, hints |-> {}, ranWith |-> {},
            ran |-> NotRun, emitted |-> {}]
  /\ saw = [early |-> {}, wanted |-> {}, blind |-> {},
            heard |-> [x \in DBusSignal |-> 0]]

(***************************************************************************)
(* The messages of the client                                              *)
(***************************************************************************)
(* setupSignal(): the proxy's signals behind s are subscribed to and each  *)
(* is connected once more.                                                 *)
Relay(relays, s) == [x \in DBusSignal |-> relays[x] + IF x \in Range(Relayed(s)) THEN 1 ELSE 0]

(* Mutant of Dispatch: an argument is forgotten.                           *)
DispatchForgets == [DispatchTable EXCEPT !["RemovePackages"].reads = @ \ {"autoremove"}]

Dispatch == DispatchTable

(* The call that was queued; a role without a method sends nothing.        *)
runQueuedTransaction ==
  IF d.role \in DOMAIN Dispatch
    THEN <<Run(Dispatch[d.role])>> ELSE <<>>

(* The signals connected so far.                                           *)
signalMatches == [i \in DOMAIN d.connected |-> Watch(Relayed(d.connected[i]))]
signalRelays ==
  [x \in DBusSignal |-> Cardinality({i \in DOMAIN d.connected : x \in Range(Relayed(d.connected[i]))})]

(* Mutants of setupMessages: the method is dispatched before the signals   *)
(* are connected; before the properties are watched; before they are read. *)
RunBeforeSignals(l) ==
  <<SetHints(l), Watch(<<"Destroy">>), Message("GetAll"), Watch(<<"PropertiesChanged">>)>>
    \o runQueuedTransaction \o signalMatches
RunBeforeWatch(l) ==
  <<SetHints(l), Watch(<<"Destroy">>), Message("GetAll")>>
    \o signalMatches \o runQueuedTransaction \o <<Watch(<<"PropertiesChanged">>)>>
RunBeforeRead(l) ==
  <<SetHints(l), Watch(<<"Destroy">>), Watch(<<"PropertiesChanged">>)>>
    \o signalMatches \o runQueuedTransaction \o <<Message("GetAll")>>

(* What setup() sends, in this order.                                      *)
setupMessages(l) ==
  <<SetHints(l), Watch(<<"Destroy">>), Message("GetAll"), Watch(<<"PropertiesChanged">>)>>
    \o signalMatches \o runQueuedTransaction

(* Mutant of hintsAtSetup: always the global hints.                        *)
globalHintsAtSetup == app.hints \cup {"supports-plural-signals"}

(* The hints of the transaction, or else the global ones.                  *)
hintsAtSetup ==
  (IF d.hints # <<>> THEN d.hints[1] ELSE app.hints) \cup {"supports-plural-signals"}

(* setup(): the object o gets its proxy.                                   *)
setup(o) ==
  /\ d' = [o EXCEPT !.stage = "ready", !.hints = <<hintsAtSetup>>,
                    !.relays = signalRelays]
  /\ wire' = wire \o setupMessages(hintsAtSetup)
  /\ saw' = [saw EXCEPT !.early = Range(o.connected)]

(***************************************************************************)
(* The application                                                         *)
(***************************************************************************)
(* A factory method: CreateTransaction is called and the fields are set.   *)
Create(f) ==
  /\ d.stage = "none"
  /\ request' = f
  /\ d' = [d EXCEPT !.stage = "creating", !.role = Factory[f].role, !.given = Factory[f].sets]
  /\ UNCHANGED <<app, wire, matched, inbox, srv, queue, saw>>

(* Transaction(tid), for a transaction that another client has started.    *)
Attach ==
  /\ Attaching
  /\ d.stage = "none"
  /\ setup(d)
  /\ srv' = [srv EXCEPT !.role = "InstallPackages"]
  /\ UNCHANGED <<request, app, matched, inbox, queue>>

(* Mutant of connectNotify: without the test of connectedSignals.          *)
connectNotifyAlways(s) ==
  /\ d' = [d EXCEPT !.connected = Append(@, s),
                    !.relays = IF d.stage = "ready" THEN Relay(@, s) ELSE @]
  /\ wire' = IF d.stage = "ready" THEN Append(wire, Watch(Relayed(s))) ELSE wire

(* connectNotify(): the first connection to a signal is recorded, and      *)
(* relayed at once if there is a proxy.                                    *)
connectNotify(s) ==
  IF s \in Range(d.connected)
    THEN UNCHANGED <<d, wire>>
    ELSE /\ d' = [d EXCEPT !.connected = Append(@, s),
                           !.relays = IF d.stage = "ready" THEN Relay(@, s) ELSE @]
         /\ wire' = IF d.stage = "ready" THEN Append(wire, Watch(Relayed(s))) ELSE wire

(* The application connects one more slot to s.                            *)
Connect(s) ==
  /\ d.stage # "none"
  /\ app.slots[s] < MaxSlots
  /\ app' = [app EXCEPT !.slots[s] = @ + 1]
  /\ connectNotify(s)
  /\ UNCHANGED <<request, matched, inbox, srv, queue, saw>>

(* Transaction::setHints(): stored, and sent if there is a proxy.          *)
SetTransactionHints(l) ==
  /\ d.stage # "none"
  /\ app.hinted < MaxHints
  /\ app' = [app EXCEPT !.hinted = @ + 1]
  /\ d' = [d EXCEPT !.hints = <<l>>]
  /\ wire' = IF d.stage = "ready" THEN Append(wire, SetHints(l)) ELSE wire
  /\ saw' = IF d.stage = "ready" THEN saw ELSE [saw EXCEPT !.wanted = l]
  /\ UNCHANGED <<request, matched, inbox, srv, queue>>

(* Daemon::setHints().                                                     *)
SetGlobalHints(l) ==
  /\ app.hinted < MaxHints
  /\ app' = [app EXCEPT !.hinted = @ + 1, !.hints = l]
  /\ saw' = IF d.stage = "ready" \/ d.hints # <<>> THEN saw ELSE [saw EXCEPT !.wanted = l]
  /\ UNCHANGED <<request, d, wire, matched, inbox, srv, queue>>

Application ==
  \/ \E f \in Requests : Create(f)
  \/ Attach
  \/ \E s \in Listened : Connect(s)
  \/ \E l \in HintLists : SetTransactionHints(l) \/ SetGlobalHints(l)

(***************************************************************************)
(* The event loop                                                          *)
(***************************************************************************)
Handling(k) == queue # <<>> /\ Head(queue).kind = k

(* CreateTransaction is answered with a tid.                               *)
CreateSucceeded ==
  /\ Handling("tid")
  /\ setup(d)
  /\ queue' = Tail(queue)
  /\ UNCHANGED <<request, app, matched, inbox, srv>>

(* Mutant of Direct: every notification is emitted at once.                *)
NothingQueued == Property

(* Notified in the middle of updateProperties(); the others are queued.    *)
Direct == {"RemainingTime"}

(* The application is notified of p while the members k are up to date.    *)
Blind(p, k) == IF k = Property THEN {} ELSE {p}

(* The members that are stored when p is, for keys in the order of a       *)
(* QVariantMap.                                                            *)
Upto == [RemainingTime |-> {"RemainingTime"}, Role |-> {"RemainingTime", "Role"},
         Status |-> Property]
Posted(p, v) == IF p \in DOMAIN v \ Direct THEN <<Notification(p)>> ELSE <<>>
Posts(v) == Posted("RemainingTime", v) \o Posted("Role", v) \o Posted("Status", v)

(* updateProperties(), for GetAll and for PropertiesChanged: each member   *)
(* is stored and its notification emitted or posted, in the order of keys. *)
updateProperties ==
  /\ Handling("properties")
  /\ LET v == Head(queue).values
         stored(p) == d.known \cup (Upto[p] \cap DOMAIN v) IN
     /\ d' = [d EXCEPT !.role = IF "Role" \in DOMAIN v THEN v["Role"] ELSE @,
                       !.status = IF "Status" \in DOMAIN v THEN v["Status"] ELSE @,
                       !.known = @ \cup DOMAIN v]
     /\ saw' = [saw EXCEPT !.blind = @ \cup UNION {Blind(p, stored(p)) : p \in Direct \cap DOMAIN v}]
     /\ queue' = Tail(queue) \o Posts(v)
  /\ UNCHANGED <<request, app, wire, matched, inbox, srv>>

(* A queued notification reaches the application: roleChanged(), ...       *)
Notify ==
  /\ Handling("notify")
  /\ saw' = [saw EXCEPT !.blind = @ \cup Blind(Head(queue).property, d.known)]
  /\ queue' = Tail(queue)
  /\ UNCHANGED <<request, d, app, wire, matched, inbox, srv>>

(* A result signal goes through every relay.                               *)
HandleResult ==
  /\ Handling("result")
  /\ LET x == Head(queue).signal IN saw' = [saw EXCEPT !.heard[x] = @ + d.relays[x]]
  /\ queue' = Tail(queue)
  /\ UNCHANGED <<request, d, app, wire, matched, inbox, srv>>

EventLoop == CreateSucceeded \/ updateProperties \/ Notify \/ HandleResult

(***************************************************************************)
(* The bus and the daemon (not under src/)                                 *)
(***************************************************************************)
(* The bus forwards a call.                                                *)
Forward ==
  /\ wire # <<>>
  /\ Head(wire).kind # "AddMatch"
  /\ inbox' = Append(inbox, Head(wire))
  /\ wire' = Tail(wire)
  /\ UNCHANGED <<request, d, app, matched, srv, queue, saw>>

(* Subscriptions are its own affair.                                       *)
Subscribe ==
  /\ wire # <<>>
  /\ Head(wire).kind = "AddMatch"
  /\ LET q == Head(wire).signals IN
       IF Len(q) > 1
         THEN /\ matched' = matched \cup {q[1]}
              /\ wire' = <<Watch(Tail(q))>> \o Tail(wire)
         ELSE /\ matched' = matched \cup Range(q)
              /\ wire' = Tail(wire)
  /\ UNCHANGED <<request, d, app, inbox, srv, queue, saw>>

(* The daemon emits signal x with these contents.                          *)
Emit(x, e) == queue' = IF x \in matched THEN Append(queue, e) ELSE queue

(* The daemon answers CreateTransaction.                                   *)
AnswerCreate ==
  /\ d.stage = "creating"
  /\ queue = <<>>
  /\ queue' = Append(queue, Message("tid"))
  /\ UNCHANGED <<request, d, app, wire, matched, inbox, srv, saw>>

Serve(k) ==
  /\ inbox # <<>>
  /\ Head(inbox).kind = k
  /\ inbox' = Tail(inbox)
  /\ UNCHANGED <<request, d, app, wire, matched, saw>>

TakeHints ==
  /\ Serve("SetHints")
  /\ srv' = [srv EXCEPT !.hints = Head(inbox).hints]
  /\ UNCHANGED queue

AnswerGetAll ==
  /\ Serve("GetAll")
  /\ queue' = Append(queue, Properties([RemainingTime |-> 0, Role |-> srv.role,
                                                Status |-> srv.status]))
  /\ UNCHANGED srv

(* The method determines the role of the transaction.                      *)
RoleOf(m) == CHOOSE r \in DOMAIN DispatchTable : DispatchTable[r].method = m

TakeRun ==
  /\ Serve("Run")
  /\ LET r == RoleOf(Head(inbox).call.method) IN
     /\ srv' = [srv EXCEPT !.ran = Head(inbox).call, !.ranWith = srv.hints, !.role = r]
     /\ Emit("PropertiesChanged", Properties([Role |-> r]))

Running == srv.role # "Unknown"

ChangeStatus ==
  /\ Running
  /\ srv.status < MaxStatus
  /\ srv' = [srv EXCEPT !.status = @ + 1]
  /\ Emit("PropertiesChanged", Properties([Status |-> srv.status + 1]))
  /\ UNCHANGED <<request, d, app, wire, matched, inbox, saw>>

(* A result signal, emitted once here.                                     *)
EmitResult(x) ==
  /\ Running
  /\ x \notin srv.emitted
  /\ srv' = [srv EXCEPT !.emitted = @ \cup {x}]
  /\ Emit(x, Result(x))
  /\ UNCHANGED <<request, d, app, wire, matched, inbox, saw>>

Daemon == \/ AnswerCreate \/ TakeHints \/ AnswerGetAll \/ TakeRun \/ ChangeStatus
          \/ \E x \in DBusSignal : EmitResult(x)

Next == Application \/ EventLoop \/ Forward \/ Subscribe \/ Daemon

Spec == Init /\ [][Next]_vars

(***************************************************************************)
(* Properties                                                              *)
(***************************************************************************)
(* The call that reaches the daemon is the one the application asked for:  *)
(* it carries every parameter of the factory method and no field that was  *)
(* not assigned, and no other factory method leads to it.                  *)
RequestDelivered ==
  srv.ran # NotRun =>
    /\ request # "none"
    /\ srv.ran.reads = Factory[request].sets
    /\ \A f \in DOMAIN Factory :
         srv.ran.method = Dispatch[Factory[f].role].method => f = request

(* No result is lost: a slot that was connected before the tid was known   *)
(* is called for every result signal the daemon emits.                     *)
Queued(x) == Cardinality({i \in DOMAIN queue : queue[i] = Result(x)})
Copies(x) == saw.heard[x] + d.relays[x] * Queued(x)
EarlyResultsArrive ==
  \A s \in saw.early : \A x \in Range(Behind[s]) : x \in srv.emitted => Copies(x) > 0

(* No result is reported twice, however often and whenever the application *)
(* connects to a signal.                                                   *)
ResultsOnce == \A x \in DBusSignal : Copies(x) <= 1

(* The daemon runs the method with the hints the application had asked     *)
(* for: those of the transaction, or else the global ones.                 *)
HintsInEffect ==
  srv.ran # NotRun => srv.ranWith = saw.wanted \cup {"supports-plural-signals"}

(* Once every message has been handled, role() and status() of a request   *)
(* are right: the reply to GetAll, which is older than the method call,    *)
(* and the changes that the call causes come in an order that converges.   *)
Quiet == d.stage = "ready" /\ wire = <<>> /\ inbox = <<>> /\ queue = <<>>
PropertiesConverge ==
  Quiet /\ request # "none" => d.role = srv.role /\ d.status = srv.status

(* No notification of a request comes before all members have been         *)
(* received, so no getter returns an uninitialised member to its slot -    *)
(* except remainingTimeChanged(), which is not queued.                     *)
QueuedMeansReady == request # "none" => saw.blind \subseteq {"RemainingTime"}
=============================================================================

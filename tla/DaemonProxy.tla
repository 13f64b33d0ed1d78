----------------------------- MODULE DaemonProxy -----------------------------
(***************************************************************************)
(* The Daemon singleton and its Offline object (daemonprivate.cpp,         *)
(* daemon.cpp, offline.cpp): the constructors subscribe and ask for all    *)
(* properties, PropertiesChanged keeps the caches up to date, and          *)
(* NameOwnerChanged tells when the daemon comes and goes.  The application *)
(* triggers offline updates, asks which are prepared, and follows the list *)
(* of transactions.                                                        *)
(*                                                                         *)
(* The properties of the daemon's interface are one value, a version       *)
(* number, 0 before anything has been received; those of the Offline       *)
(* interface are its TriggerAction, a string on the bus.  A list of        *)
(* transactions is a number too, 0 if empty.                               *)
(***************************************************************************)
EXTENDS Naturals, Sequences, FiniteSets

CONSTANTS
  Faults,           \* "silent": GetAll may go unanswered
                    \* "invalidate": PropertiesChanged may withhold the value
  MaxOwnerChanges,  \* bound: NameOwnerChanged signals in a behaviour
  MaxEvents         \* bound: changes inside the daemon and calls of the
                    \* application, together

ASSUME ProxyFaultsAssumption == Faults \subseteq {"silent", "invalidate"}
ASSUME BoundsAssumption == MaxOwnerChanges \in Nat /\ MaxEvents \in Nat

Interface == {"daemon", "offline"}
Version == 0..(1 + MaxOwnerChanges + MaxEvents)
Action == {"ActionUnset", "ActionReboot", "ActionPowerOff"}
ActionString == {"unset", "reboot", "power-off"}
EmptyList == 0

VARIABLES
  stage,    \* how far Daemon::global() has got
  running,  \* DaemonPrivate::running
  cache,    \* cache[i]: the cached properties of interface i
  seen,     \* seen[i]: those properties when changed() was last emitted
  quits,    \* daemonQuit() emissions
  app,      \* the application: what it has called and was told
  queue,    \* the events posted to the client's event loop
  calls,    \* calls that have not been answered, oldest first
  lost,     \* so many of them went to a daemon that is gone
  value,    \* value[i]: the daemon's properties
  list,     \* the daemon's transactions
  up,       \* the daemon owns its bus name
  history   \* see History

client == <<stage, running, cache, seen, quits, app>>
vars == <<stage, running, cache, seen, quits, app, queue, calls, lost, value, list, up, history>>

(* A call and its argument: the interface of GetAll, the action of Trigger *)
(* (with the Action that was meant).  values: <<>> when only invalidated.  *)
Call == [method: {"GetAll"}, iface: Interface] \cup
        [method: {"Trigger"}, action: ActionString, meant: Action] \cup
        [method: {"GetPrepared", "GetTransactionList"}]

Property(i) == IF i = "daemon" THEN Version ELSE ActionString
Reply(i) == [kind: {"properties"}, iface: {i}, values: {<<v>> : v \in Property(i)}]
Changed(i) == [kind: {"changed"}, to: Interface, iface: {i},
               values: {<<>>} \cup {<<v>> : v \in Property(i)}]
Owner == [kind: {"owner"}, old: BOOLEAN, new: BOOLEAN]
Others == [kind: {"list"}, tids: Version] \cup [kind: {"prepared"}]
Event == Owner \cup Others \cup UNION {Reply(i) \cup Changed(i) : i \in Interface}

(* App: it follows the list and has had one from the daemon since; the     *)
(* list it was told last; its calls of getPrepared() and the answers.      *)
App == [listening: BOOLEAN, informed: BOOLEAN, list: Version,
        asked: 0..MaxEvents, prepared: Nat]

(* Client: what the two objects hold.                                      *)
Values == [daemon: Version, offline: ActionString]
Cached == [daemon: Version, offline: Action]

(* History: daemon instances that have gone since the client watches; the  *)
(* Action that the daemon's TriggerAction stands for; the properties that  *)
(* the daemon's interface sent last; gap[i], what is kept from the client: *)
(* the value was only invalidated, or never sent.                          *)
History == [losses: 0..MaxOwnerChanges, meant: Action, sent: Version,
            gap: [Interface -> {"none", "withheld", "missed"}],
            ownerChanges: 0..MaxOwnerChanges, events: 0..MaxEvents]

TypeOK ==
  /\ stage \in {"none", "watching", "ready"}
  /\ running \in BOOLEAN
  /\ cache \in Cached /\ seen \in Cached
  /\ quits \in Nat
  /\ app \in App
  /\ queue \in Seq(Event)
  /\ calls \in Seq(Call)
  /\ lost \in 0..Len(calls)
  /\ value \in Values
  /\ list \in Version
  /\ up \in BOOLEAN
  /\ history \in History

(* Another client may have triggered an update before.                     *)
Init ==
  /\ stage = "none"
  /\ running = FALSE
  /\ cache = [daemon |-> 0, offline |-> "ActionUnset"] /\ seen = cache
  /\ quits = 0
  /\ app = [listening |-> FALSE, informed |-> FALSE, list |-> EmptyList,
            asked |-> 0, prepared |-> 0]
  /\ queue = <<>> /\ calls = <<>> /\ lost = 0
  /\ value = [daemon |-> 1, offline |-> "reboot"] /\ list = EmptyList
  /\ up \in BOOLEAN
  /\ history = [losses |-> 0, meant |-> "ActionReboot", sent |-> 0,
                gap |-> [i \in Interface |-> "none"], ownerChanges |-> 0, events |-> 0]

external == <<lost, value, list, up, history>>

(***************************************************************************)
(* The Daemon and Offline objects                                          *)
(***************************************************************************)
GetAll(i) == [method |-> "GetAll", iface |-> i]

(* Mutant of getAllProperties: a third interface is asked for.             *)
getTransactionProperties == <<GetAll("daemon"), GetAll("offline"), GetAll("transaction")>>

getAllProperties == <<GetAll("daemon"), GetAll("offline")>>

(* Daemon::global(): the Offline object subscribes to PropertiesChanged,   *)
(* DaemonPrivate watches the owner and asks for all properties ...         *)
Construct ==
  /\ stage = "none"
  /\ stage' = "watching"
  /\ calls' = calls \o getAllProperties
  /\ UNCHANGED <<running, cache, seen, quits, app, queue, external>>

(* ... and only then does Daemon subscribe to PropertiesChanged itself.    *)
Subscribe ==
  /\ stage = "watching"
  /\ stage' = "ready"
  /\ UNCHANGED <<running, cache, seen, quits, app, queue, calls, external>>

(* The event loop runs once the constructor has returned.                  *)
Handling(k) == stage = "ready" /\ queue # <<>> /\ Head(queue).kind = k

(* Mutant of Store: changed() is not emitted.                              *)
StoreQuietly(i, v) == cache' = [cache EXCEPT ![i] = v] /\ UNCHANGED seen

(* A slot that stores v and emits changed().                               *)
Store(i, v) == cache' = [cache EXCEPT ![i] = v] /\ seen' = [seen EXCEPT ![i] = v]

(* transactionListChanged(): reaches the application if it is connected.   *)
Told(tids) == IF app.listening THEN [app EXCEPT !.list = tids] ELSE app

(* Mutant of OwnerLost: daemonQuit() for every NameOwnerChanged.           *)
OwnerLostAlways(e) == TRUE

(* The lambda on serviceOwnerChanged: the daemon of before is gone.        *)
OwnerLost(e) == ~e.new \/ e.old

(* Mutants of OwnerFound: the new instance is not asked for its values;    *)
(* the list is left as it is.                                              *)
OwnerUnasked == UNCHANGED calls /\ app' = Told(EmptyList)
OwnerListKept == calls' = calls \o getAllProperties /\ UNCHANGED app

(* A new daemon: it has no transactions, and is asked for its values.      *)
OwnerFound == calls' = calls \o getAllProperties /\ app' = Told(EmptyList)

OwnerChanged ==
  /\ Handling("owner")
  /\ quits' = IF OwnerLost(Head(queue)) THEN quits + 1 ELSE quits
  /\ IF Head(queue).new THEN OwnerFound ELSE UNCHANGED <<calls, app>>
  /\ running' = Head(queue).new
  /\ queue' = Tail(queue)
  /\ UNCHANGED <<stage, cache, seen, external>>

(* Mutant of UpdateProperties: running is left to NameOwnerChanged.        *)
UpdatePropertiesOnly ==
  /\ Handling("properties")
  /\ Head(queue).iface = "daemon"
  /\ Store("daemon", Head(queue).values[1])
  /\ queue' = Tail(queue)
  /\ UNCHANGED <<stage, running, quits, app, calls, external>>

(* DaemonPrivate::updateProperties(), as the callback of GetAll.           *)
UpdateProperties ==
  /\ Handling("properties")
  /\ Head(queue).iface = "daemon"
  /\ running' = TRUE
  /\ Store("daemon", Head(queue).values[1])
  /\ queue' = Tail(queue)
  /\ UNCHANGED <<stage, quits, app, calls, external>>

(* TriggerAction in initializeProperties().                                *)
Parsed(s) == CASE s = "power-off" -> "ActionPowerOff"
               [] s = "reboot" -> "ActionReboot"
               [] OTHER -> "ActionUnset"

(* OfflinePrivate::initializeProperties(), as the callback of GetAll: the  *)
(* cache is filled and nothing is emitted.                                 *)
InitializeProperties ==
  /\ Handling("properties")
  /\ Head(queue).iface = "offline"
  /\ cache' = [cache EXCEPT !["offline"] = Parsed(Head(queue).values[1])]
  /\ queue' = Tail(queue)
  /\ UNCHANGED <<stage, running, seen, quits, app, calls, external>>

(* Mutant of DaemonPropertiesChanged: what is invalidated is cleared.      *)
DaemonPropertiesCleared ==
  /\ Handling("changed")
  /\ Head(queue).to = "daemon"
  /\ Head(queue).iface = "daemon"
  /\ running' = TRUE
  /\ Store("daemon", IF Head(queue).values = <<>> THEN 0 ELSE Head(queue).values[1])
  /\ queue' = Tail(queue)
  /\ UNCHANGED <<stage, quits, app, calls, external>>

(* DaemonPrivate::propertiesChanged(): the daemon's own properties go      *)
(* through updateProperties(), which ignores what is only invalidated.     *)
DaemonPropertiesChanged ==
  /\ Handling("changed")
  /\ Head(queue).to = "daemon"
  /\ Head(queue).iface = "daemon"
  /\ running' = TRUE
  /\ IF Head(queue).values = <<>>
       THEN UNCHANGED <<cache, seen>>
       ELSE Store("daemon", Head(queue).values[1])
  /\ queue' = Tail(queue)
  /\ UNCHANGED <<stage, quits, app, calls, external>>

(* Mutant of updatedAction: invalidated properties are kept.               *)
actionKept(values) == IF values = <<>> THEN cache.offline ELSE Parsed(values[1])

(* OfflinePrivate::updateProperties(): what is invalidated is reset.       *)
updatedAction(values) == IF values = <<>> THEN "ActionUnset" ELSE Parsed(values[1])

(* It is called by the Daemon object and by the Offline object's own       *)
(* subscription, so twice for each signal.                                 *)
OfflinePropertiesChanged ==
  /\ Handling("changed")
  /\ Head(queue).iface = "offline"
  /\ Store("offline", updatedAction(Head(queue).values))
  /\ queue' = Tail(queue)
  /\ UNCHANGED <<stage, running, quits, app, calls, external>>

(* The Offline object turns away the properties of the other interface.    *)
OfflineIgnores ==
  /\ Handling("changed")
  /\ Head(queue).to = "offline"
  /\ Head(queue).iface = "daemon"
  /\ queue' = Tail(queue)
  /\ UNCHANGED <<client, calls, external>>

(* A list of transactions, from the signal or as the reply to a call.      *)
ListTold ==
  /\ Handling("list")
  /\ app' = [Told(Head(queue).tids) EXCEPT !.informed = TRUE]
  /\ queue' = Tail(queue)
  /\ UNCHANGED <<stage, running, cache, seen, quits, calls, external>>

(* Mutant of FailureTold: preparedUpdates() only for a successful reply.   *)
NoFailureTold(c) == <<>>

(* The slots that a failed call calls: only getPrepared() watches for it.  *)
FailureTold(c) == IF c.method = "GetPrepared" THEN <<[kind |-> "prepared"]>> ELSE <<>>

(* The reply to GetPrepared, or its failure: preparedUpdates().            *)
PreparedUpdates ==
  /\ Handling("prepared")
  /\ app' = [app EXCEPT !.prepared = @ + 1]
  /\ queue' = Tail(queue)
  /\ UNCHANGED <<stage, running, cache, seen, quits, calls, external>>

Client == \/ Construct \/ Subscribe \/ OwnerChanged
          \/ UpdateProperties \/ InitializeProperties
          \/ DaemonPropertiesChanged \/ OfflinePropertiesChanged \/ OfflineIgnores
          \/ ListTold \/ PreparedUpdates

(***************************************************************************)
(* The application                                                         *)
(***************************************************************************)
MoreEvents == history.events < MaxEvents
Counted == [history EXCEPT !.events = @ + 1]

Send(c, a) ==
  /\ stage = "ready"
  /\ MoreEvents
  /\ history' = Counted
  /\ app' = a
  /\ calls' = Append(calls, c)
  /\ UNCHANGED <<stage, running, cache, seen, quits, queue, lost, value, list, up>>

getTransactionList == [method |-> "GetTransactionList"]

(* It connects to transactionListChanged, which is relayed from then on,   *)
(* and asks for the present list.                                          *)
FollowList ==
  /\ ~app.listening
  /\ Send(getTransactionList, [app EXCEPT !.listening = TRUE])

GetPrepared == Send([method |-> "GetPrepared"], [app EXCEPT !.asked = @ + 1])

(* Mutant of actionStr: the two actions are mixed up.                      *)
actionMixed(a) == IF a = "ActionPowerOff" THEN "reboot" ELSE "power-off"

actionStr(a) == IF a = "ActionPowerOff" THEN "power-off" ELSE "reboot"

(* Offline::trigger() and triggerUpgrade(), which assert a # ActionUnset.  *)
Trigger(a) ==
  /\ a # "ActionUnset"
  /\ Send([method |-> "Trigger", action |-> actionStr(a), meant |-> a], app)

(* Offline::cancel(): there is no action any more.                         *)
Cancel == Send([method |-> "Trigger", action |-> "unset", meant |-> "ActionUnset"], app)

Application == FollowList \/ GetPrepared \/ Cancel \/ \E a \in Action : Trigger(a)

(***************************************************************************)
(* The daemon and the bus (not under src/)                                 *)
(***************************************************************************)
(* The oldest call is answered with what the daemon has now.               *)
Serving(m) == up /\ lost = 0 /\ calls # <<>> /\ Head(calls).method = m /\ calls' = Tail(calls)

AnswerGetAll ==
  /\ Serving("GetAll")
  /\ LET i == Head(calls).iface IN
     /\ queue' = Append(queue, [kind |-> "properties", iface |-> i, values |-> <<value[i]>>])
     /\ history' = [history EXCEPT !.gap[i] = "none",
                                   !.sent = IF i = "daemon" THEN value[i] ELSE @]
  /\ UNCHANGED <<client, lost, value, list, up>>

AnswerList ==
  /\ Serving("GetTransactionList")
  /\ queue' = Append(queue, [kind |-> "list", tids |-> list])
  /\ UNCHANGED <<client, external>>

AnswerPrepared ==
  /\ Serving("GetPrepared")
  /\ queue' = Append(queue, [kind |-> "prepared"])
  /\ UNCHANGED <<client, external>>

(* It fails: its daemon is gone, none can be started, or none answers.     *)
FailCall ==
  /\ calls # <<>>
  /\ lost > 0 \/ ~up \/ ("silent" \in Faults /\ Head(calls).method = "GetAll")
  /\ lost' = IF lost > 0 THEN lost - 1 ELSE 0
  /\ calls' = Tail(calls)
  /\ queue' = queue \o FailureTold(Head(calls))
  /\ history' = IF lost = 0 /\ up /\ Head(calls).method = "GetAll"
                  THEN [history EXCEPT !.gap[Head(calls).iface] = "missed"] ELSE history
  /\ UNCHANGED <<client, value, list, up>>

(* A property becomes v, and the objects that have subscribed are told.    *)
Subscribers == CASE stage = "none" -> <<>>
                 [] stage = "watching" -> <<"offline">>
                 [] stage = "ready" -> <<"offline", "daemon">>

Asked(i) == \E n \in (lost + 1)..Len(calls) : calls[n] = GetAll(i)

Change(i, v, h) ==
  /\ up
  /\ value' = [value EXCEPT ![i] = v]
  /\ \E vs \in {<<v>>} \cup (IF "invalidate" \in Faults THEN {<<>>} ELSE {}) :
       /\ queue' = queue \o [n \in DOMAIN Subscribers |->
                     [kind |-> "changed", to |-> Subscribers[n], iface |-> i, values |-> vs]]
       /\ history' = [h EXCEPT !.gap[i] =
            IF stage = "watching" /\ i = "daemon" THEN IF Asked(i) THEN @ ELSE "missed"
            ELSE IF stage # "none" /\ vs = <<>> THEN "withheld" ELSE "none",
                           !.sent = IF stage = "ready" /\ i = "daemon" /\ vs # <<>> THEN v ELSE @]
  /\ UNCHANGED <<client, lost, list, up>>

ChangeDaemon ==
  /\ MoreEvents
  /\ Change("daemon", value.daemon + 1, Counted)
  /\ UNCHANGED calls

(* Trigger or Cancel, from the application or another client.              *)
AnswerTrigger ==
  /\ Serving("Trigger")
  /\ Change("offline", Head(calls).action, [history EXCEPT !.meant = Head(calls).meant])

(* The user is not authorised.                                             *)
RefuseTrigger ==
  /\ Serving("Trigger")
  /\ UNCHANGED <<client, queue, external>>

ChangeOffline ==
  /\ MoreEvents
  /\ Change("offline", "power-off", [Counted EXCEPT !.meant = "ActionPowerOff"])
  /\ UNCHANGED calls

(* A transaction comes or goes.                                            *)
ChangeList ==
  /\ up
  /\ MoreEvents
  /\ history' = Counted
  /\ list' = history.events + 1
  /\ queue' = IF app.listening THEN Append(queue, [kind |-> "list", tids |-> list']) ELSE queue
  /\ UNCHANGED <<client, calls, lost, value, up>>

(* The owner of the bus name changes; a new instance has properties of its *)
(* own and no transactions.                                                *)
OwnerChange(old, new, h) ==
  /\ history.ownerChanges < MaxOwnerChanges
  /\ up = old
  /\ up' = new
  /\ queue' = IF stage = "none" THEN queue
                ELSE Append(queue, [kind |-> "owner", old |-> old, new |-> new])
  /\ history' = [h EXCEPT !.ownerChanges = @ + 1,
                          !.gap = IF new THEN [i \in Interface |-> "none"] ELSE @]
  /\ list' = EmptyList
  /\ UNCHANGED <<client, calls>>

(* The daemon goes, perhaps replaced at once; the calls it has received    *)
(* are lost.                                                               *)
LoseOwner ==
  /\ \E new \in BOOLEAN :
       /\ OwnerChange(TRUE, new, [history EXCEPT !.losses = @ + IF stage = "none" THEN 0 ELSE 1])
       /\ value' = [value EXCEPT !.daemon = IF new THEN @ + 1 ELSE @]
  /\ lost' \in lost..Len(calls)

(* A daemon is started; it finds the action that was triggered, unless     *)
(* that has been reset meanwhile.                                          *)
StartOwner ==
  /\ \E a \in {[value |-> value.offline, meant |-> history.meant],
               [value |-> "unset", meant |-> "ActionUnset"]} :
       /\ OwnerChange(FALSE, TRUE, [history EXCEPT !.meant = a.meant])
       /\ value' = [daemon |-> value.daemon + 1, offline |-> a.value]
  /\ UNCHANGED lost

Answer == AnswerGetAll \/ AnswerList \/ AnswerPrepared \/ AnswerTrigger \/ RefuseTrigger
          \/ FailCall

Service == ChangeDaemon \/ ChangeOffline \/ ChangeList \/ LoseOwner \/ StartOwner

Next == Client \/ Application \/ Answer \/ Service

Spec == Init /\ [][Next]_vars

(* The constructor and the event loop run, and the bus settles every call. *)
FairSpec == Spec /\ WF_vars(Client) /\ WF_vars(Answer)

(***************************************************************************)
(* Properties                                                              *)
(***************************************************************************)
Quiet == stage = "ready" /\ queue = <<>> /\ calls = <<>>

(* Once everything has been handled, isRunning() is right: it is never     *)
(* left TRUE, nor FALSE unless the daemon has not answered a word.         *)
RunningConverges ==
  Quiet => /\ running => up
           /\ up /\ history.gap["daemon"] # "missed" => running

(* Once everything has been handled, the getters return what the daemon    *)
(* has: neither a restart nor a change that overtakes a GetAll is lost,    *)
(* and triggerAction is the action of the last trigger() or cancel() that  *)
(* was accepted.  Where the daemon has only invalidated a value,           *)
(* triggerAction is reset, but the getters of the daemon's interface,      *)
(* which passes over invalidatedProperties, return what was sent last.     *)
Current(i) ==
  CASE history.gap[i] = "none" ->
         cache[i] = IF i = "daemon" THEN value.daemon ELSE history.meant
    [] history.gap[i] = "withheld" ->
         cache[i] = IF i = "daemon" THEN history.sent ELSE "ActionUnset"
    [] OTHER -> TRUE
CacheConverges == Quiet /\ up => \A i \in Interface : Current(i)

(* daemonQuit() is emitted once for each instance of the daemon that goes, *)
(* and not again when it exits cleanly or is replaced.                     *)
Count(q, kind) == Cardinality({i \in DOMAIN q : q[i] \in kind})

Losses == {e \in Owner : e.old \/ ~e.new}
QuitOncePerLoss == quits + Count(queue, Losses) = history.losses

(* An application that reads a daemon property at each changed() ends up   *)
(* with the daemon's value.                                                *)
DaemonChangesShown ==
  Quiet /\ up /\ history.gap["daemon"] = "none" => seen["daemon"] = value["daemon"]

(* The same for the Offline object.                                        *)
OfflineChangesShown ==
  Quiet /\ up /\ history.gap["offline"] = "none" => seen["offline"] = history.meant

(* An application that connects to transactionListChanged() and then asks  *)
(* for the list ends up with the daemon's, also when the daemon restarts.  *)
ListFollowed == Quiet /\ up /\ app.informed => app.list = list

(* Each getPrepared() is answered by one preparedUpdates(), also when the  *)
(* call fails or the daemon crashes.                                       *)
PreparedOnce ==
  app.asked = app.prepared + Count(queue, {[kind |-> "prepared"]})
                           + Count(calls, {[method |-> "GetPrepared"]})

(* In the end the client knows that the daemon is up and what it has.      *)
EventuallyCurrent ==
  <>[](up /\ history.gap["daemon"] = "none" => running /\ \A i \in Interface : Current(i))
=============================================================================

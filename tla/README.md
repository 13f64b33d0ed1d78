# PackageKit-Qt in TLA+

PackageKit-Qt is a Qt library through which an application talks to the
PackageKit daemon over D-Bus. It has no threads of its own and little state, but
everything it does is asynchronous: objects are handed to the application before
the daemon knows of them, delete themselves when they are done, and mirror state
of a process that may exit, crash and be restarted at any moment. The repository
has no tests. This directory models that behaviour, model-checks it with TLC and
proves the core of it with TLAPS.

## The system

| Component | State | Operations | Talks to |
|---|---|---|---|
| `Daemon` / `DaemonPrivate` (`daemon.cpp`, `daemonprivate.cpp`) | singleton; `running`, cached properties, global `hints`, `connectedSignals` | factory methods (one per request), getters, `setHints`, `propertiesChanged`, `updateProperties`, the owner watcher | D-Bus proxy of the daemon; `daemonQuit()` to every Transaction; `offline->d_ptr->updateProperties()` |
| `Transaction` / `TransactionPrivate` (`transaction.cpp`, `transactionprivate.cpp`) | `p` (the proxy, null until the tid is known), `sentFinished`, `connectedSignals`, `hints`, `role` and the request fields, cached properties | constructors, `connectNotify`, `cancel`, `setHints`; slots `setup`, `runQueuedTransaction`, `finished`, `destroy`, `daemonQuit`, `updateProperties`, the result slots | D-Bus proxy of the transaction; signals to the application; `deleteLater()` |
| `Offline` / `OfflinePrivate` (`offline.cpp`) | cached properties of the offline interface | `initializeProperties`, `updateProperties`, `trigger`, `triggerUpgrade`, `cancel`, `getPrepared`; calls that are only forwarded | D-Bus; `changed()` to the application |
| Result decoding (`transactionprivate.cpp` 212-246, 339-480) | none | one slot per D-Bus signal | signals to the application |
| Enum names (`daemon.cpp` 711-782), package ids (`transaction.cpp` 195-256), `Bitfield`, `Details` | none | pure conversions | - |

What is hard, and what each component must guarantee:

* **Transaction**: replies of two calls, the proxy's signals, `daemonQuit()` and
  the deferred deletion race with each other and with the application. Each
  object must report one outcome, the right one, before it is deleted, and must
  be deleted in the end; also when a slot of the application, asking the user
  for the next disc, runs an event loop in the middle of a slot of the library.
* **Setup**: a burst of messages is sent when the tid arrives; the bus acts on
  some, the daemon on others, and the daemon may emit before the burst has been
  taken. No result, property change or hint may be lost, the request must
  arrive as it was made, and an application that is notified of one property
  must not find the others unset.
* **Daemon and Offline caches**: replies, change signals and owner changes of
  several daemon instances overlap, and calls die with their daemon. The caches
  and the list of transactions must end up with the values of the instance that
  is there, and a call that promises an answer must get one.
* **Results and conversions**: results come alone and in lists, with two values
  packed in one number; a set of 64 bits becomes a list of names; an id is cut in
  four. Nothing may be lost, repeated or moved.

`PROJECT.json` lists each hazard at the line where it bites, with the property
that would catch it or the reason why none does.

## The modules

    TransactionContract          what one Transaction promises (abstract)
      ^ implemented by
    Transaction                  life of the Transaction objects, slots atomic
      ^ proved in TransactionProofs, VerdictProofs and RepeatProofs
    NestedLoops                  one Transaction whose slots run event loops
      ^ proved in NestedProofs
    TransactionSetup             from the factory method to the dispatched call
      ^ instantiated by MCTransactionSetup, proved in SetupProofs
    DaemonProxy                  Daemon and Offline as caches of the daemon
      ^ proved in ProxyProofs
    Names                        conversions of groups, names and package ids
      ^ proved in NamesProofs, used by
    Results                      a search and the relay of its results
      ^ instantiated by MCResults, proved in ResultsProofs

### Transaction

Any number of objects: `Own` ones come from factory methods, `Foreign` ones from
`Transaction(tid)`. `tx[t]` holds the fields the life cycle depends on: `p` is
the proxy pointer, `sentFinished` the flag of that name, `dying` that
`deleteLater()` was called. `exits` and `errors` record what `finished()` and
`errorCode()` carried; the daemon's `Finished` may carry any member of `Verdict`,
`ExitKilled` included.

A connection to a D-Bus signal is a match rule on its way to the bus. `setup()`
sends a burst, with the rule for `Destroy` and, if the application listens, that
for `Finished`; `connectNotify()` after it sends one more. They lie in `wire` until
`TakeRules` moves a burst to `wired`, and what the daemon emits before is lost to
this client. The method call travels behind the burst (`Called`), so that the
order is what protects an own transaction; an attached one has no such order.
`TransactionSetup` follows the messages of the burst one by one.

The private slots are operators on one object (`finished`, `destroy`,
`daemonQuit`, `callFailed`, `setup`), composed as the code composes them:
`daemonQuit(s) == IF s.p THEN destroy(finished(errorCode(s, ...), "killed")) ...`.
Each event handler is one action. `queue` is the event queue of the client's one
thread: QtDBus posts replies and signals to it in the order of their arrival,
and `deleteLater()` posts the deletion there. An event for a deleted receiver, or
from a deleted proxy, is dropped (`Discard`). A `daemonQuit()` emission reaches
the objects one by one in any order and nothing else runs meanwhile
(`quitting`).

The daemon is external. `srv[t]` is the transaction in it: `"gone"` if it has
destroyed the transaction, `"lost"` if the instance that had it has left the bus.
It answers, refuses or ignores calls, finishes and
destroys transactions, and comes and goes. `Faults` says what may go wrong:
`"lost"` (it goes while transactions run), `"expired"` (it destroys a tid nobody
ran), `"timeout"` (the reply comes too late), `"unsent"` (the call fails before
it leaves the client).

### TransactionSetup

One Transaction in detail up to the dispatch. `Factory` and `DispatchTable` are
the tables in `daemon.cpp` and in `runQueuedTransaction()`: which role and which
fields a factory method sets, which method and which fields a role leads to.
`Behind` is `setupSignal()`. A request field is either assigned (`given`) or not;
its value does not matter. `setupMessages` is what `setup()` sends, in order, to
`wire`; the bus takes the messages one at a time: `Subscribe` enters the match
rules of one subscription (`Watch`) into `matched`, signal by signal, `Forward`
hands a call to the daemon's `inbox`. The daemon emits a signal at the moment the
bus routes it; only subscribed signals arrive.

Three of the properties are kept: RemainingTime, Role and Status, in the order of
the keys of a `QVariantMap`. `updateProperties` handles the reply to `GetAll` and
`PropertiesChanged` alike: it stores the members in that order and posts one
notification for each (`QMetaObject::invokeMethod` with a queued connection),
except for those in `Direct`, which are emitted between two members. `saw.blind`
collects the properties an application was notified of while another one had
never been received.

### DaemonProxy

The properties of the daemon's interface are one version number, 0 for "never
received"; those of the Offline interface are its `TriggerAction`, a string on
the bus (`actionStr`) that `Parsed` turns back. `cache[i]` is what the getters
return, `seen[i]` what an application knows that reads the getters at each
`changed()`. `Construct` and `Subscribe` are the two halves of
`Daemon::global()`, between which the D-Bus thread may work. The callback of
`GetAll` and `PropertiesChanged` are actions of their own for each interface,
and `PropertiesChanged` arrives twice, since `Daemon` and `Offline` both
subscribe.

The application triggers or cancels offline updates, asks for the prepared ones,
and follows the list of transactions (`FollowList`: it connects to
`transactionListChanged` and calls `getTransactionList`). `calls` is what the
daemon has not answered; when the daemon goes, some of it is `lost` and fails,
the rest reaches the next instance. `history` says what really happened:
`losses` counts the instances that went, `meant` is the action behind the
string, `sent` the last value that a message carried, and `gap[i]` is set where
the client has not been told a value, because the daemon only invalidated it
(`"withheld"`) or because no message carried it (`"missed"`: an unanswered
`GetAll`, or a change in the middle of the constructor).

### NestedLoops

In `Transaction` a slot runs to its end. Here a slot is a sequence of
statements (`finished`, `destroy`, `daemonQuit`, `callFailed`,
`updateProperties`, `Packages`, `relay`), `stack` holds what the slots that have
not returned have yet to do, and a slot of the application that is connected to
a signal in `NestedIn` may put a `Loop` on top, in which the events of the same
object are handled by further slots. `deleteLevel` is Qt's rule for deferred
deletion: an event loop carries it out only if it was running when
`deleteLater()` was called, or encloses a loop that was (`HandleDelete`);
otherwise the event is posted again. `deleteLater()` called twice posts one
event.

### Names and Results

`Names` has no state. An enumeration key or a name is a sequence of words and
separators, a word is capitalised or not: `hyphenated` is the loop of
`enumToString()`, `camelCased` that of `enumFromString()`. A `Bitfield` is the set
of its bits. A package id is a sequence of characters of which only the
separator matters. `Results` composes them: the application collects groups
(`operator|=`) and searches, the daemon reports packages and update details in
single signals or in lists (`Report`, `ReportTwo`), and `Relay` calls the slot of
the signal (`Slot`). The info is one number, with the severity in its upper 16 bits.

### TransactionContract

The abstract specification: absent, active, reported, deleted, and an outcome
that is fixed by the first report. `Transaction!KeepsContract` is the refinement
with `phase` and `outcome` computed from `tx`; `NestedLoops!KeepsContract` is the
same for one object and slots that are interrupted.

## The runs

| Run | Instance | Shows |
|---|---|---|
| `transaction_faulty` | 1 own, 1 attached, the daemon says success or killed, all faults, 2 owner changes | `TypeOK`; `VerdictWins`: the exit status the daemon announced to an application whose rules the bus had is the first one it hears; `KilledWithItsDaemon`: `daemonQuit()` reports an own transaction only if the instance that created it has left the bus; `RepeatsOnlyFailure`: a second `finished()` says failed or killed, and there is no third; `KeepsContract` |
| `transaction_live` | same, success, all faults, 1 owner change, fairness | `OwnDeleted`: no own object lives for ever; `ForeignDeleted`: nor an attached one whose rule for `Destroy` came in time; the others are deleted when the daemon that had the transaction goes |
| `transaction_crash` | 1 own, `"lost"` | `FinishedOnce` fails: killed, then failed |
| `transaction_cancel` | 1 own, no faults | `CancelTakesEffect` fails: `cancel()` before the tid is known is dropped |
| `setup` | all 32 factory methods and attaching, 2 slots on `package()`, 2 hint lists, 1 status change | `TypeOK`; `RequestDelivered`: the method of the request with its parameters; `EarlyResultsArrive`, `ResultsOnce`, `HintsInEffect`, `PropertiesConverge`; `QueuedMeansReady`: all notifications but `remainingTimeChanged()` come when everything has been received |
| `setup_old_transactions` | `getOldTransactions` | `EarlyResultsArrive` fails: the slot for `Transaction` does not exist |
| `proxy` | 2 owner changes, 2 events, invalidation, unanswered `GetAll`, fairness | `TypeOK`, `RunningConverges`; `CacheConverges`: the getters return what the daemon has, and where it only invalidated a value the Offline object the default and the daemon's getters the last value sent; `DaemonChangesShown`; `QuitOncePerLoss` (the TODO at `daemonprivate.cpp:50`: no); `ListFollowed`, `PreparedOnce`, `EventuallyCurrent` |
| `proxy_offline` | 1 owner change, 1 event | `OfflineChangesShown` fails: `GetAll` fills the Offline cache without `changed()` |
| `nested_relayed` | event loops in `mediaChangeRequired()`, 3 deep, crash, fairness | `TypeOK`, `FinishedOnce`, `NoResumeAfterDelete`, `KeepsContract`, `ReportedDeleted` |
| `nested_finished` | event loops in `finished()`, no crash | `FinishedOnce` fails: `destroy()` reports again before `sentFinished` is set |
| `results_relayed` | groups at both ends, of two words and beyond the enumeration; 7 ids; 2 results | `TypeOK`, `GroupsDelivered`, `ShownAsReported`, `IdsReassembled` |
| `results_batched` | severities packed in lists too | `ShownAsReported` fails: `Packages()` does not unpack the info |

**Bounds.** Objects interact only through the queue and the owner change: one
object of each kind shows every order of its own events against the other's. Two
owner changes reach loss, replacement at once, loss after a start and start after
a loss, with `GetAll` calls of both instances under way. `Verdict` has one status
that only the daemon gives and the one that `daemonQuit()` gives too; the others
are treated as the first. `MaxEvents = 2` counts
changes inside the daemon and calls of the application together: two changes of
one property, a change and a call that races with it, or `FollowList` and a
change of the list. Two slots on one signal are what tells one relay from two,
and `package()` is a signal with two relays. Two hint lists and two calls of
`setHints()` reach every order of own and global hints around `setup()`.
`MaxLoops = 3` is one loop below, one at and one above the slot that asks for the
deletion; `MaxSignals = 4` lets each of the three loops be entered and one more
result arrive. Two results show every order of single signals and lists; the ids
have each part empty and from none to five separators. No other constant limits
a run: queues and logs are bounded by the protocol. Deadlock is not checked
because a client whose objects are deleted, or whose bounded environment is used
up, stops.

**Fairness.** `WF` of the event loop (Qt delivers posted events), of the bus (it
takes every match rule it is sent), and of the daemon per transaction: libdbus
completes every pending call with a reply or an error, and the daemon ends what
it runs. In `NestedLoops`, `WF` of the thread and of leaving a nested loop: the
user closes every dialog. Nothing is assumed of the application, of the owner
changes, or of a transaction a client never attached to.

**Other observations**, reproducible by changing a constant or a property:

* `FinishedOnce` fails in `Transaction` with `Faults = {"expired"}` as it does with
  `{"lost"}`: unknown, then failed. With the other two alone it holds,
  for 1 own and 1 attached object and 2 owner changes (1.5 million states), and by
  `OnceOnly` for any.
* `NoResumeAfterDelete` fails with `NestedIn` one of `{"finished"}`, `{"errorCode"}`,
  `{"remainingTimeChanged"}` and `{"package"}` (two packages in one signal): these
  signals are emitted in the middle of a slot that goes on to use `this`. The
  contract is kept in all of them.
* `remainingTimeChanged()` of a request may come before its role and status have
  been received (`QueuedMeansReady` has to leave it out), although `NEWS:168` says
  "Queue signals so that all transaction properties are available when needed".
* `PropertiesConverge` and `QueuedMeansReady` are stated for own requests. They fail
  for an attached transaction: `setup()` asks for the properties before it watches
  them, so `status()` may stay behind. An own transaction is safe because its
  method is sent after both.
* A change between the two halves of `Daemon::global()` is not seen until the next
  one (`gap = "missed"`), and an unanswered first `GetAll` leaves `isRunning()` false.
* While there is no daemon the application keeps the list of transactions of the
  old one; the empty list is told when the next one appears.
* A failed `getPrepared()` is answered with an empty list.
* A group number without a name is sent as an empty string.
* An object attached to a tid that is already gone, or that the daemon destroys
  before the bus has taken the rule for `Destroy`, lives until the daemon goes:
  `ForeignDeleted` without `"Destroy" \in tx[t].wired` fails.
* Its second part cannot do without the daemon that had the transaction: an object
  attached to a tid of an instance that has left the bus before lives until the
  next one goes too.
* An application that connects to `finished()` while the transaction runs may miss
  the daemon's `Finished` and be told `ExitUnknown` by `destroy()`.
* `KilledWithItsDaemon` is about own objects. An object attached to a transaction
  of a new daemon has its proxy at once, and `daemonQuit()` for the old daemon, if
  it is handled after that, reports it killed.
* A property of the daemon's interface that is only invalidated keeps its value in
  the cache, `propertiesChanged()` not looking at `invalidatedProperties`
  (`daemonprivate.cpp:100`); the Offline object resets its own. `CacheConverges`
  states both, and neither object asks for the new value.

## The proofs

`TransactionProofs` proves, for all sets of objects, all faults and all numbers
of owner changes (assuming only `VerdictAssumption`, `OwnershipAssumption`,
`FaultsAssumption`, `OwnerChangesAssumption`):

* `TypeCorrect == Spec => []TypeOK`. `TypeOK` is inductive by itself; the lemmas
  go operator by operator (`FinishedTyped`, `DestroyTyped`, ...) and then action
  by action.
* `ContractKept == Spec => KeepsContract`. `TypeOK` is not enough: a step that
  deletes an object must know that the object has reported. The inductive
  invariant `ContractInv` adds that an object that is dying, deleted or has
  `sentFinished` has reported (`ObjectInv`), and that a deletion in the queue
  belongs to a dying object (`DeletionsOfDying`). Every handler moves its object
  *forward* (`Forward`): reports are only appended, so the first one stays. A
  forward move is a `Report` or a stutter of the contract, a deletion is
  `Delete`, everything else is a stutter.

`VerdictProofs` proves from the same assumptions:

* `OnlyOrphansKilled == Spec => KilledWithItsDaemon`: `daemonQuit()` tells objects
  of the lost daemon from the others by `p` alone, and the owner change may be
  handled long after it happened. The theorem is about the step of `daemonQuit()`,
  whatever the daemons' own `Finished` carry. The argument is about the order of
  events in the queue. `NoTidYet`: an object whose transaction the daemon has not
  made has no proxy and no tid on its way. `LossFirst`: in front of a loss that has
  not been handled no tid is waiting whose transaction is not `"lost"`, because the
  later daemon, which made it, answered after the loss. So while a loss is handled,
  an object with a proxy is one whose transaction went with its daemon.
* `VerdictReported == Spec => []VerdictWins`. Each own transaction passes through
  the stages `Unborn`, `Asking`, `Answered`, `Undisturbed` and `Announced` (together
  its `Lane`). While the daemon works on it, the object is untouched, has its
  proxy, the bus has the rule for `Finished` if the application listens and its
  rules have arrived (`Wired`), and nothing is in the
  queue that could make it report (`Harmless`); so when `Finished` is emitted it is
  the first of its kind there, and the `Destroy`, the error reply and the owner
  change that may follow are behind it. That no loss of an earlier daemon is in
  front of it is `LossFirst`, that no deletion is, `ContractInv`: the invariants of
  the two theorems before are part of this one.

`RepeatProofs` proves from the same assumptions:

* `RepeatsBounded == Spec => []RepeatsOnlyFailure`. The answer to
  `CreateTransaction`, the failure of the method call and `Finished` are posted
  once each, and no failure behind `Finished` (`Answers`). So an object that has
  reported and kept its proxy has no `Finished` and no failed call left, and its
  transaction is not running: only `daemonQuit()` can make it report again.
  Without the proxy only the failure of a call it has given up can. After the
  second report neither is possible (`Repeats`). That `sentFinished` keeps
  `destroy()` from reporting is `ContractInv`, which is part of the invariant.
* `OnceOnly`: `FinishedOnce` holds always if `Faults \subseteq {"timeout", "unsent"}`.
  `RepeatInv` leaves two ways to a second report, `daemonQuit()` and a failed call,
  and what excludes them is again the order of events. When the tid is taken
  every loss in the queue is over (`LossesFirst`: the daemon that made it was not
  lost before), and a later loss finds the daemon idle, so that `Destroy` has
  been emitted to whoever has a proxy; hence in front of each loss there is
  `Destroy` (`Ended`) and `daemonQuit()` finds no proxy. An attached object may have
  come too late for `Destroy`; then it has not reported either, and no `Finished`
  is in front of the loss (`Unheard`, `Fresh`): it is killed as its first report.
  That `Destroy` was heard rests on the match rules (`Rules`): the rule for `Destroy`
  is the first an object sends and the method call is behind it, so the bus has it
  before an own transaction runs, and before `Finished` of another client's is
  heard.
  No failed call is behind `Destroy` (`ErrorsFirst`), because the daemon destroys
  what is over, and a call that was refused or timed out was answered before.
  `CalmInv` and `QuitInv` say this of the queue and of the running emission.

`NestedProofs` proves, for any set of signals whose slots run event loops, with
and without crashes and for all bounds (assuming only `NestedAssumption`,
`CrashesAssumption`, `NestedBounds`):

* `TypeCorrect == Spec => []TypeOK`. To see that the stack stays within its bound,
  one must know that a loop below the top leaves room for the slot on top of it
  (`LoopsBelow`).
* `ContractKept == Spec => KeepsContract`, for slots that may be interrupted
  anywhere. Every slot is `Clean`: it reports before it sets `sentFinished` or asks
  for the deletion, and what is left of an interrupted slot is still in that
  order unless it has reported. As long as nothing has been reported
  (`UntilReported`), every slot on the stack is `Ordered`, `sentFinished` is unset
  and no deletion is in the queue; after the first report the contract has
  nothing left to lose.

and under a hypothesis on the signals

* `ReportedOnlyOnce`: `FinishedOnce` holds always if
  `NestedIn \cap {"errorCode", "finished"} = {}`. Then only the slot on top of the
  stack may have a report to make (`TopReports`), and between the report and the
  assignment of `sentFinished` no other slot comes in; the daemon ends the
  transaction once (`EndedOnce`).
* `NeverResumed`: `NoResumeAfterDelete` holds always if
  `NestedIn \subseteq {"mediaChangeRequired"}`. That signal is emitted by the last
  statement of its slot, so below the top of the stack there is nothing but the
  loops (`Waiting`).

TLC shows that none of these hypotheses can be weakened by a single element: each
of `"lost"` and `"expired"` alone violates `FinishedOnce` in `Transaction`; in
`NestedLoops` each of `errorCode` and `finished` alone violates it without a crash,
and each of `errorCode`, `finished`, `package` and `remainingTimeChanged` alone
violates `NoResumeAfterDelete`.

`SetupProofs` proves, for any requests, signals, hint lists and bounds (assuming
only `RequestsAssumption`, `AttachingAssumption`, `ListenedAssumption`,
`SetupBoundsAssumption`), `TypeCorrect`, `Delivered` (`RequestDelivered`),
`HintsRight` (`HintsInEffect`), `NotifiedReady` (`QueuedMeansReady`),
`PropertiesRight` (`PropertiesConverge`), `ReportedOnce` (`ResultsOnce`) and
`ResultsArrive` (`EarlyResultsArrive`, if `Listened` has no signal of
`NoSuchSlot`: exactly the finding of `setup_old_transactions`). They share one
inductive invariant, `Inv`, about the order of messages:

* What is in front of the method call, in the `inbox` or on the `wire`
  (`CallInv`): always a message of a certain kind (`Ahead`), or never one
  (`Unhindered`). The hints of the time of `setup()` are in front of it or in
  effect already, and no others are (`HintInv`); `GetAll` is, or its reply has
  been posted (`KnownInv`); a subscription is, or it is in force (`Sees`). None of
  these is inductive alone: that the daemon says nothing before the call has
  reached it is what joins them.
* What is in the event queue: the first properties to come are the complete ones
  (`KnownInv`), the last value of a property that is queued, or else the one the
  client has stored, is the daemon's (`SettleInv`, `Settles`).
* What becomes of a result: a D-Bus signal is relayed once if one of the
  connected signals needs it (`RelayInv`); it is in the queue once or has been
  heard once (`OnceInv`), and one of the two if it was emitted and somebody had
  connected early (`EarlyInv`).

`ProxyProofs` proves, for all faults and bounds (assuming only
`ProxyFaultsAssumption`, `BoundsAssumption`), `TypeCorrect`, `RunningRight`
(`RunningConverges`), `CachesRight` (`CacheConverges`), `DaemonShown`
(`DaemonChangesShown`), `ListRight` (`ListFollowed`), `QuitsCounted`
(`QuitOncePerLoss`) and `PreparedCounted` (`PreparedOnce`):

* `TypeInv` adds to the types that the counters of the environment bound the
  version numbers and lists (`Bounded`).
* A property that says "once everything has been handled" is not inductive: it
  must be said what the pending events and calls will make of the client. The
  four invariants `RunningInv`, `DaemonInv`, `OfflineInv` and `ListInv` have one
  form: either the value is going to be asked for (`Awaited`: a call the present
  daemon has yet to answer; `Refetched`: or its start has yet to be noticed), or
  it is settled (`Settles`: the last event that would change the client's value
  leaves the daemon's, or there is none and the client has it). A step then
  `Passes` without an event of that kind, or the last event it posts is a good
  one (`Lands`). `SentInv` says the same of the value that was sent last, and needs
  no exception: it is what the getters have where a value was only invalidated.
* The two counting properties are invariants with `TypeInv`: each event of a
  counted kind is one more in the queue or one more that has been handled.

`NamesProofs` proves, for all inputs and from no assumption on constants,

* `NamesRoundTrip`: `enumFromString()` undoes `enumToString()`, for every key of
  capital words, of any number, none of which is a dash or a tilde;
* `IdReassembled`: the four parts of a package id, put together, give the id
  (`Reassembled`), for every sequence of characters with any number of separators
  in any place;
* `AllRead`, the lemma behind `GroupsSent` below: `searchGroups()` names exactly the
  bits of the set that are groups, each once.

The conversions compute with functions that the library of modules defines by
recursion over a sequence (`FlattenSeq`, `FoldLeft`). The induction theorems of the
library cannot be used for them, so the induction is done by hand: of all lengths
at which the recursive function would not have the value that is claimed there is
a smallest (`Least`, from the well-foundedness of the numbers), and one step of
the recursion leads from the length before to a contradiction (`FlatExists` and
what follows it). The library defines such a function by `CHOOSE`; that there is
one and that it is unique is proved in the same way.

`ResultsProofs` proves, for any sets of bits and any ids that are sequences
(assuming `BitsAssumption`, `IdsAssumption`), `GroupsSent` (`GroupsDelivered`: the names
that are sent are read back as the groups that were asked for, none missing and
none repeated) and `IdsShown` (`IdsReassembled`): the invariants `Asked` and `Entries`
say where names and ids come from, `NamesProofs` what becomes of them.

It also proves, for any results and any number of them (assuming only
`BitsAssumption`, `InfosAssumption`, `BatchesAssumption`), `TypeCorrect` and
`ResultsShown` (`ShownAsReported`), both under the hypothesis
`PackedBatches = FALSE`, without which `results_batched` refutes the second. The
invariant `Inv` gives each signal in the queue the position of its first result
in the history: the first signal starts behind what has been shown, each one
where the one in front of it ends, and the last ends with the history
(`Starts`). That a slot tells what was meant (`SingleTold`, `PairTold`) is the
arithmetic of the two halves (`Unpacked`).

Only model-checked are the liveness properties `OwnDeleted`, `ForeignDeleted`,
`ReportedDeleted` and `EventuallyCurrent`: fairness and `ENABLED` are out of the
prover's reach. Every safety property of a run that passes is proved, for all
values of the constants. The theorems with a hypothesis (`OnceOnly`,
`ReportedOnlyOnce`, `NeverResumed`, `ResultsArrive`, `ResultsShown`) need it: a run or
an observation above refutes their property where it does not hold.

## Plan

Done, in order of importance: the life cycle of transactions, its contract and
its proofs, with the condition under which it reports once; the caches of `Daemon`
and `Offline` and theirs; setup, dispatch and the notifications, proved to keep the
order of messages; slots that run event loops and the contract proved for them;
results and conversions, with the relay and the conversions proved for every
input.

Left: the object that `transaction()` hands out for an old transaction, once its
slot can be called; the other operators of `Bitfield`, with shifts by 64 and more.

## Not modelled

* An application that deletes the objects itself, or deletes one from a slot
  without `deleteLater()`.
* The contents of results other than packages and update details: those slots
  cast and forward.
* D-Bus errors of calls nobody looks at (`SetHints`, `Cancel`, the transaction's
  `GetAll`).
* Ten of the thirteen properties of a transaction, which are stored and queued
  like `Status`.
* `Details`, the getters, and calls that are only forwarded (`getResults` and
  `clearResults` of `Offline`; `setProxy`, `stateHasChanged` and `canAuthorize` of
  `Daemon`): they keep no state in the library.
* The build system.

------------------------- MODULE TransactionContract -------------------------
(***************************************************************************)
(* What PackageKit-Qt promises about one Transaction object, whatever the  *)
(* daemon and the bus do: the object becomes active when it is             *)
(* constructed, reports one outcome to the application, and is only then   *)
(* deleted by the library ("Transaction will be automatically deleted      *)
(* after finished() is emitted", transaction.h).  The outcome is the exit  *)
(* status of the first finished() signal and never changes afterwards.     *)
(***************************************************************************)
CONSTANTS
  Txn,      \* the Transaction objects
  Exit,     \* the exit statuses finished() can carry
  NoExit    \* no outcome has been reported yet

VARIABLES
  phase,    \* phase[t]: how far the life of t has got
  outcome   \* outcome[t]: the first exit status reported for t

vars == <<phase, outcome>>

Init ==
  /\ phase = [t \in Txn |-> "absent"]
  /\ outcome = [t \in Txn |-> NoExit]

(* The application obtains a Transaction. *)
Start(t) ==
  /\ phase[t] = "absent"
  /\ phase' = [phase EXCEPT ![t] = "active"]
  /\ UNCHANGED outcome

(* The first finished() of t is emitted. *)
Report(t, e) ==
  /\ phase[t] = "active"
  /\ phase' = [phase EXCEPT ![t] = "reported"]
  /\ outcome' = [outcome EXCEPT ![t] = e]

(* The library deletes t. *)
Delete(t) ==
  /\ phase[t] = "reported"
  /\ phase' = [phase EXCEPT ![t] = "deleted"]
  /\ UNCHANGED outcome

Next ==
  \E t \in Txn :
    \/ Start(t)
    \/ \E e \in Exit : Report(t, e)
    \/ Delete(t)

Spec == Init /\ [][Next]_vars
=============================================================================

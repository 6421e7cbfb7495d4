------------------------ MODULE CancellableOperations ------------------------
(***************************************************************************)
(* What the dataset session promises the interface about a cancellable     *)
(* operation: from the moment a cancellation is answered, none of the      *)
(* operations of that kind that were running may take effect.              *)
(*                                                                         *)
(* An operation is "live" until a cancellation or a newer operation of its *)
(* kind dooms it.  Only a live operation takes effect, in one step.        *)
(***************************************************************************)
CONSTANTS Kinds,     \* the cancellable operation kinds ("load", "prepare", ...)
          Tasks,     \* the threads that run commands
          Final,     \* kinds whose cancellation is final once answered
          Superseding,\* kinds in which a newer operation dooms every older one
          Activating, \* kinds that put another dataset in place of the active one
          Outdated,   \* kinds whose running operations that makes pointless
          NoKind     \* kind of a task that runs no command

VARIABLES kindOf,    \* kindOf[t]: kind of the command task t runs
          status     \* status[t]: where that operation is

vars == <<kindOf, status>>

Statuses == {"none", "live", "doomed", "effective", "asking"}

Init ==
  /\ kindOf = [t \in Tasks |-> NoKind]
  /\ status = [t \in Tasks |-> "none"]

\* The live operations of kind k other than t's own.
LiveOthers(k, t) == {u \in Tasks \ {t} : kindOf[u] = k /\ status[u] = "live"}

\* The status of every task once the operations in D are doomed.
Doom(D) == [u \in Tasks |-> IF u \in D THEN "doomed" ELSE status[u]]

\* A command starts.  It may doom older operations of its kind, and dooms
\* them all when the kind is superseding.
Start(t, k) ==
  /\ status[t] = "none"
  /\ \E D \in SUBSET LiveOthers(k, t) :
       /\ k \in Superseding => D = LiveOthers(k, t)
       /\ status' = [Doom(D) EXCEPT ![t] = "live"]
  /\ kindOf' = [kindOf EXCEPT ![t] = k]

\* A live operation takes effect.  If it activates another dataset it may doom
\* operations that work on the one it replaces.
TakeEffect(t) ==
  /\ status[t] = "live"
  /\ \E D \in SUBSET UNION {LiveOthers(k, t) : k \in Outdated} :
       /\ kindOf[t] \notin Activating => D = {}
       /\ status' = [Doom(D) EXCEPT ![t] = "effective"]
  /\ UNCHANGED kindOf

\* An operation gives up: it failed, or it noticed it is doomed.
GiveUp(t) ==
  /\ status[t] \in {"live", "doomed"}
  /\ status' = [status EXCEPT ![t] = "doomed"]
  /\ UNCHANGED kindOf

\* The command returns to the interface.
Return(t) ==
  /\ status[t] \in {"doomed", "effective"}
  /\ status' = [status EXCEPT ![t] = "none"]
  /\ kindOf' = [kindOf EXCEPT ![t] = NoKind]

\* The interface asks task t to cancel the operations of kind k ...
Ask(t, k) ==
  /\ status[t] = "none"
  /\ status' = [status EXCEPT ![t] = "asking"]
  /\ kindOf' = [kindOf EXCEPT ![t] = k]

\* ... and task t answers: from here on they are doomed.
Answer(t) ==
  /\ status[t] = "asking"
  /\ \E D \in SUBSET LiveOthers(kindOf[t], t) :
       /\ kindOf[t] \in Final => D = LiveOthers(kindOf[t], t)
       /\ status' = [Doom(D) EXCEPT ![t] = "none"]
  /\ kindOf' = [kindOf EXCEPT ![t] = NoKind]

Next == \E t \in Tasks :
  \/ \E k \in Kinds : Start(t, k) \/ Ask(t, k)
  \/ TakeEffect(t) \/ GiveUp(t) \/ Return(t) \/ Answer(t)

Spec == Init /\ [][Next]_vars
==============================================================================

---------------------------- MODULE OperationGate ----------------------------
(***************************************************************************)
(* The cancellation protocol of DatasetState (src-tauri/src/dataset/       *)
(* operation_state.rs and operation_cancellation.rs, and the project gates *)
(* of dataset.rs).  Each operation kind has a generation counter; an       *)
(* operation bumps it when it starts and is cancelled as soon as the       *)
(* counter differs from the value it got.  The kinds in Gated also have a  *)
(* commit lock: the operation re-reads the counter while holding the lock  *)
(* and publishes before it releases it, and `cancel` bumps the counter     *)
(* while holding the same lock.  The other kinds only poll the counter.    *)
(*                                                                         *)
(* One task is one thread that runs one command at a time.  The work an    *)
(* operation does before its commit is left out: it changes nothing shared *)
(* in this module.                                                         *)
(***************************************************************************)
EXTENDS Naturals

CONSTANTS Kinds,         \* every kind that has a generation counter
          Gated,         \* kinds with a commit lock (load, projectOpen, ...)
          BeginLocked,   \* kinds whose begin_* takes the commit lock too
          Exclusive,     \* kinds with an in-flight flag (reviewMutation)
          Activating,    \* kinds that activate a stored project (projectOpen)
          Outdated,      \* kinds that activation cancels (profile, export)
          Tasks,         \* the command threads
          NoTask,        \* "nobody holds the lock"
          NoKind,        \* kind of a task that runs no command
          MaxGeneration  \* bound on the commands issued for one kind

ASSUME GateAssumption ==
  /\ Gated \subseteq Kinds
  /\ BeginLocked \subseteq Gated
  /\ Exclusive \subseteq Gated
  /\ Activating \subseteq Gated
  /\ Outdated \subseteq Kinds \ Gated
  /\ NoTask \notin Tasks
  /\ NoKind \notin Kinds
  /\ MaxGeneration \in Nat

VARIABLES generation,  \* generation[k]: the AtomicU64 of kind k
          holder,      \* holder[k]: the task holding k's commit lock
          inFlight,    \* inFlight[k]: review_mutation_in_flight
          pc,          \* pc[t]: where the command of task t is
          kind,        \* kind[t]: the kind of that command, if any
          mine,        \* mine[t]: the generation begin_* returned to it, or 0
          answered     \* answered[k]: counter value of the last cancel of k
                       \* that returned (history, read by no action)

vars == <<generation, holder, inFlight, pc, kind, mine, answered>>

(* idle: no command.  working: before the commit.  gated: the commit lock  *)
(* is held, the counter not yet read.  committing: the counter matched.    *)
(* published / failed: the guards are still to be dropped.  cancelling:    *)
(* cancel_operation has been called and has not returned.                  *)
Steps == {"idle", "working", "gated", "committing", "published", "failed",
          "cancelling"}

Init ==
  /\ generation = [k \in Kinds |-> 0]
  /\ holder = [k \in Kinds |-> NoTask]
  /\ inFlight = [k \in Kinds |-> FALSE]
  /\ pc = [t \in Tasks |-> "idle"]
  /\ kind = [t \in Tasks |-> NoKind]
  /\ mine = [t \in Tasks |-> 0]
  /\ answered = [k \in Kinds |-> 0]

LockIsFree(k) == holder[k] = NoTask

WasCancelled(t) == generation[kind[t]] # mine[t]

AtStep(t, from, to) == pc[t] = from /\ pc' = [pc EXCEPT ![t] = to]

\* Task t is running an operation of kind k (not a cancellation of it).
Runs(t, k) == kind[t] = k /\ pc[t] # "cancelling"

ReleaseLock(t) ==
  holder' = [k \in Kinds |-> IF holder[k] = t THEN NoTask ELSE holder[k]]

(***************************************************************************)
(* Seeded faults.  Each is one action of this module as a plausible slip   *)
(* would leave it; no specification uses them.                             *)
(***************************************************************************)
\* begin_load without the commit lock.
BeginUnlocked(t, k) ==
  /\ AtStep(t, "idle", "working")
  /\ generation[k] < MaxGeneration
  /\ k \in Exclusive => ~inFlight[k]
  /\ inFlight' = [inFlight EXCEPT ![k] = (k \in Exclusive)]
  /\ generation' = [generation EXCEPT ![k] = @ + 1]
  /\ mine' = [mine EXCEPT ![t] = generation[k] + 1]
  /\ kind' = [kind EXCEPT ![t] = k]
  /\ UNCHANGED <<holder, answered>>

\* commit() that takes the lock and trusts the poll made before it.
CheckBeforeGate(t) ==
  /\ AtStep(t, "gated", "committing")
  /\ UNCHANGED <<generation, holder, inFlight, kind, mine, answered>>

\* A Review command that clears its flag on success alone.
FinishClearingOnSuccess(t) ==
  /\ pc[t] \in {"published", "failed"}
  /\ pc' = [pc EXCEPT ![t] = "idle"]
  /\ inFlight' = [inFlight EXCEPT ![kind[t]] = @ /\ pc[t] = "failed"]
  /\ kind' = [kind EXCEPT ![t] = NoKind]
  /\ mine' = [mine EXCEPT ![t] = 0]
  /\ UNCHANGED <<generation, holder, answered>>

\* cancel() that bumps the counter without waiting for the commit lock.
AnswerWithoutLock(t) ==
  /\ AtStep(t, "cancelling", "idle")
  /\ generation' = [generation EXCEPT ![kind[t]] = @ + 1]
  /\ answered' = [answered EXCEPT ![kind[t]] = generation[kind[t]] + 1]
  /\ kind' = [kind EXCEPT ![t] = NoKind]
  /\ UNCHANGED <<holder, inFlight, mine>>

\* cancel() that answers with the value fetch_add returns, the old counter.
AnswerWithOldCounter(t) ==
  /\ AtStep(t, "cancelling", "idle")
  /\ kind[t] \in Gated => LockIsFree(kind[t])
  /\ answered' = [answered EXCEPT ![kind[t]] = generation[kind[t]]]
  /\ kind' = [kind EXCEPT ![t] = NoKind]
  /\ UNCHANGED <<generation, holder, inFlight, mine>>

-----------------------------------------------------------------------------
(***************************************************************************)
(* begin_*: fetch_add and remember the new value.  begin_load and the      *)
(* project begins do it under the commit lock; begin_review_mutation first *)
(* wins the compare_exchange on the in-flight flag or refuses the command. *)
(***************************************************************************)
Begin(t, k) ==
  /\ AtStep(t, "idle", "working")
  /\ generation[k] < MaxGeneration
  /\ k \in BeginLocked => LockIsFree(k)
  /\ k \in Exclusive => ~inFlight[k]
  /\ inFlight' = [inFlight EXCEPT ![k] = (k \in Exclusive)]
  /\ generation' = [generation EXCEPT ![k] = @ + 1]
  /\ mine' = [mine EXCEPT ![t] = generation[k] + 1]
  /\ kind' = [kind EXCEPT ![t] = k]
  /\ UNCHANGED <<holder, answered>>

\* The work polls the counter (ensure_not_cancelled, callbacks) and may also
\* fail by itself: the command ends without having reached its commit.
StopWorking(t) ==
  /\ AtStep(t, "working", "failed")
  /\ UNCHANGED <<generation, holder, inFlight, kind, mine, answered>>

\* commit(): take the commit lock.
AcquireCommitLock(t) ==
  /\ AtStep(t, "working", "gated")
  /\ kind[t] \in Gated
  /\ LockIsFree(kind[t])
  /\ holder' = [holder EXCEPT ![kind[t]] = t]
  /\ UNCHANGED <<generation, inFlight, kind, mine, answered>>

\* commit(): re-read the counter inside the gate.
CheckInsideGate(t) ==
  /\ AtStep(t, "gated", "committing")
  /\ ~WasCancelled(t)
  /\ UNCHANGED <<generation, holder, inFlight, kind, mine, answered>>

\* commit(): the counter moved; the guard is dropped on the early return.
RefuseInsideGate(t) ==
  /\ AtStep(t, "gated", "failed")
  /\ WasCancelled(t)
  /\ ReleaseLock(t)
  /\ UNCHANGED <<generation, inFlight, kind, mine, answered>>

\* Kinds without a commit lock poll once more and go on to publish.
CheckWithoutGate(t) ==
  /\ AtStep(t, "working", "committing")
  /\ kind[t] \notin Gated
  /\ ~WasCancelled(t)
  /\ UNCHANGED <<generation, holder, inFlight, kind, mine, answered>>

\* The closure given to commit() ran to its end; the guard is dropped.  A
\* project that was activated has cancelled what worked on the old dataset.
Publish(t) ==
  /\ AtStep(t, "committing", "published")
  /\ ReleaseLock(t)
  /\ generation' = [k \in Kinds |->
                      IF kind[t] \in Activating /\ k \in Outdated
                      THEN generation[k] + 1 ELSE generation[k]]
  /\ UNCHANGED <<inFlight, kind, mine, answered>>

\* The closure returned an error, or panicked: lock_recovering clears the
\* poison, so the next owner gets the lock all the same.
CommitFails(t) ==
  /\ AtStep(t, "committing", "failed")
  /\ ReleaseLock(t)
  /\ UNCHANGED <<generation, inFlight, kind, mine, answered>>

\* The command returns; ReviewMutationGuard::drop clears the flag.
Finish(t) ==
  /\ pc[t] \in {"published", "failed"}
  /\ pc' = [pc EXCEPT ![t] = "idle"]
  /\ inFlight' = [inFlight EXCEPT ![kind[t]] = FALSE]
  /\ kind' = [kind EXCEPT ![t] = NoKind]
  /\ mine' = [mine EXCEPT ![t] = 0]
  /\ UNCHANGED <<generation, holder, answered>>

\* cancel_operation is called for kind k.
RequestCancel(t, k) ==
  /\ AtStep(t, "idle", "cancelling")
  /\ generation[k] < MaxGeneration
  /\ kind' = [kind EXCEPT ![t] = k]
  /\ UNCHANGED <<generation, holder, inFlight, mine, answered>>

\* DatasetState::cancel: bump the counter, under the commit lock if there is
\* one, and answer.
AnswerCancel(t) ==
  /\ AtStep(t, "cancelling", "idle")
  /\ kind[t] \in Gated => LockIsFree(kind[t])
  /\ generation' = [generation EXCEPT ![kind[t]] = @ + 1]
  /\ answered' = [answered EXCEPT ![kind[t]] = generation[kind[t]] + 1]
  /\ kind' = [kind EXCEPT ![t] = NoKind]
  /\ UNCHANGED <<holder, inFlight, mine>>

\* Every command has returned and the bound allows no other.
Quiescent ==
  /\ \A t \in Tasks : pc[t] = "idle"
  /\ \A k \in Kinds : generation[k] >= MaxGeneration
  /\ UNCHANGED vars

CommandStep(t) ==
  \/ StopWorking(t) \/ AcquireCommitLock(t) \/ CheckInsideGate(t)
  \/ RefuseInsideGate(t) \/ CheckWithoutGate(t) \/ Publish(t)
  \/ CommitFails(t) \/ Finish(t) \/ AnswerCancel(t)

Next ==
  \/ \E t \in Tasks :
       \/ \E k \in Kinds : Begin(t, k) \/ RequestCancel(t, k)
       \/ CommandStep(t)
  \/ Quiescent

Spec == Init /\ [][Next]_vars

-----------------------------------------------------------------------------
\* The type of every variable.
TypeOK ==
  /\ generation \in [Kinds -> Nat]
  /\ holder \in [Kinds -> Tasks \cup {NoTask}]
  /\ inFlight \in [Kinds -> BOOLEAN]
  /\ pc \in [Tasks -> Steps]
  /\ kind \in [Tasks -> Kinds \cup {NoKind}]
  /\ mine \in [Tasks -> Nat]
  /\ answered \in [Kinds -> Nat]

\* Once cancel_operation has returned for a gated kind, no operation of that
\* kind that had begun before is past its check: none of them can publish.
\* operation_state.rs bumps under the commit lock for exactly this.
AnsweredCancelIsFinal ==
  \A t \in Tasks :
    pc[t] = "committing" /\ kind[t] \in Gated => mine[t] > answered[kind[t]]

\* For load and the project commands a newer begin_* is as final as a cancel:
\* the operation that publishes is always the newest one of its kind.
OnlyTheNewestCommits ==
  \A t \in Tasks :
    pc[t] = "committing" /\ kind[t] \in BeginLocked
      => mine[t] = generation[kind[t]]

\* The in-flight flag admits one Review mutation at a time, and is up exactly
\* while one runs: ReviewMutationGuard clears it on every way out.
OneReviewMutation ==
  \A k \in Exclusive :
    /\ \A t, u \in Tasks : Runs(t, k) /\ Runs(u, k) => t = u
    /\ inFlight[k] <=> \E t \in Tasks : Runs(t, k)

\* The commit lock is held exactly by the task between commit()'s lock and
\* the drop of its guard.
LockOwnership ==
  \A k \in Kinds, t \in Tasks :
    holder[k] = t
      <=> kind[t] = k /\ k \in Gated /\ pc[t] \in {"gated", "committing"}

\* A task has a kind exactly while it runs a command.
KindWhileRunning == \A t \in Tasks : kind[t] = NoKind <=> pc[t] = "idle"

\* Counters only hand out fresh values: a running operation's generation is
\* not ahead of the counter and is not one a cancellation consumed.
GenerationsAreFresh ==
  /\ \A k \in Kinds : answered[k] <= generation[k]
  /\ \A t \in Tasks, k \in Kinds :
       Runs(t, k) => mine[t] <= generation[k] /\ mine[t] # answered[k]

\* What every step preserves: together these imply the two properties above.
GateInv ==
  /\ TypeOK
  /\ LockOwnership
  /\ KindWhileRunning
  /\ GenerationsAreFresh
  /\ AnsweredCancelIsFinal
  /\ OnlyTheNewestCommits

\* The detailed protocol implements the promise of CancellableOperations.
StatusOf(t) ==
  CASE pc[t] = "idle"                              -> "none"
    [] pc[t] = "cancelling"                        -> "asking"
    [] pc[t] \in {"working", "gated"}              ->
         IF WasCancelled(t) THEN "doomed" ELSE "live"
    [] pc[t] = "committing"                        -> "live"
    [] pc[t] = "published"                         -> "effective"
    [] pc[t] = "failed"                            -> "doomed"

Promise == INSTANCE CancellableOperations
             WITH kindOf <- kind, status <- [t \in Tasks |-> StatusOf(t)],
                  Final <- Gated, Superseding <- BeginLocked

KeepsThePromise == Promise!Spec
==============================================================================

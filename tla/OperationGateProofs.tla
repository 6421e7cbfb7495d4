------------------------- MODULE OperationGateProofs -------------------------
(***************************************************************************)
(* Proofs about OperationGate for any sets of kinds and threads.  GateInv  *)
(* is inductive; the promise of CancellableOperations follows from it.     *)
(***************************************************************************)
EXTENDS OperationGate, TLAPS

USE GateAssumption

(* No thread is at work when the application starts.                       *)
LEMMA InitGateInv == Init => GateInv
  BY DEF Init, GateInv, TypeOK, LockOwnership, KindWhileRunning,
         GenerationsAreFresh, AnsweredCancelIsFinal, OnlyTheNewestCommits,
         Runs, Steps

(* Each of the steps of a thread keeps the invariant.                      *)
LEMMA NextGateInv == GateInv /\ [Next]_vars => GateInv'
<1> SUFFICES ASSUME GateInv, [Next]_vars PROVE GateInv'
  OBVIOUS
<1> USE DEF GateInv, TypeOK, LockOwnership, KindWhileRunning,
            GenerationsAreFresh, AnsweredCancelIsFinal, OnlyTheNewestCommits,
            Runs, Steps, AtStep, LockIsFree, WasCancelled, ReleaseLock
<1>1. ASSUME NEW t \in Tasks, NEW k \in Kinds, Begin(t, k)
      PROVE  GateInv'
  BY <1>1 DEF Begin
<1>2. ASSUME NEW t \in Tasks, NEW k \in Kinds, RequestCancel(t, k)
      PROVE  GateInv'
  BY <1>2 DEF RequestCancel
<1>3. ASSUME NEW t \in Tasks, StopWorking(t)
      PROVE  GateInv'
  BY <1>3 DEF StopWorking
<1>4. ASSUME NEW t \in Tasks, AcquireCommitLock(t)
      PROVE  GateInv'
  BY <1>4 DEF AcquireCommitLock
<1>5. ASSUME NEW t \in Tasks, CheckInsideGate(t)
      PROVE  GateInv'
  BY <1>5 DEF CheckInsideGate
<1>6. ASSUME NEW t \in Tasks, RefuseInsideGate(t)
      PROVE  GateInv'
  BY <1>6 DEF RefuseInsideGate
<1>7. ASSUME NEW t \in Tasks, CheckWithoutGate(t)
      PROVE  GateInv'
  BY <1>7 DEF CheckWithoutGate
<1>8. ASSUME NEW t \in Tasks, Publish(t)
      PROVE  GateInv'
  BY <1>8 DEF Publish
<1>9. ASSUME NEW t \in Tasks, CommitFails(t)
      PROVE  GateInv'
  BY <1>9 DEF CommitFails
<1>10. ASSUME NEW t \in Tasks, Finish(t)
      PROVE  GateInv'
  BY <1>10 DEF Finish
<1>11. ASSUME NEW t \in Tasks, AnswerCancel(t)
      PROVE  GateInv'
  BY <1>11 DEF AnswerCancel
<1>12. CASE UNCHANGED vars
  BY <1>12 DEF vars
<1>13. QED
  BY <1>1, <1>2, <1>3, <1>4, <1>5, <1>6, <1>7, <1>8, <1>9, <1>10, <1>11, <1>12
     DEF Next, CommandStep, Quiescent

\* GateInv holds in every reachable state.
THEOREM GateInvariant == Spec => []GateInv
<1>1. GateInv /\ [Next]_vars => GateInv'
  BY NextGateInv
<1>2. QED
  BY InitGateInv, <1>1, PTL DEF Spec

\* An answered cancellation is final, whatever the kinds and threads: no
\* operation that had begun before the answer is past its check afterwards.
THEOREM CancelFinality == Spec => []AnsweredCancelIsFinal
<1>1. GateInv => AnsweredCancelIsFinal
  BY DEF GateInv
<1>2. QED
  BY GateInvariant, <1>1, PTL

\* The operation that commits in a begin-locked kind is the newest one.
THEOREM NewestCommits == Spec => []OnlyTheNewestCommits
<1>1. GateInv => OnlyTheNewestCommits
  BY DEF GateInv
<1>2. QED
  BY GateInvariant, <1>1, PTL

\* The in-flight flag lets one Review mutation run at a time and is never
\* left up by a command that ended.
THEOREM ReviewIsExclusive == Spec => []OneReviewMutation
<1> USE DEF OneReviewMutation
<1>1. Init => OneReviewMutation
  <2> SUFFICES ASSUME Init PROVE OneReviewMutation
    OBVIOUS
  <2>1. \A k \in Exclusive : inFlight[k] = FALSE
    BY DEF Init
  <2>2. \A k \in Exclusive, t \in Tasks : ~Runs(t, k)
    BY DEF Init, Runs
  <2>3. QED
    BY <2>1, <2>2
<1>2. GateInv /\ OneReviewMutation /\ [Next]_vars => OneReviewMutation'
  <2> SUFFICES ASSUME GateInv, OneReviewMutation, [Next]_vars
               PROVE  OneReviewMutation'
    OBVIOUS
  <2> USE DEF GateInv, TypeOK, KindWhileRunning, Runs, AtStep
  <2>1. ASSUME NEW t \in Tasks, NEW k \in Kinds, Begin(t, k)
        PROVE  OneReviewMutation'
    <3>1. \A j \in Exclusive, u \in Tasks :
            Runs(u, j)' <=> (u = t /\ j = k) \/ Runs(u, j)
      BY <2>1 DEF Begin
    <3>2. \A j \in Exclusive : inFlight'[j] <=> j = k \/ inFlight[j]
      <4>1. k \in Exclusive => inFlight'[k] = TRUE
        BY <2>1 DEF Begin
      <4>2. \A j \in Exclusive \ {k} : inFlight'[j] = inFlight[j]
        BY <2>1 DEF Begin
      <4>3. QED
        BY <4>1, <4>2
    <3>3. k \in Exclusive => \A u \in Tasks : ~Runs(u, k)
      BY <2>1 DEF Begin
    <3>4. QED
      BY <3>1, <3>2, <3>3
  <2>2. ASSUME NEW t \in Tasks, NEW k \in Kinds, RequestCancel(t, k)
        PROVE  OneReviewMutation'
    BY <2>2 DEF RequestCancel
  <2>3. ASSUME NEW t \in Tasks, Finish(t)
        PROVE  OneReviewMutation'
    <3>1. kind[t] \in Kinds /\ Runs(t, kind[t])
      BY <2>3 DEF Finish
    <3>2. \A k \in Exclusive, u \in Tasks :
            Runs(u, k)' <=> u # t /\ Runs(u, k)
      BY <2>3 DEF Finish
    <3>3. \A k \in Exclusive :
            inFlight'[k] <=> k # kind[t] /\ inFlight[k]
      BY <2>3, <3>1 DEF Finish
    <3>4. QED
      BY <3>1, <3>2, <3>3
  <2>4. ASSUME NEW t \in Tasks, AnswerCancel(t)
        PROVE  OneReviewMutation'
    BY <2>4 DEF AnswerCancel
  <2>5. ASSUME NEW t \in Tasks,
               \/ StopWorking(t) \/ AcquireCommitLock(t) \/ CheckInsideGate(t)
               \/ RefuseInsideGate(t) \/ CheckWithoutGate(t) \/ Publish(t)
               \/ CommitFails(t)
        PROVE  OneReviewMutation'
    <3>1. /\ UNCHANGED <<inFlight, kind>>
          /\ \A u \in Tasks : pc[u] = "cancelling" <=> pc'[u] = "cancelling"
      BY <2>5 DEF StopWorking, AcquireCommitLock, CheckInsideGate,
                  RefuseInsideGate, CheckWithoutGate, Publish, CommitFails
    <3>2. QED
      BY <3>1
  <2>6. CASE UNCHANGED vars
    BY <2>6 DEF vars
  <2>7. QED
    BY <2>1, <2>2, <2>3, <2>4, <2>5, <2>6 DEF Next, CommandStep, Quiescent
<1>3. QED
  BY <1>1, <1>2, GateInvariant, PTL DEF Spec

-----------------------------------------------------------------------------
(***************************************************************************)
(* Refinement.  A begin or a cancellation dooms the tasks that were        *)
(* working or waiting in the gate; under the commit lock nobody is         *)
(* committing, so it dooms every live one.  An activation dooms those of   *)
(* the outdated kinds in the same way.                                     *)
(***************************************************************************)
Doomed(k) == {u \in Tasks : kind[u] = k /\ StatusOf(u) = "live"
                              /\ pc[u] # "committing"}

(* At the start nothing has been promised to anybody.                      *)
LEMMA StatusInit == Init => Promise!Init
  BY DEF Init, Promise!Init, StatusOf

\* What the refinement mapping says of a task, step by step of its command.
StatusWhen(t) ==
  /\ pc[t] = "idle" => StatusOf(t) = "none"
  /\ pc[t] = "cancelling" => StatusOf(t) = "asking"
  /\ pc[t] \in {"working", "gated"} /\ ~WasCancelled(t) => StatusOf(t) = "live"
  /\ pc[t] \in {"working", "gated"} /\ WasCancelled(t) => StatusOf(t) = "doomed"
  /\ pc[t] = "committing" => StatusOf(t) = "live"
  /\ pc[t] = "published" => StatusOf(t) = "effective"
  /\ pc[t] = "failed" => StatusOf(t) = "doomed"

\* A step that leaves the counters alone and moves only task t's command
\* changes no other task's status.
LEMMA OthersKeepStatus ==
  ASSUME NEW t \in Tasks, TypeOK, UNCHANGED generation,
         \A u \in Tasks \ {t} :
           pc'[u] = pc[u] /\ kind'[u] = kind[u] /\ mine'[u] = mine[u]
  PROVE  \A u \in Tasks \ {t} : StatusOf(u)' = StatusOf(u)
  BY DEF StatusOf, WasCancelled

(* Each step is one of the promise, or none.                               *)
LEMMA StepKeepsPromise ==
  GateInv /\ [Next]_vars => [Promise!Next]_(Promise!vars)
<1> SUFFICES ASSUME GateInv, [Next]_vars
             PROVE  [Promise!Next]_(Promise!vars)
  OBVIOUS
<1> DEFINE status == [u \in Tasks |-> StatusOf(u)]
<1>a. \A u \in Tasks : StatusWhen(u)
  BY DEF StatusWhen, StatusOf
<1>b. \A u \in Tasks : StatusWhen(u)'
  BY DEF StatusWhen, StatusOf
<1> USE DEF GateInv, TypeOK, AtStep
<1>1. ASSUME NEW t \in Tasks, NEW k \in Kinds, Begin(t, k)
      PROVE  Promise!Start(t, k)
  <2>1. Doomed(k) \in SUBSET Promise!LiveOthers(k, t)
    BY <1>a, <1>1 DEF Begin, Doomed, Promise!LiveOthers, StatusWhen
  <2>2. k \in BeginLocked => Doomed(k) = Promise!LiveOthers(k, t)
    <3>1. k \in BeginLocked
            => \A u \in Tasks : kind[u] = k => pc[u] # "committing"
      BY <1>1 DEF Begin, LockOwnership, LockIsFree
    <3>2. QED
      BY <2>1, <3>1 DEF Doomed, Promise!LiveOthers
  <2>3. StatusOf(t)' = "live"
    BY <1>b, <1>1 DEF Begin, StatusWhen, WasCancelled
  <2>4. ASSUME NEW u \in Tasks \ {t}, u \in Doomed(k)
        PROVE  StatusOf(u)' = "doomed"
    <3>1. pc[u] \in {"working", "gated"} /\ kind[u] = k
      BY <2>4, <1>a DEF Doomed, StatusWhen, Steps
    <3>2. WasCancelled(u)'
      BY <3>1, <1>1 DEF Begin, WasCancelled, GenerationsAreFresh, Runs
    <3>3. QED
      BY <3>1, <3>2, <1>1, <1>b DEF Begin, StatusWhen
  <2>5. ASSUME NEW u \in Tasks \ {t}, u \notin Doomed(k)
        PROVE  StatusOf(u)' = StatusOf(u)
    <3>1. pc'[u] = pc[u] /\ kind'[u] = kind[u] /\ mine'[u] = mine[u]
      BY <1>1 DEF Begin
    <3>2. CASE pc[u] \in {"working", "gated"} /\ kind[u] = k
      <4>1. WasCancelled(u) /\ WasCancelled(u)'
        BY <2>5, <3>1, <3>2, <1>1, <1>a
           DEF Begin, Doomed, StatusWhen, WasCancelled, GenerationsAreFresh, Runs
      <4>2. QED
        BY <3>1, <3>2, <4>1, <1>a, <1>b DEF StatusWhen
    <3>3. CASE pc[u] \in {"working", "gated"} /\ kind[u] # k
      <4>1. WasCancelled(u)' = WasCancelled(u)
        BY <3>1, <3>3, <1>1 DEF Begin, WasCancelled, KindWhileRunning
      <4>2. QED
        BY <3>1, <3>3, <4>1, <1>a, <1>b DEF StatusWhen
    <3>4. CASE pc[u] \notin {"working", "gated"}
      BY <3>1, <3>4, <1>a, <1>b DEF StatusWhen, Steps
    <3>5. QED
      BY <3>2, <3>3, <3>4
  <2>6. status' = [Promise!Doom(Doomed(k)) EXCEPT ![t] = "live"]
    BY <2>3, <2>4, <2>5 DEF Promise!Doom
  <2>7. status[t] = "none" /\ kind' = [kind EXCEPT ![t] = k]
    BY <1>1, <1>a DEF Begin, StatusWhen
  <2>8. QED
    BY <2>1, <2>2, <2>6, <2>7 DEF Promise!Start
<1>2. ASSUME NEW t \in Tasks, NEW k \in Kinds, RequestCancel(t, k)
      PROVE  Promise!Ask(t, k)
  BY <1>2, <1>a, <1>b, OthersKeepStatus
     DEF RequestCancel, Promise!Ask, StatusWhen
<1>3. ASSUME NEW t \in Tasks, StopWorking(t)
      PROVE  Promise!GiveUp(t)
  BY <1>3, <1>a, <1>b, OthersKeepStatus
     DEF StopWorking, Promise!GiveUp, StatusWhen
<1>4. ASSUME NEW t \in Tasks, AcquireCommitLock(t)
      PROVE  UNCHANGED Promise!vars
  <2>1. StatusOf(t)' = StatusOf(t)
    BY <1>4, <1>a, <1>b DEF AcquireCommitLock, StatusWhen, WasCancelled
  <2>2. QED
    BY <2>1, <1>4, OthersKeepStatus DEF AcquireCommitLock, Promise!vars
<1>5. ASSUME NEW t \in Tasks, CheckInsideGate(t) \/ CheckWithoutGate(t)
      PROVE  UNCHANGED Promise!vars
  <2>1. StatusOf(t)' = StatusOf(t)
    BY <1>5, <1>a, <1>b DEF CheckInsideGate, CheckWithoutGate, StatusWhen
  <2>2. QED
    BY <2>1, <1>5, OthersKeepStatus
       DEF CheckInsideGate, CheckWithoutGate, Promise!vars
<1>6. ASSUME NEW t \in Tasks, RefuseInsideGate(t)
      PROVE  Promise!GiveUp(t)
  BY <1>6, <1>a, <1>b, OthersKeepStatus
     DEF RefuseInsideGate, Promise!GiveUp, StatusWhen
<1>7. ASSUME NEW t \in Tasks, Publish(t)
      PROVE  Promise!TakeEffect(t)
  <2> DEFINE D == IF kind[t] \in Activating
                  THEN UNION {Doomed(k) \ {t} : k \in Outdated} ELSE {}
  <2>1. D \in SUBSET UNION {Promise!LiveOthers(k, t) : k \in Outdated}
    BY DEF Doomed, Promise!LiveOthers
  <2>2. StatusOf(t) = "live" /\ StatusOf(t)' = "effective"
    BY <1>a, <1>b, <1>7 DEF Publish, StatusWhen
  <2>3. ASSUME NEW u \in Tasks \ {t}, u \in D
        PROVE  StatusOf(u)' = "doomed"
    <3>1. /\ kind[t] \in Activating /\ kind[u] \in Outdated
          /\ pc[u] \in {"working", "gated"}
      BY <2>3, <1>a DEF Doomed, StatusWhen, Steps
    <3>2. WasCancelled(u)'
      BY <3>1, <1>7 DEF Publish, WasCancelled, GenerationsAreFresh, Runs
    <3>3. QED
      BY <3>1, <3>2, <1>7, <1>b DEF Publish, StatusWhen
  <2>4. ASSUME NEW u \in Tasks \ {t}, u \notin D
        PROVE  StatusOf(u)' = StatusOf(u)
    <3>1. pc'[u] = pc[u] /\ kind'[u] = kind[u] /\ mine'[u] = mine[u]
      BY <1>7 DEF Publish
    <3>2. CASE /\ pc[u] \in {"working", "gated"}
               /\ kind[t] \in Activating /\ kind[u] \in Outdated
      <4>1. StatusOf(u) # "live"
        BY <2>4, <3>2 DEF Doomed
      <4>2. WasCancelled(u) /\ WasCancelled(u)'
        BY <4>1, <3>1, <3>2, <1>7, <1>a
           DEF Publish, StatusWhen, WasCancelled, GenerationsAreFresh, Runs
      <4>3. QED
        BY <3>1, <3>2, <4>2, <1>a, <1>b DEF StatusWhen
    <3>3. CASE /\ pc[u] \in {"working", "gated"}
               /\ ~(kind[t] \in Activating /\ kind[u] \in Outdated)
      <4>1. WasCancelled(u)' = WasCancelled(u)
        BY <3>1, <3>3, <1>7 DEF Publish, WasCancelled, KindWhileRunning
      <4>2. QED
        BY <3>1, <3>3, <4>1, <1>a, <1>b DEF StatusWhen
    <3>4. CASE pc[u] \notin {"working", "gated"}
      BY <3>1, <3>4, <1>a, <1>b DEF StatusWhen, Steps
    <3>5. QED
      BY <3>2, <3>3, <3>4
  <2>5. status' = [Promise!Doom(D) EXCEPT ![t] = "effective"]
    BY <2>2, <2>3, <2>4 DEF Promise!Doom
  <2>6. kind[t] \notin Activating => D = {}
    OBVIOUS
  <2>7. status[t] = "live" /\ UNCHANGED kind
    BY <2>2, <1>7 DEF Publish
  <2>8. QED
    BY <2>1, <2>5, <2>6, <2>7 DEF Promise!TakeEffect
<1>8. ASSUME NEW t \in Tasks, CommitFails(t)
      PROVE  Promise!GiveUp(t)
  BY <1>8, <1>a, <1>b, OthersKeepStatus
     DEF CommitFails, Promise!GiveUp, StatusWhen
<1>9. ASSUME NEW t \in Tasks, Finish(t)
      PROVE  Promise!Return(t)
  BY <1>9, <1>a, <1>b, OthersKeepStatus
     DEF Finish, Promise!Return, StatusWhen
<1>10. ASSUME NEW t \in Tasks, AnswerCancel(t)
       PROVE  Promise!Answer(t)
  <2> DEFINE k == kind[t]
  <2>0. k \in Kinds
    BY <1>10 DEF AnswerCancel, KindWhileRunning
  <2> HIDE DEF k
  <2>1. Doomed(k) \in SUBSET Promise!LiveOthers(k, t)
    BY <1>a, <1>10 DEF AnswerCancel, Doomed, Promise!LiveOthers, StatusWhen
  <2>2. k \in Gated => Doomed(k) = Promise!LiveOthers(k, t)
    <3>1. k \in Gated
            => \A u \in Tasks : kind[u] = k => pc[u] # "committing"
      BY <2>0, <1>10 DEF k, AnswerCancel, LockOwnership, LockIsFree
    <3>2. QED
      BY <2>1, <3>1 DEF Doomed, Promise!LiveOthers
  <2>3. StatusOf(t)' = "none"
    BY <1>b, <1>10 DEF AnswerCancel, StatusWhen
  <2>4. ASSUME NEW u \in Tasks \ {t}, u \in Doomed(k)
        PROVE  StatusOf(u)' = "doomed"
    <3>1. pc[u] \in {"working", "gated"} /\ kind[u] = k
      BY <2>4, <1>a DEF Doomed, StatusWhen, Steps
    <3>2. WasCancelled(u)'
      BY <2>0, <3>1, <1>10
         DEF k, AnswerCancel, WasCancelled, GenerationsAreFresh, Runs
    <3>3. QED
      BY <3>1, <3>2, <1>10, <1>b DEF AnswerCancel, StatusWhen
  <2>5. ASSUME NEW u \in Tasks \ {t}, u \notin Doomed(k)
        PROVE  StatusOf(u)' = StatusOf(u)
    <3>1. pc'[u] = pc[u] /\ kind'[u] = kind[u] /\ mine'[u] = mine[u]
      BY <1>10 DEF AnswerCancel
    <3>2. CASE pc[u] \in {"working", "gated"} /\ kind[u] = k
      <4>1. WasCancelled(u) /\ WasCancelled(u)'
        BY <2>0, <2>5, <3>1, <3>2, <1>10, <1>a
           DEF k, AnswerCancel, Doomed, StatusWhen, WasCancelled,
               GenerationsAreFresh, Runs
      <4>2. QED
        BY <3>1, <3>2, <4>1, <1>a, <1>b DEF StatusWhen
    <3>3. CASE pc[u] \in {"working", "gated"} /\ kind[u] # k
      <4>1. WasCancelled(u)' = WasCancelled(u)
        BY <2>0, <3>1, <3>3, <1>10
           DEF k, AnswerCancel, WasCancelled, KindWhileRunning
      <4>2. QED
        BY <3>1, <3>3, <4>1, <1>a, <1>b DEF StatusWhen
    <3>4. CASE pc[u] \notin {"working", "gated"}
      BY <3>1, <3>4, <1>a, <1>b DEF StatusWhen, Steps
    <3>5. QED
      BY <3>2, <3>3, <3>4
  <2>6. status' = [Promise!Doom(Doomed(k)) EXCEPT ![t] = "none"]
    BY <2>3, <2>4, <2>5 DEF Promise!Doom
  <2>7. status[t] = "asking" /\ kind' = [kind EXCEPT ![t] = NoKind]
    BY <1>10, <1>a DEF AnswerCancel, StatusWhen
  <2>8. QED
    BY <2>1, <2>2, <2>6, <2>7 DEF Promise!Answer, k
<1>11. CASE UNCHANGED vars
  BY <1>11 DEF vars, Promise!vars, StatusOf, WasCancelled
<1>12. QED
  BY <1>1, <1>2, <1>3, <1>4, <1>5, <1>6, <1>7, <1>8, <1>9, <1>10, <1>11
     DEF Next, CommandStep, Quiescent, Promise!Next

\* The generation counters and commit locks keep the promise made to the
\* interface, for any sets of kinds and threads.
THEOREM GateRefinesPromise == Spec => KeepsThePromise
<1>1. GateInv /\ [Next]_vars => [Promise!Next]_(Promise!vars)
  BY StepKeepsPromise
<1>2. QED
  BY StatusInit, <1>1, GateInvariant, PTL DEF Spec, KeepsThePromise, Promise!Spec
==============================================================================

------------------------- MODULE NotificationsProofs -------------------------
(***************************************************************************)
(* The scheduler's lock, for any number of replicas, runs, crashes and     *)
(* failing calls, and whatever a run does: proved of Jobs, and carried     *)
(* over to the notification job by showing that its steps are Jobs' steps. *)
(* Then what becomes of the notifications: a stop loses none, and each is  *)
(* in one place, the queue, one batch, settled or lost.                    *)
(***************************************************************************)
EXTENDS Notifications, SequenceTheorems, FiniteSetTheorems, TLAPS

\* OverlapIsLate says nothing of the lock, so it is not inductive: a run in
\* progress holds the lock, unless it outlived it.
Held == \A r \in Runs : stage[r] # "idle" => lock = r \/ r \in outlived

JInv == JobsTypeOK /\ Held

LEMMA HeldImpliesOverlapIsLate == Held => OverlapIsLate
  BY DEF Held, OverlapIsLate

LEMMA JobsInitEstablishes == JobsInit => JInv
  BY RunAssumption, BoundAssumption DEF JobsInit, JInv, JobsTypeOK, Held

\* A failing call only counts.
LEMMA ErrorIsCounted == ASSUME JobsTypeOK, Error PROVE errors' \in Nat
  BY DEF JobsTypeOK, Error

\* Exit and Crash: the runs of the replica end, and its locks are left.
LEMMA DownKeeps ==
  ASSUME NEW p \in Replicas, JInv, Down(p),
         exits' \in Nat, crashes' \in Nat
  PROVE  JInv'
<1> USE DEF JInv, Down, RunsOf
<1>1. JobsTypeOK'
  BY RunAssumption DEF JobsTypeOK
<1>2. Held'
  <2> SUFFICES ASSUME NEW r \in Runs, stage'[r] # "idle"
               PROVE  lock' = r \/ r \in outlived'
    BY DEF Held
  <2>1. Home[r] # p /\ stage[r] # "idle"
    BY DEF JobsTypeOK
  <2> QED BY <2>1 DEF Held
<1> QED BY <1>1, <1>2

LEMMA JobsStepKeeps == JInv /\ [JobsNext]_jobVars => JInv'
<1> SUFFICES ASSUME JInv, [JobsNext]_jobVars PROVE JInv'
  OBVIOUS
<1> USE RunAssumption DEF JInv
<1>1. ASSUME NEW r \in Runs, Trigger(r) PROVE JInv'
  <2>1. JobsTypeOK'
    BY <1>1 DEF JobsTypeOK, Trigger
  <2>2. Held'
    BY <1>1 DEF Held, Trigger, JobsTypeOK
  <2> QED BY <2>1, <2>2
<1>2. ASSUME NEW r \in Runs, TriggerFails(r) PROVE JInv'
  <2>1. JobsTypeOK'
    BY <1>2, ErrorIsCounted DEF JobsTypeOK, TriggerFails
  <2>2. Held'
    BY <1>2 DEF Held, TriggerFails, JobsTypeOK
  <2> QED BY <2>1, <2>2
<1>3. ASSUME NEW r \in Runs, Release(r) PROVE JInv'
  <2>1. JobsTypeOK'
    BY <1>3, ErrorIsCounted DEF JobsTypeOK, Release, ReleaseIfOwner
  <2>2. Held'
    \* The lock of another run stays; r itself is idle.
    BY <1>3 DEF Held, Release, ReleaseIfOwner, JobsTypeOK
  <2> QED BY <2>1, <2>2
<1>4. ASSUME NEW r \in Runs, Finish(r), UNCHANGED errors \/ Error PROVE JInv'
  <2>1. JobsTypeOK'
    BY <1>4, ErrorIsCounted DEF JobsTypeOK, Finish
  <2>2. Held'
    BY <1>4 DEF Held, Finish, JobsTypeOK
  <2> QED BY <2>1, <2>2
<1>5. ASSUME NEW p \in Replicas, Stop(p) PROVE JInv'
  <2>1. JobsTypeOK'
    BY <1>5 DEF JobsTypeOK, Stop
  <2>2. Held'
    BY <1>5 DEF Held, Stop
  <2> QED BY <2>1, <2>2
<1>6. ASSUME NEW p \in Replicas, Exit(p) PROVE JInv'
  BY <1>6, DownKeeps DEF Exit, JobsTypeOK
<1>7. ASSUME NEW p \in Replicas, Crash(p) PROVE JInv'
  <2>1. exits' \in Nat /\ crashes' \in Nat
    BY <1>7 DEF Crash, JobsTypeOK
  <2> QED BY <1>7, <2>1, DownKeeps DEF Crash
<1>8. ASSUME NEW p \in Replicas, Start(p) PROVE JInv'
  <2>1. JobsTypeOK'
    BY <1>8 DEF JobsTypeOK, Start
  <2>2. Held'
    BY <1>8 DEF Held, Start
  <2> QED BY <2>1, <2>2
<1>9. CASE LockExpires
  <2>1. lock \in Runs
    BY <1>9 DEF LockExpires, HasTtl, JobsTypeOK
  <2>2. JobsTypeOK'
    BY <1>9, <2>1 DEF JobsTypeOK, LockExpires
  <2>3. Held'
    \* The run that held the lock is from now on one that outlived it.
    BY <1>9, <2>1 DEF Held, LockExpires
  <2> QED BY <2>2, <2>3
<1>10. CASE CallFails
  <2>1. JobsTypeOK'
    BY <1>10, ErrorIsCounted DEF JobsTypeOK, CallFails
  <2>2. Held'
    BY <1>10 DEF Held, CallFails
  <2> QED BY <2>1, <2>2
<1>11. CASE UNCHANGED jobVars
  BY <1>11 DEF jobVars, JobsTypeOK, Held
<1> QED
  BY <1>1, <1>2, <1>3, <1>4, <1>5, <1>6, <1>7, <1>8, <1>9, <1>10, <1>11 DEF JobsNext

-----------------------------------------------------------------------------

\* Runs of any job that the scheduler guards overlap only when one of them
\* outlived its lock (Scheduler.runGuarded, RedisCacheProvider.withLock).
THEOREM JobsOverlapLate == JobsSpec => []OverlapIsLate
<1>1. JobsInit => JInv
  BY JobsInitEstablishes
<1>2. JInv /\ [JobsNext]_jobVars => JInv'
  BY JobsStepKeeps
<1>3. JInv => OverlapIsLate
  BY HeldImpliesOverlapIsLate DEF JInv
<1> QED BY <1>1, <1>2, <1>3, PTL DEF JobsSpec

\* Every step of the notification job is a step of the scheduler, or leaves
\* the scheduler alone.
LEMMA EveryStepIsJobsStep == [Next]_vars => [JobsNext]_jobVars
<1> SUFFICES ASSUME [Next]_vars PROVE [JobsNext]_jobVars
  OBVIOUS
<1>1. ASSUME NEW i \in Intents, Enqueue(i) PROVE [JobsNext]_jobVars
  BY <1>1 DEF Enqueue, JobsNext
<1>2. CASE Tick
  BY <1>2 DEF Tick, JobsNext
<1>3. ASSUME NEW r \in Runs, RunStep(r) PROVE [JobsNext]_jobVars
  <2>1. CASE EndRun(r)
    BY <2>1 DEF EndRun, JobsNext, Finish
  <2>2. CASE Release(r)
    BY <2>2 DEF JobsNext
  <2>3. CASE Drain(r) \/ Look(r) \/ Send(r) \/ Block(r) \/ Requeue(r)
    BY <2>3 DEF Drain, Look, Send, Block, Requeue
  <2> QED BY <1>3, <2>1, <2>2, <2>3 DEF RunStep
<1>4. ASSUME NEW r \in Runs, Throw(r) PROVE [JobsNext]_jobVars
  BY <1>4 DEF Throw, JobsNext
<1>5. ASSUME NEW r \in Runs, TriggerFails(r) PROVE [JobsNext]_jobVars
  BY <1>5 DEF JobsNext
<1>6. CASE Expire
  BY <1>6 DEF Expire, JobsNext
<1>7. ASSUME NEW p \in Replicas, Boot(p) \/ Quit(p) \/ Stop(p) \/ Crash(p)
      PROVE  [JobsNext]_jobVars
  BY <1>7 DEF Boot, Quit, JobsNext
<1>8. CASE UNCHANGED vars
  BY <1>8 DEF vars
<1> QED BY <1>1, <1>2, <1>3, <1>4, <1>5, <1>6, <1>7, <1>8 DEF Next

\* The notification job is one of the scheduler's jobs.
THEOREM NotificationsAreJobs == Spec => JobsSpec
<1>1. Init => JobsInit
  BY DEF Init
<1> QED BY <1>1, EveryStepIsJobsStep, PTL DEF Spec, JobsSpec

\* Drains of the notification queue overlap only when one outlived its lock.
THEOREM DrainsOverlapLate == Spec => []OverlapIsLate
  BY NotificationsAreJobs, JobsOverlapLate, PTL

-----------------------------------------------------------------------------
(* Types, and what a stop may lose *)

\* Only a run in progress has a batch, and past the reading of the user it has
\* an intent in hand.
BatchIsHeld ==
  \A r \in Runs :
    /\ stage[r] # "running" => batch[r] = <<>> /\ at[r] = "drain"
    /\ at[r] \in {"send", "block", "requeue"} => batch[r] # <<>>

DInv == JInv /\ TypeOK /\ BatchIsHeld /\ StopLosesNothing

\* What the drain script takes and leaves are sequences of intents.
LEMMA DrainTypes ==
  ASSUME queue \in Seq(Intents)
  PROVE  Drained(queue) \in Seq(Intents) /\ Trimmed(queue) \in Seq(Intents)
<1>1. CASE Len(queue) > Batch
  <2>1. \A n \in 1..Len(queue) : queue[n] \in Intents
    OBVIOUS
  <2>2. SubSeq(queue, 1, Batch) \in Seq(Intents)
    BY <1>1, <2>1, BatchAssumption, SubSeqProperties
  <2>3. SubSeq(queue, Batch + 1, Len(queue)) \in Seq(Intents)
    BY <1>1, <2>1, BatchAssumption, SubSeqProperties
  <2> QED BY <1>1, <2>2, <2>3 DEF Drained, Trimmed
<1>2. CASE ~(Len(queue) > Batch)
  BY <1>2 DEF Drained, Trimmed
<1> QED BY <1>1, <1>2

LEMMA HeadAndTail ==
  ASSUME TypeOK, NEW r \in Runs, batch[r] # <<>>
  PROVE  /\ Head(batch[r]) \in Intents
         /\ Tail(batch[r]) \in Seq(Intents)
         /\ For[Head(batch[r])] \in Users
  BY IntentAssumption DEF TypeOK

LEMMA PushTypes ==
  ASSUME TypeOK, NEW i \in Intents
  PROVE  Pushed(queue, i) \in Seq(Intents)
  BY AppendProperties DEF Pushed, TypeOK

LEMMA InBatchTypes ==
  ASSUME TypeOK, NEW r \in Runs
  PROVE  InBatch(r) \subseteq Intents /\ (batch[r] = <<>> => InBatch(r) = {})
  BY DEF TypeOK, InBatch

LEMMA InitIsHeld == Init => DInv
<1> SUFFICES ASSUME Init PROVE DInv
  OBVIOUS
<1>1. JInv
  BY JobsInitEstablishes DEF Init
<1>2. TypeOK
  BY <1>1, IntentAssumption DEF Init, TypeOK, JInv
<1> QED BY <1>1, <1>2 DEF Init, JobsInit, DInv, BatchIsHeld, StopLosesNothing

\* Steps of a run inside drainPending: the scheduler's variables stay.
LEMMA WorkKeeps ==
  ASSUME DInv, NEW r \in Runs,
         Drain(r) \/ Look(r) \/ Send(r) \/ Block(r) \/ Requeue(r)
  PROVE  TypeOK' /\ BatchIsHeld' /\ StopLosesNothing'
<1> USE DEF DInv, Working, Goto, Done
<1>1. CASE Drain(r)
  <2>1. TypeOK'
    BY <1>1, DrainTypes DEF Drain, TypeOK, JobsTypeOK, jobVars
  <2>2. BatchIsHeld'
    BY <1>1 DEF Drain, TypeOK, JobsTypeOK, jobVars, BatchIsHeld
  <2> QED BY <1>1, <2>1, <2>2 DEF Drain, StopLosesNothing, jobVars
<1>2. CASE Look(r)
  <2>1. batch[r] # <<>> /\ UNCHANGED jobVars
    BY <1>2 DEF Look
  <2>4. settled' \subseteq Intents /\ batch' \in [Runs -> Seq(Intents)]
    BY <1>2, <2>1, HeadAndTail DEF Look, TypeOK
  <2>5. at' \in [Runs -> {"drain", "look", "send", "block", "requeue"}]
    BY <1>2 DEF Look, TypeOK
  <2>6. TypeOK'
    BY <1>2, <2>1, <2>4, <2>5 DEF Look, TypeOK, JobsTypeOK, jobVars
  <2>2. BatchIsHeld'
    BY <1>2 DEF Look, TypeOK, JobsTypeOK, jobVars, BatchIsHeld
  <2> QED BY <1>2, <2>6, <2>2 DEF Look, StopLosesNothing, jobVars
<1>3. CASE Send(r)
  <2>1. batch[r] # <<>>
    BY <1>3 DEF Send, BatchIsHeld
  <2>4. settled' \subseteq Intents /\ batch' \in [Runs -> Seq(Intents)]
    BY <1>3, <2>1, HeadAndTail DEF Send, TypeOK
  <2>5. at' \in [Runs -> {"drain", "look", "send", "block", "requeue"}]
    BY <1>3 DEF Send, TypeOK, OnBlocked
  <2>7. /\ deliveries \in [Intents -> Nat] /\ unsure \in [Intents -> Nat]
        /\ retries \in Nat
    BY DEF TypeOK
  <2>6. /\ deliveries' \in [Intents -> Nat] /\ unsure' \in [Intents -> Nat]
        /\ retries' \in Nat
    BY <1>3, <2>7 DEF Send
  <2>2. TypeOK'
    BY <1>3, <2>4, <2>5, <2>6 DEF Send, TypeOK, JobsTypeOK, jobVars
  <2>3. BatchIsHeld'
    BY <1>3, <2>1 DEF Send, TypeOK, JobsTypeOK, jobVars, BatchIsHeld, OnBlocked
  <2> QED BY <1>3, <2>2, <2>3 DEF Send, StopLosesNothing, jobVars
<1>4. CASE Block(r)
  <2>1. batch[r] # <<>>
    BY <1>4 DEF Block, BatchIsHeld
  <2>2. TypeOK'
    BY <1>4, <2>1, HeadAndTail DEF Block, TypeOK, JobsTypeOK, jobVars
  <2>3. BatchIsHeld'
    BY <1>4, <2>1 DEF Block, TypeOK, JobsTypeOK, jobVars, BatchIsHeld
  <2> QED BY <1>4, <2>2, <2>3 DEF Block, StopLosesNothing, jobVars
<1>5. CASE Requeue(r)
  <2>1. batch[r] # <<>>
    BY <1>5 DEF Requeue, BatchIsHeld
  <2>2. TypeOK'
    BY <1>5, <2>1, HeadAndTail DEF Requeue, TypeOK, JobsTypeOK, jobVars, Pushed
  <2>3. BatchIsHeld'
    BY <1>5, <2>1 DEF Requeue, TypeOK, JobsTypeOK, jobVars, BatchIsHeld
  <2> QED BY <1>5, <2>2, <2>3 DEF Requeue, StopLosesNothing, jobVars
<1> QED BY <1>1, <1>2, <1>3, <1>4, <1>5

\* The two ways a run ends.
LEMMA EndKeeps ==
  ASSUME DInv, JobsTypeOK', NEW r \in Runs, EndRun(r) \/ Throw(r)
  PROVE  TypeOK' /\ BatchIsHeld' /\ StopLosesNothing'
<1> USE DEF DInv, Goto
<1>1. CASE EndRun(r)
  <2>1. TypeOK'
    BY <1>1 DEF EndRun, TypeOK
  <2>2. BatchIsHeld'
    BY <1>1 DEF EndRun, Working, Finish, TypeOK, JobsTypeOK, BatchIsHeld
  <2> QED BY <1>1, <2>1, <2>2 DEF EndRun, Finish, StopLosesNothing
<1>2. CASE Throw(r)
  <2>1. at[r] \in {"block", "requeue"} => batch[r] # <<>>
    BY DEF BatchIsHeld
  <2>2. \A n \in 1..Len(Drained(queue)) : Drained(queue)[n] \in Intents
    BY DrainTypes DEF TypeOK
  <2>10. queue \in Seq(Intents) /\ lost \subseteq Intents
    BY DEF TypeOK
  <2>11. Trimmed(queue) \in Seq(Intents)
    BY <2>10, DrainTypes
  <2>12. at[r] = "requeue" => Pushed(queue, Head(batch[r])) \in Seq(Intents)
    BY <2>1, HeadAndTail, PushTypes
  <2>7. queue' \in Seq(Intents)
    BY <1>2, <2>10, <2>11, <2>12 DEF Throw
  <2>13. {Drained(queue)[n] : n \in 1..Len(Drained(queue))} \subseteq Intents
    BY <2>2
  <2>14. InBatch(r) \subseteq Intents
    BY InBatchTypes
  <2>8. lost' \subseteq Intents
    BY <1>2, <2>10, <2>13, <2>14 DEF Throw
  <2>9. isBlocked' \subseteq Users
    BY <1>2, <2>1, HeadAndTail DEF Throw, TypeOK
  <2>3. queue' \in Seq(Intents) /\ lost' \subseteq Intents /\ isBlocked' \subseteq Users
    BY <2>7, <2>8, <2>9
  <2>4. TypeOK'
    BY <1>2, <2>3 DEF Throw, TypeOK
  <2>5. BatchIsHeld'
    BY <1>2 DEF Throw, Finish, TypeOK, JobsTypeOK, BatchIsHeld
  <2>6. errors' # 0
    BY <1>2 DEF Throw, Error, TypeOK, JobsTypeOK
  <2> QED BY <2>4, <2>5, <2>6 DEF StopLosesNothing
<1> QED BY <1>1, <1>2

\* The two ways a replica goes.
LEMMA GoneKeeps ==
  ASSUME DInv, JobsTypeOK', NEW p \in Replicas, Quit(p) \/ (Crash(p) /\ Forget(p))
  PROVE  TypeOK' /\ BatchIsHeld' /\ StopLosesNothing'
<1> USE RunAssumption DEF DInv
<1>1. Down(p) /\ Forget(p)
  BY DEF Quit, Exit, Crash
<1>2. lost' \subseteq Intents
  BY <1>1, InBatchTypes DEF Forget, TypeOK, RunsOf
<1>3. TypeOK'
  BY <1>1, <1>2 DEF Forget, TypeOK
<1>4. BatchIsHeld'
  BY <1>1 DEF Forget, Down, TypeOK, JobsTypeOK, BatchIsHeld
<1>5. StopLosesNothing'
  <2>1. CASE Quit(p)
    \* Every run of p has ended, and a run that has ended has no batch.
    <3>1. \A r \in RunsOf(p) : batch[r] = <<>>
      BY <2>1 DEF Quit, Exit, Quiesced, InFlight, RunsOf, BatchIsHeld
    <3>2. \A r \in RunsOf(p) : InBatch(r) = {}
      BY <3>1, InBatchTypes DEF RunsOf
    <3>3. lost' = lost
      BY <1>1, <3>2 DEF Forget
    <3> QED BY <2>1, <1>1, <3>3 DEF Quit, Exit, Down, StopLosesNothing
  <2>2. CASE Crash(p)
    BY <2>2 DEF Crash, TypeOK, JobsTypeOK, StopLosesNothing
  <2> QED BY <2>1, <2>2
<1> QED BY <1>3, <1>4, <1>5

LEMMA StepIsHeld == DInv /\ [Next]_vars => DInv'
<1> SUFFICES ASSUME DInv, [Next]_vars PROVE DInv'
  OBVIOUS
<1>1. JInv' /\ JobsTypeOK'
  BY EveryStepIsJobsStep, JobsStepKeeps DEF DInv, JInv
<1> SUFFICES TypeOK' /\ BatchIsHeld' /\ StopLosesNothing'
  BY <1>1 DEF DInv
<1>2. ASSUME NEW i \in Intents, Enqueue(i)
      PROVE  TypeOK' /\ BatchIsHeld' /\ StopLosesNothing'
  <2>1. raised' \in 0..MaxIntents
    BY <1>2, IntentAssumption DEF Enqueue, Intents
  <2>6. queue' \in Seq(Intents)
    BY <1>2, PushTypes DEF Enqueue, DInv, TypeOK
  <2>7. lost \subseteq Intents
    BY DEF DInv, TypeOK
  <2>8. lost' = lost \/ lost' = lost \union {i}
    BY <1>2 DEF Enqueue
  <2>5. queue' \in Seq(Intents) /\ lost' \subseteq Intents
    BY <2>6, <2>7, <2>8
  <2>2. TypeOK'
    BY <1>1, <1>2, <2>1, <2>5 DEF Enqueue, DInv, TypeOK
  <2>3. BatchIsHeld'
    BY <1>2 DEF Enqueue, CallFails, jobVars, DInv, BatchIsHeld
  <2>4. StopLosesNothing'
    <3>1. CASE UNCHANGED <<lost, jobVars>>
      BY <3>1 DEF jobVars, DInv, StopLosesNothing
    <3>2. CASE CallFails
      BY <3>2 DEF CallFails, Error, DInv, TypeOK, JobsTypeOK, StopLosesNothing
    <3> QED BY <1>2, <3>1, <3>2 DEF Enqueue
  <2> QED BY <2>2, <2>3, <2>4
<1>3. ASSUME UNCHANGED drainVars,
             \/ \E r \in Runs : Trigger(r) \/ TriggerFails(r) \/ Release(r)
             \/ LockExpires
             \/ \E p \in Replicas : Start(p) \/ Stop(p)
             \/ UNCHANGED jobVars
      PROVE  TypeOK' /\ BatchIsHeld' /\ StopLosesNothing'
  <2>1. TypeOK'
    BY <1>1, <1>3 DEF drainVars, DInv, TypeOK
  <2>2. \A r \in Runs : stage'[r] # "running" => stage[r] # "running"
    BY <1>3 DEF Trigger, TriggerFails, Release, LockExpires, Start, Stop, jobVars,
                DInv, TypeOK, JobsTypeOK
  <2>3. BatchIsHeld'
    BY <1>3, <2>2 DEF drainVars, DInv, BatchIsHeld
  <2>4. errors' = 0 => errors = 0
    BY <1>3 DEF Trigger, TriggerFails, Release, LockExpires, Start, Stop, jobVars,
                Error, DInv, TypeOK, JobsTypeOK
  <2>5. crashes' = crashes
    BY <1>3 DEF Trigger, TriggerFails, Release, LockExpires, Start, Stop, jobVars
  <2> QED BY <1>3, <2>1, <2>3, <2>4, <2>5 DEF drainVars, DInv, StopLosesNothing
<1>4. ASSUME NEW r \in Runs, RunStep(r)
      PROVE  TypeOK' /\ BatchIsHeld' /\ StopLosesNothing'
  BY <1>1, <1>3, <1>4, WorkKeeps, EndKeeps DEF RunStep
<1>5. ASSUME NEW r \in Runs, Throw(r)
      PROVE  TypeOK' /\ BatchIsHeld' /\ StopLosesNothing'
  BY <1>1, <1>5, EndKeeps
<1>6. ASSUME NEW p \in Replicas, Quit(p) \/ (Crash(p) /\ Forget(p))
      PROVE  TypeOK' /\ BatchIsHeld' /\ StopLosesNothing'
  BY <1>1, <1>6, GoneKeeps
<1> QED
  BY <1>2, <1>3, <1>4, <1>5, <1>6 DEF Next, Tick, Expire, Boot, vars

\* The notification job is well typed, whatever runs, users and failures there are.
THEOREM TypeCorrect == Spec => []TypeOK
<1>1. DInv => TypeOK
  BY DEF DInv
<1> QED BY <1>1, InitIsHeld, StepIsHeld, PTL DEF Spec

\* Only a call that fails or a replica that dies loses a notification: a graceful
\* stop waits for the runs in flight, an overlap takes nothing from another run.
THEOREM StopsLoseNothing == Spec => []StopLosesNothing
<1>1. DInv => StopLosesNothing
  BY DEF DInv
<1> QED BY <1>1, InitIsHeld, StepIsHeld, PTL DEF Spec

-----------------------------------------------------------------------------
(* One place for every intent *)

Elems(q) == {q[n] : n \in 1..Len(q)}
Distinct(q) == \A m, n \in 1..Len(q) : q[m] = q[n] => m = n

\* HeldOnce counts; what a step preserves says where: the places are disjoint
\* and together hold what was raised, and none has an intent twice.
NoneTwice ==
  /\ Distinct(queue)
  /\ \A r \in Runs : Distinct(batch[r]) /\ (at[r] = "drain" => batch[r] = <<>>)

Apart ==
  /\ \A r \in Runs : InBatch(r) \cap (Elems(queue) \union settled \union lost) = {}
  /\ \A r, s \in Runs : r # s => InBatch(r) \cap InBatch(s) = {}
  /\ Elems(queue) \cap (settled \union lost) = {}
  /\ settled \cap lost = {}

Somewhere ==
  \A i \in Intents :
    i <= raised <=> \/ i \in Elems(queue) \union settled \union lost
                    \/ \E r \in Runs : i \in InBatch(r)

DeliveredOnce ==
  \A i \in Intents : deliveries[i] <= unsure[i] + (IF i \in settled THEN 1 ELSE 0)

OnePlace == NoneTwice /\ Apart /\ Somewhere /\ DeliveredOnce

\* Appending what a queue does not have.
LEMMA PushElems ==
  ASSUME NEW q \in Seq(Intents), NEW i \in Intents, Distinct(q), i \notin Elems(q)
  PROVE  Distinct(Pushed(q, i)) /\ Elems(Pushed(q, i)) = Elems(q) \union {i}
<1>1. /\ Len(Pushed(q, i)) = Len(q) + 1 /\ Len(q) \in Nat
      /\ \A n \in 1..Len(q) : Pushed(q, i)[n] = q[n]
      /\ Pushed(q, i)[Len(q) + 1] = i
  BY DEF Pushed
<1> QED BY <1>1 DEF Distinct, Elems

\* The tail of a batch has all but the head.
LEMMA TailElems ==
  ASSUME NEW q \in Seq(Intents), q # <<>>, Distinct(q)
  PROVE  /\ Distinct(Tail(q)) /\ Head(q) \in Elems(q)
         /\ Elems(Tail(q)) = Elems(q) \ {Head(q)}
<1>1. /\ Len(q) \in Nat \ {0} /\ Head(q) = q[1] /\ Len(Tail(q)) = Len(q) - 1
      /\ \A n \in 1..(Len(q) - 1) : Tail(q)[n] = q[n + 1]
  BY EmptySeq, HeadTailProperties
<1>2. Distinct(Tail(q)) /\ Head(q) \in Elems(q)
  BY <1>1 DEF Distinct, Elems
<1>3. ASSUME NEW i \in Elems(Tail(q)) PROVE i \in Elems(q) \ {Head(q)}
  BY <1>1 DEF Distinct, Elems
<1>4. ASSUME NEW i \in Elems(q) \ {Head(q)} PROVE i \in Elems(Tail(q))
  <2>1. PICK n \in 1..Len(q) : q[n] = i
    BY DEF Elems
  <2>2. n - 1 \in 1..(Len(q) - 1) /\ Tail(q)[n - 1] = i
    BY <1>1, <1>4, <2>1
  <2> QED BY <1>1, <2>2 DEF Elems
<1> QED BY <1>2, <1>3, <1>4

\* The drain script parts the queue in two.
LEMMA DrainElems ==
  ASSUME NEW q \in Seq(Intents), Distinct(q)
  PROVE  /\ Distinct(Drained(q)) /\ Distinct(Trimmed(q))
         /\ Elems(Drained(q)) \cap Elems(Trimmed(q)) = {}
         /\ Elems(q) = Elems(Drained(q)) \union Elems(Trimmed(q))
<1>1. CASE Len(q) > Batch
  <2>1. Len(q) \in Nat /\ \A n \in 1..Len(q) : q[n] \in Intents
    OBVIOUS
  <2>2. /\ Len(Drained(q)) = Batch
        /\ \A n \in 1..Batch : Drained(q)[n] = q[n]
    BY <1>1, <2>1, BatchAssumption, SubSeqProperties DEF Drained
  <2>3. /\ Len(Trimmed(q)) = Len(q) - Batch
        /\ \A n \in 1..(Len(q) - Batch) : Trimmed(q)[n] = q[Batch + n]
    <3>1. \A n \in (Batch + 1)..Len(q) : q[n] \in Intents
      BY <2>1, BatchAssumption
    <3>2. /\ Len(SubSeq(q, Batch + 1, Len(q))) = Len(q) - Batch
          /\ \A n \in 1..(Len(q) - Batch) :
               SubSeq(q, Batch + 1, Len(q))[n] = q[Batch + n]
      BY <1>1, <2>1, <3>1, BatchAssumption, SubSeqProperties
    <3> QED BY <1>1, <3>2 DEF Trimmed
  <2>8. /\ \A n \in 1..Batch : n \in 1..Len(q)
        /\ \A n \in 1..(Len(q) - Batch) : Batch + n \in 1..Len(q)
    BY <1>1, <2>1, BatchAssumption
  <2>9. \A m, n \in 1..(Len(q) - Batch) : Batch + m = Batch + n => m = n
    BY <1>1, <2>1, BatchAssumption
  <2>4. Distinct(Drained(q)) /\ Distinct(Trimmed(q))
    <3>1. Distinct(Drained(q))
      BY <2>2, <2>8 DEF Distinct
    <3>2. Distinct(Trimmed(q))
      BY <2>3, <2>8, <2>9 DEF Distinct
    <3> QED BY <3>1, <3>2
  <2>5. Elems(Drained(q)) \cap Elems(Trimmed(q)) = {}
    BY <1>1, <2>1, <2>2, <2>3, BatchAssumption DEF Distinct, Elems
  <2>6. ASSUME NEW i \in Elems(q) PROVE i \in Elems(Drained(q)) \union Elems(Trimmed(q))
    <3>1. PICK n \in 1..Len(q) : q[n] = i
      BY DEF Elems
    <3>2. CASE n <= Batch
      BY <2>2, <3>1, <3>2, BatchAssumption DEF Elems
    <3>3. CASE n > Batch
      <4>1. n - Batch \in 1..(Len(q) - Batch) /\ Batch + (n - Batch) = n
        BY <2>1, <3>1, <3>3, BatchAssumption
      <4>2. Trimmed(q)[n - Batch] = i
        BY <2>3, <3>1, <4>1
      <4> QED BY <2>3, <4>1, <4>2 DEF Elems
    <3> QED BY <2>1, <3>1, <3>2, <3>3, BatchAssumption
  <2>7. Elems(Drained(q)) \union Elems(Trimmed(q)) \subseteq Elems(q)
    <3>1. ASSUME NEW i \in Elems(Drained(q)) PROVE i \in Elems(q)
      <4>1. PICK n \in 1..Batch : Drained(q)[n] = i
        BY <2>2 DEF Elems
      <4> QED BY <2>2, <2>8, <4>1 DEF Elems
    <3>2. ASSUME NEW i \in Elems(Trimmed(q)) PROVE i \in Elems(q)
      <4>1. PICK n \in 1..(Len(q) - Batch) : Trimmed(q)[n] = i
        BY <2>3 DEF Elems
      <4> QED BY <2>3, <2>8, <4>1 DEF Elems
    <3> QED BY <3>1, <3>2
  <2> QED BY <2>4, <2>5, <2>6, <2>7
<1>2. CASE ~(Len(q) > Batch)
  BY <1>2 DEF Drained, Trimmed, Distinct, Elems
<1> QED BY <1>1, <1>2

\* Places that are disjoint count once.
LEMMA PlacesCount == TypeOK /\ OnePlace => HeldOnce
<1> SUFFICES ASSUME TypeOK, OnePlace, NEW i \in Intents
             PROVE  Copies(i) = IF i <= raised THEN 1 ELSE 0
  BY DEF HeldOnce, OnePlace, DeliveredOnce
<1> DEFINE inQueue == {n \in 1..Len(queue) : queue[n] = i}
           inBatches == {r \in Runs : i \in InBatch(r)}
<1>1. /\ i \in Elems(queue) => Cardinality(inQueue) = 1
      /\ i \notin Elems(queue) => Cardinality(inQueue) = 0
  <2>1. ASSUME i \in Elems(queue) PROVE Cardinality(inQueue) = 1
    <3>1. PICK n \in 1..Len(queue) : queue[n] = i
      BY <2>1 DEF Elems
    <3>2. inQueue = {n}
      BY <3>1 DEF OnePlace, NoneTwice, Distinct
    <3> QED BY <3>2, FS_Singleton
  <2>2. ASSUME i \notin Elems(queue) PROVE Cardinality(inQueue) = 0
    <3>1. inQueue = {}
      BY <2>2 DEF Elems
    <3> QED BY <3>1, FS_EmptySet
  <2> QED BY <2>1, <2>2
<1>2. /\ \A r \in Runs : i \in InBatch(r) => Cardinality(inBatches) = 1
      /\ (\A r \in Runs : i \notin InBatch(r)) => Cardinality(inBatches) = 0
  <2>1. ASSUME NEW r \in Runs, i \in InBatch(r) PROVE Cardinality(inBatches) = 1
    <3>1. inBatches = {r}
      BY <2>1 DEF OnePlace, Apart
    <3> QED BY <3>1, FS_Singleton
  <2>2. ASSUME \A r \in Runs : i \notin InBatch(r) PROVE Cardinality(inBatches) = 0
    <3>1. inBatches = {}
      BY <2>2
    <3> QED BY <3>1, FS_EmptySet
  <2> QED BY <2>1, <2>2
<1>3. Copies(i) = Cardinality(inQueue) + Cardinality(inBatches)
        + (IF i \in settled THEN 1 ELSE 0) + (IF i \in lost THEN 1 ELSE 0)
  BY DEF Copies
<1> HIDE DEF inQueue, inBatches
<1>4. CASE i \in Elems(queue)
  <2>1. i <= raised /\ i \notin settled /\ i \notin lost /\ \A r \in Runs : i \notin InBatch(r)
    BY <1>4 DEF OnePlace, Apart, Somewhere
  <2> QED BY <1>1, <1>2, <1>3, <1>4, <2>1
<1>5. ASSUME NEW r \in Runs, i \in InBatch(r)
      PROVE  Copies(i) = IF i <= raised THEN 1 ELSE 0
  <2>1. i <= raised /\ i \notin settled /\ i \notin lost /\ i \notin Elems(queue)
    BY <1>5 DEF OnePlace, Apart, Somewhere
  <2> QED BY <1>1, <1>2, <1>3, <1>5, <2>1
<1>6. CASE i \notin Elems(queue) /\ \A r \in Runs : i \notin InBatch(r)
  <2>1. i <= raised <=> i \in settled \/ i \in lost
    BY <1>6 DEF OnePlace, Somewhere
  <2>2. ~(i \in settled /\ i \in lost)
    BY DEF OnePlace, Apart
  <2> QED BY <1>1, <1>2, <1>3, <1>6, <2>1, <2>2
<1> QED BY <1>4, <1>5, <1>6

LEMMA NothingAtFirst == Init => OnePlace
<1> SUFFICES ASSUME Init PROVE OnePlace
  OBVIOUS
<1>1. Len(<<>>) = 0
  BY EmptySeq
<1>2. Elems(queue) = {} /\ \A r \in Runs : InBatch(r) = {}
  BY <1>1 DEF Init, Elems, InBatch
<1>3. NoneTwice
  BY <1>1 DEF Init, NoneTwice, Distinct
<1>4. Apart /\ Somewhere
  BY <1>2 DEF Init, Apart, Somewhere, Intents
<1>5. DeliveredOnce
  BY DEF Init, DeliveredOnce
<1> QED BY <1>3, <1>4, <1>5 DEF OnePlace

\* The head of a batch leaves it.
LEMMA HeadLeaves ==
  ASSUME TypeOK, NoneTwice, NEW r \in Runs, batch[r] # <<>>,
         batch' = [batch EXCEPT ![r] = Tail(@)]
  PROVE  /\ Head(batch[r]) \in InBatch(r) /\ Head(batch[r]) \in Intents
         /\ InBatch(r)' = InBatch(r) \ {Head(batch[r])}
         /\ \A s \in Runs : s # r => InBatch(s)' = InBatch(s)
         /\ \A s \in Runs : Distinct(batch'[s])
<1>1. batch \in [Runs -> Seq(Intents)] /\ batch[r] \in Seq(Intents) /\ Distinct(batch[r])
  BY DEF TypeOK, NoneTwice
<1>2. /\ Distinct(Tail(batch[r])) /\ Head(batch[r]) \in Elems(batch[r])
      /\ Elems(Tail(batch[r])) = Elems(batch[r]) \ {Head(batch[r])}
  BY <1>1, TailElems
<1>3. batch'[r] = Tail(batch[r]) /\ \A s \in Runs : s # r => batch'[s] = batch[s]
  BY <1>1
<1>4. /\ InBatch(r) = Elems(batch[r]) /\ InBatch(r)' = Elems(batch'[r])
      /\ \A s \in Runs : s # r => InBatch(s)' = InBatch(s)
  BY <1>3 DEF InBatch, Elems
<1> QED BY <1>2, <1>3, <1>4, HeadAndTail DEF NoneTwice

\* A batch is dropped, or taken from the queue.
LEMMA BatchReplaced ==
  ASSUME TypeOK, NoneTwice, NEW r \in Runs, NEW q \in Seq(Intents), Distinct(q),
         batch' = [batch EXCEPT ![r] = q]
  PROVE  /\ InBatch(r)' = Elems(q)
         /\ \A s \in Runs : s # r => InBatch(s)' = InBatch(s)
         /\ batch'[r] = q
         /\ \A s \in Runs : s # r => batch'[s] = batch[s]
         /\ \A s \in Runs : Distinct(batch'[s])
<1>1. batch'[r] = q /\ \A s \in Runs : s # r => batch'[s] = batch[s]
  BY DEF TypeOK
<1> QED BY <1>1 DEF InBatch, Elems, NoneTwice

LEMMA EmptyElems == Distinct(<<>>) /\ Elems(<<>>) = {} /\ <<>> \in Seq(Intents)
  BY EmptySeq DEF Distinct, Elems

\* An intent reaches the queue, or is lost on its way.
LEMMA EnqueueKeepsPlaces ==
  ASSUME DInv, OnePlace, NEW i \in Intents, Enqueue(i)
  PROVE  OnePlace'
<1>1. TypeOK /\ raised \in Nat /\ i = raised + 1 /\ raised' = i
  BY DEF DInv, TypeOK, Enqueue
<1>2. /\ i \notin Elems(queue) /\ i \notin settled /\ i \notin lost
      /\ \A r \in Runs : i \notin InBatch(r)
  BY <1>1 DEF OnePlace, Somewhere
<1>3. UNCHANGED <<batch, at, settled, deliveries, unsure>>
  BY DEF Enqueue
<1>4. \A j \in Intents : j <= raised' <=> j <= raised \/ j = i
  BY <1>1 DEF Intents
<1>5. /\ Distinct(queue)'
      /\ \/ Elems(queue)' = Elems(queue) \union {i} /\ lost' = lost
         \/ Elems(queue)' = Elems(queue) /\ lost' = lost \union {i}
  <2>1. CASE queue' = Pushed(queue, i) /\ lost' = lost
    BY <1>1, <1>2, <2>1, PushElems DEF OnePlace, NoneTwice, TypeOK
  <2>2. CASE queue' = queue /\ lost' = lost \union {i}
    BY <2>2 DEF OnePlace, NoneTwice, Elems, Distinct
  <2> QED BY <2>1, <2>2 DEF Enqueue
<1>6. \A r \in Runs : InBatch(r)' = InBatch(r)
  BY <1>3 DEF InBatch
<1>7. NoneTwice' /\ DeliveredOnce'
  BY <1>3, <1>5 DEF OnePlace, NoneTwice, DeliveredOnce
<1>8. Apart'
  BY <1>2, <1>3, <1>5, <1>6 DEF OnePlace, Apart
<1>9. Somewhere'
  BY <1>3, <1>4, <1>5, <1>6 DEF OnePlace, Somewhere
<1> QED BY <1>7, <1>8, <1>9 DEF OnePlace

\* A run takes its batch.
LEMMA DrainKeepsPlaces ==
  ASSUME DInv, OnePlace, NEW r \in Runs, Drain(r)
  PROVE  OnePlace'
<1>1. TypeOK /\ NoneTwice /\ queue \in Seq(Intents) /\ Distinct(queue)
  BY DEF DInv, TypeOK, OnePlace, NoneTwice
<1>2. batch[r] = <<>> /\ InBatch(r) = {}
  BY <1>1, EmptyElems DEF Drain, Working, NoneTwice, InBatch, Elems
<1>3. UNCHANGED <<raised, settled, lost, deliveries, unsure>>
  BY DEF Drain
<1>4. /\ InBatch(r)' = Elems(Drained(queue))
      /\ \A s \in Runs : s # r => InBatch(s)' = InBatch(s) /\ batch'[s] = batch[s]
      /\ \A s \in Runs : Distinct(batch'[s])
  <2>1. Drained(queue) \in Seq(Intents) /\ Distinct(Drained(queue))
    BY <1>1, DrainTypes, DrainElems
  <2>2. batch' = [batch EXCEPT ![r] = Drained(queue)]
    BY DEF Drain
  <2> QED BY <1>1, <2>1, <2>2, BatchReplaced
<1>5. /\ Elems(queue)' = Elems(Trimmed(queue)) /\ Distinct(queue)'
      /\ Elems(Drained(queue)) \cap Elems(Trimmed(queue)) = {}
      /\ Elems(queue) = Elems(Drained(queue)) \union Elems(Trimmed(queue))
  BY <1>1, DrainElems DEF Drain, Elems, Distinct
<1>6. \A s \in Runs : at'[s] = "drain" => s # r /\ at[s] = "drain"
  BY <1>1 DEF Drain, Goto, TypeOK
<1>7. NoneTwice'
  BY <1>1, <1>4, <1>5, <1>6 DEF NoneTwice
<1>8. Apart'
  BY <1>2, <1>3, <1>4, <1>5 DEF OnePlace, Apart
<1>9. Somewhere'
  BY <1>2, <1>3, <1>4, <1>5 DEF OnePlace, Somewhere
<1> QED BY <1>3, <1>7, <1>8, <1>9 DEF OnePlace, DeliveredOnce

\* The run goes on with the intent it has in hand.
LEMMA GoOnKeepsPlaces ==
  ASSUME DInv, OnePlace, NEW r \in Runs, NEW where \in {"send", "block", "requeue"},
         Goto(r, where), UNCHANGED <<queue, batch, raised, settled, lost>>, DeliveredOnce'
  PROVE  OnePlace'
<1>1. Elems(queue)' = Elems(queue) /\ \A s \in Runs : InBatch(s)' = InBatch(s)
  BY DEF Elems, InBatch
<1>2. \A s \in Runs : at'[s] = "drain" => at[s] = "drain"
  BY DEF Goto, DInv, TypeOK
<1>3. NoneTwice'
  BY <1>2 DEF OnePlace, NoneTwice, Distinct
<1>4. Apart' /\ Somewhere'
  BY <1>1 DEF OnePlace, Apart, Somewhere
<1> QED BY <1>3, <1>4 DEF OnePlace

\* The head of a batch is settled.
LEMMA SettleKeepsPlaces ==
  ASSUME DInv, OnePlace, NEW r \in Runs, batch[r] # <<>>, Done(r),
         settled' = settled \union {Head(batch[r])},
         UNCHANGED <<queue, raised, lost>>, DeliveredOnce'
  PROVE  OnePlace'
<1>1. TypeOK /\ NoneTwice
  BY DEF DInv, OnePlace
<1>2. /\ Head(batch[r]) \in InBatch(r) /\ Head(batch[r]) \in Intents
      /\ InBatch(r)' = InBatch(r) \ {Head(batch[r])}
      /\ \A s \in Runs : s # r => InBatch(s)' = InBatch(s)
      /\ \A s \in Runs : Distinct(batch'[s])
  BY <1>1, HeadLeaves DEF Done
<1>3. Elems(queue)' = Elems(queue) /\ Distinct(queue)'
  BY <1>1 DEF Elems, NoneTwice, Distinct
<1>4. \A s \in Runs : at'[s] = "drain" => s # r /\ at[s] = "drain" /\ batch'[s] = batch[s]
  BY <1>1 DEF Done, Goto, TypeOK
<1>5. NoneTwice'
  BY <1>1, <1>2, <1>3, <1>4 DEF NoneTwice
<1>6. Apart'
  BY <1>2, <1>3 DEF OnePlace, Apart
<1>7. Somewhere'
  BY <1>2, <1>3 DEF OnePlace, Somewhere
<1> QED BY <1>5, <1>6, <1>7 DEF OnePlace

\* The steps of drainPending after the batch is taken.
LEMMA WorkKeepsPlaces ==
  ASSUME DInv, OnePlace, NEW r \in Runs, Look(r) \/ Send(r) \/ Block(r) \/ Requeue(r)
  PROVE  OnePlace'
<1>1. TypeOK /\ NoneTwice /\ DeliveredOnce
  BY DEF DInv, OnePlace
<1>2. batch[r] # <<>>
  BY DEF Look, Send, Block, Requeue, Working, DInv, BatchIsHeld
<1> DEFINE i == Head(batch[r])
<1>3. i \in Intents /\ i \in InBatch(r) /\ i \notin Elems(queue) /\ i \notin settled
  <2>1. i \in Intents
    BY <1>1, <1>2, HeadAndTail
  <2>2. batch[r] \in Seq(Intents) /\ Distinct(batch[r])
    BY <1>1 DEF TypeOK, NoneTwice
  <2>3. i \in InBatch(r)
    BY <1>2, <2>2, TailElems DEF InBatch, Elems
  <2> QED BY <2>1, <2>3 DEF OnePlace, Apart
<1> HIDE DEF i
<1>4. deliveries \in [Intents -> Nat] /\ unsure \in [Intents -> Nat]
  BY <1>1 DEF TypeOK
<1>5. CASE Look(r)
  <2>1. CASE settled' = settled \union {i} /\ Done(r)
    <3>1. UNCHANGED <<queue, raised, lost, deliveries, unsure>>
      BY <1>5 DEF Look
    <3>2. DeliveredOnce'
      BY <1>1, <1>4, <2>1, <3>1 DEF DeliveredOnce
    <3> QED BY <1>2, <2>1, <3>1, <3>2, SettleKeepsPlaces DEF i
  <2>2. CASE Goto(r, "send") /\ UNCHANGED <<settled, batch>>
    <3>1. UNCHANGED <<queue, raised, lost, deliveries, unsure>>
      BY <1>5 DEF Look
    <3>2. DeliveredOnce'
      BY <1>1, <2>2, <3>1 DEF DeliveredOnce
    <3> QED BY <2>2, <3>1, <3>2, GoOnKeepsPlaces
  <2> QED BY <1>5, <2>1, <2>2 DEF Look, i
<1>6. CASE Send(r)
  <2>1. UNCHANGED <<queue, raised, lost>>
    BY <1>6 DEF Send
  <2>2. CASE /\ deliveries' = [deliveries EXCEPT ![i] = @ + 1]
             /\ settled' = settled \union {i} /\ Done(r) /\ UNCHANGED unsure
    \* It was not settled, so it was delivered no more often than unsure says.
    <3>1. deliveries[i] <= unsure[i]
      BY <1>1, <1>3, <1>4 DEF DeliveredOnce
    <3>2. ASSUME NEW j \in Intents
          PROVE  deliveries'[j] <= unsure'[j] + (IF j \in settled' THEN 1 ELSE 0)
      <4>1. CASE j = i
        <5>1. deliveries'[j] = deliveries[i] + 1 /\ unsure'[j] = unsure[i] /\ j \in settled'
          BY <1>3, <1>4, <2>2, <4>1
        <5> QED BY <1>3, <1>4, <3>1, <5>1
      <4>2. CASE j # i
        <5>1. deliveries'[j] = deliveries[j] /\ unsure'[j] = unsure[j]
              /\ (j \in settled' <=> j \in settled)
          BY <1>4, <2>2, <4>2
        <5> QED BY <1>1, <5>1 DEF DeliveredOnce
      <4> QED BY <4>1, <4>2
    <3>3. DeliveredOnce'
      BY <3>2 DEF DeliveredOnce
    <3> QED BY <1>2, <2>1, <2>2, <3>3, SettleKeepsPlaces DEF i
  <2>3. CASE /\ Goto(r, OnBlocked) \/ Goto(r, "requeue")
             /\ UNCHANGED <<batch, settled, deliveries, unsure>>
    <3>1. DeliveredOnce'
      BY <1>1, <2>3 DEF DeliveredOnce
    <3> QED BY <2>1, <2>3, <3>1, GoOnKeepsPlaces DEF OnBlocked
  <2>4. CASE /\ Goto(r, "requeue") /\ UNCHANGED <<batch, settled>>
             /\ deliveries' = [deliveries EXCEPT ![i] = @ + 1]
             /\ unsure' = [unsure EXCEPT ![i] = @ + 1]
    <3>1. ASSUME NEW j \in Intents
          PROVE  deliveries'[j] <= unsure'[j] + (IF j \in settled' THEN 1 ELSE 0)
      <4>1. CASE j = i
        <5>1. deliveries'[j] = deliveries[j] + 1 /\ unsure'[j] = unsure[j] + 1
              /\ (j \in settled' <=> j \in settled)
          BY <1>3, <1>4, <2>4, <4>1
        <5>2. deliveries[j] <= unsure[j] + (IF j \in settled THEN 1 ELSE 0)
          BY <1>1 DEF DeliveredOnce
        <5> QED BY <1>4, <5>1, <5>2
      <4>2. CASE j # i
        <5>1. deliveries'[j] = deliveries[j] /\ unsure'[j] = unsure[j]
              /\ (j \in settled' <=> j \in settled)
          BY <1>4, <2>4, <4>2
        <5> QED BY <1>1, <5>1 DEF DeliveredOnce
      <4> QED BY <4>1, <4>2
    <3>2. DeliveredOnce'
      BY <3>1 DEF DeliveredOnce
    <3> QED BY <2>1, <2>4, <3>2, GoOnKeepsPlaces
  <2> QED BY <1>6, <2>2, <2>3, <2>4 DEF Send, i
<1>7. CASE Block(r)
  <2>1. settled' = settled \union {i} /\ Done(r)
        /\ UNCHANGED <<queue, raised, lost, deliveries, unsure>>
    BY <1>7 DEF Block, i
  <2>2. DeliveredOnce'
    BY <1>1, <1>4, <2>1 DEF DeliveredOnce
  <2> QED BY <1>2, <2>1, <2>2, SettleKeepsPlaces DEF i
<1>8. CASE Requeue(r)
  <2>1. queue' = Pushed(queue, i) /\ Done(r)
        /\ UNCHANGED <<raised, settled, lost, deliveries, unsure>>
    BY <1>8 DEF Requeue, i
  <2>2. /\ InBatch(r)' = InBatch(r) \ {i}
        /\ \A s \in Runs : s # r => InBatch(s)' = InBatch(s)
        /\ \A s \in Runs : Distinct(batch'[s])
    BY <1>1, <1>2, <2>1, HeadLeaves DEF Done, i
  <2>3. Distinct(queue)' /\ Elems(queue)' = Elems(queue) \union {i}
    <3>1. queue \in Seq(Intents) /\ Distinct(queue)
      BY <1>1 DEF TypeOK, NoneTwice
    <3> QED BY <1>3, <2>1, <3>1, PushElems
  <2>4. \A s \in Runs : at'[s] = "drain" => s # r /\ at[s] = "drain" /\ batch'[s] = batch[s]
    BY <1>1, <2>1 DEF Done, Goto, TypeOK
  <2>5. NoneTwice' /\ DeliveredOnce'
    BY <1>1, <2>1, <2>2, <2>3, <2>4 DEF NoneTwice, DeliveredOnce
  <2>6. Apart'
    BY <1>3, <2>1, <2>2, <2>3 DEF OnePlace, Apart
  <2>7. Somewhere'
    BY <1>3, <2>1, <2>2, <2>3 DEF OnePlace, Somewhere
  <2> QED BY <2>5, <2>6, <2>7 DEF OnePlace
<1> QED BY <1>5, <1>6, <1>7, <1>8

\* The two ways a run ends: its batch is empty, or it is lost.
LEMMA EndKeepsPlaces ==
  ASSUME DInv, OnePlace, NEW r \in Runs, EndRun(r) \/ Throw(r)
  PROVE  OnePlace'
<1>1. /\ TypeOK /\ NoneTwice /\ queue \in Seq(Intents) /\ Distinct(queue)
      /\ UNCHANGED <<raised, settled, deliveries, unsure>> /\ Goto(r, "drain")
  BY DEF DInv, TypeOK, OnePlace, NoneTwice, EndRun, Throw
<1>2. DeliveredOnce'
  BY <1>1 DEF OnePlace, DeliveredOnce
<1>3. /\ InBatch(r)' = {} /\ batch'[r] = <<>>
      /\ \A s \in Runs : s # r => InBatch(s)' = InBatch(s) /\ batch'[s] = batch[s]
      /\ \A s \in Runs : Distinct(batch'[s])
  <2>1. batch' = [batch EXCEPT ![r] = <<>>]
    <3>1. CASE EndRun(r)
      BY <1>1, <3>1 DEF EndRun, TypeOK
    <3>2. CASE Throw(r)
      BY <3>2 DEF Throw
    <3> QED BY <3>1, <3>2
  <2> QED BY <1>1, <2>1, EmptyElems, BatchReplaced
<1>4. \A s \in Runs : at'[s] = "drain" => s = r \/ at[s] = "drain"
  BY <1>1 DEF Goto, TypeOK
<1>5. ASSUME Distinct(queue)' PROVE NoneTwice'
  BY <1>1, <1>3, <1>4, <1>5 DEF NoneTwice
<1>6. /\ at[r] = "drain" => InBatch(r) = {}
      /\ at[r] \in {"block", "requeue"} => batch[r] # <<>>
  BY <1>1, EmptyElems DEF NoneTwice, InBatch, Elems, DInv, BatchIsHeld
<1>7. CASE UNCHANGED queue /\ lost' = lost \union InBatch(r)
  <2>1. Elems(queue)' = Elems(queue) /\ Distinct(queue)'
    BY <1>1, <1>7 DEF Elems, Distinct
  <2>2. Apart'
    BY <1>1, <1>3, <1>7, <2>1 DEF OnePlace, Apart
  <2>3. Somewhere'
    BY <1>1, <1>3, <1>7, <2>1 DEF OnePlace, Somewhere
  <2> QED BY <1>2, <1>5, <2>1, <2>2, <2>3 DEF OnePlace
<1>8. CASE /\ at[r] = "drain" /\ queue' = Trimmed(queue)
           /\ lost' = lost \union Elems(Drained(queue))
  <2>1. /\ Elems(queue)' = Elems(Trimmed(queue)) /\ Distinct(queue)'
        /\ Elems(Drained(queue)) \cap Elems(Trimmed(queue)) = {}
        /\ Elems(queue) = Elems(Drained(queue)) \union Elems(Trimmed(queue))
    <3>1. Elems(queue)' = Elems(Trimmed(queue))
          /\ (Distinct(queue)' <=> Distinct(Trimmed(queue)))
      BY <1>8 DEF Elems, Distinct
    <3> QED BY <1>1, <3>1, DrainElems
  <2>2. Apart'
    BY <1>1, <1>3, <1>6, <1>8, <2>1 DEF OnePlace, Apart
  <2>3. Somewhere'
    BY <1>1, <1>3, <1>6, <1>8, <2>1 DEF OnePlace, Somewhere
  <2> QED BY <1>2, <1>5, <2>1, <2>2, <2>3 DEF OnePlace
<1>9. CASE /\ at[r] = "requeue" /\ queue' = Pushed(queue, Head(batch[r]))
           /\ lost' = lost \union (InBatch(r) \ {Head(batch[r])})
  <2> DEFINE i == Head(batch[r])
  <2>1. i \in Intents /\ i \in InBatch(r)
    <3>1. batch[r] # <<>> /\ batch[r] \in Seq(Intents) /\ Distinct(batch[r])
      BY <1>1, <1>6, <1>9 DEF TypeOK, NoneTwice
    <3>2. i \in Elems(batch[r])
      BY <3>1, TailElems
    <3> QED BY <1>1, <3>1, <3>2, HeadAndTail DEF InBatch, Elems
  <2> HIDE DEF i
  <2>2. i \notin Elems(queue)
    BY <2>1 DEF OnePlace, Apart
  <2>3. Distinct(queue)' /\ Elems(queue)' = Elems(queue) \union {i}
    BY <1>1, <1>9, <2>1, <2>2, PushElems DEF i
  <2>4. lost' = lost \union (InBatch(r) \ {i})
    BY <1>9 DEF i
  <2>5. Apart'
    BY <1>1, <1>3, <2>1, <2>3, <2>4 DEF OnePlace, Apart
  <2>6. Somewhere'
    BY <1>1, <1>3, <2>1, <2>3, <2>4 DEF OnePlace, Somewhere
  <2> QED BY <1>2, <1>5, <2>3, <2>5, <2>6 DEF OnePlace
<1>10. CASE EndRun(r)
  <2>1. InBatch(r) = {} /\ UNCHANGED <<queue, lost>>
    BY <1>1, <1>10, InBatchTypes DEF EndRun
  <2> QED BY <1>7, <2>1
<1>11. CASE Throw(r)
  <2>1. Elems(Drained(queue)) = {Drained(queue)[n] : n \in 1..Len(Drained(queue))}
    BY DEF Elems
  <2>2. \/ at[r] = "drain" /\ UNCHANGED <<queue, lost>>
        \/ /\ at[r] = "drain" /\ queue' = Trimmed(queue)
           /\ lost' = lost \union Elems(Drained(queue))
        \/ UNCHANGED queue /\ lost' = lost \union InBatch(r)
        \/ /\ at[r] = "requeue" /\ queue' = Pushed(queue, Head(batch[r]))
           /\ lost' = lost \union (InBatch(r) \ {Head(batch[r])})
    BY <1>11, <2>1, Zenon DEF Throw
  <2>3. CASE at[r] = "drain" /\ UNCHANGED <<queue, lost>>
    BY <1>6, <1>7, <2>3
  <2> QED BY <1>7, <1>8, <1>9, <2>2, <2>3
<1> QED BY <1>10, <1>11

\* The two ways a replica goes: the batches of its runs are lost.
LEMMA GoneKeepsPlaces ==
  ASSUME DInv, OnePlace, NEW p \in Replicas, Forget(p)
  PROVE  OnePlace'
<1>1. /\ TypeOK /\ NoneTwice
      /\ UNCHANGED <<queue, raised, settled, deliveries, unsure>>
      /\ lost' = lost \union UNION {InBatch(r) : r \in RunsOf(p)}
  BY DEF DInv, OnePlace, Forget
<1>2. \A r \in Runs :
        /\ Home[r] = p => batch'[r] = <<>>
        /\ Home[r] # p => batch'[r] = batch[r] /\ at'[r] = at[r]
  BY DEF Forget
<1>3. \A r \in Runs :
        /\ Home[r] = p => InBatch(r)' = {}
        /\ Home[r] # p => InBatch(r)' = InBatch(r)
  BY <1>2, EmptyElems DEF InBatch, Elems
<1>4. \A i : i \in lost' <=> i \in lost \/ \E r \in Runs : Home[r] = p /\ i \in InBatch(r)
  BY <1>1 DEF RunsOf
<1>5. NoneTwice'
  BY <1>1, <1>2, EmptyElems DEF NoneTwice, Distinct
<1>6. Elems(queue)' = Elems(queue)
  BY <1>1 DEF Elems
<1>7. Apart'
  BY <1>1, <1>3, <1>4, <1>6 DEF OnePlace, Apart
<1>8. Somewhere'
  BY <1>1, <1>3, <1>4, <1>6 DEF OnePlace, Somewhere
<1> QED BY <1>1, <1>5, <1>7, <1>8 DEF OnePlace, DeliveredOnce

LEMMA StepKeepsPlaces == DInv /\ OnePlace /\ [Next]_vars => OnePlace'
<1> SUFFICES ASSUME DInv, OnePlace, [Next]_vars PROVE OnePlace'
  OBVIOUS
<1>1. CASE UNCHANGED drainVars
  <2>1. NoneTwice'
    BY <1>1 DEF drainVars, OnePlace, NoneTwice, Distinct
  <2>2. Apart' /\ Somewhere' /\ DeliveredOnce'
    <3>1. Elems(queue)' = Elems(queue) /\ \A r \in Runs : InBatch(r)' = InBatch(r)
      BY <1>1 DEF drainVars, InBatch, Elems
    <3> QED BY <1>1, <3>1 DEF drainVars, OnePlace, Apart, Somewhere, DeliveredOnce
  <2> QED BY <2>1, <2>2 DEF OnePlace
<1>2. ASSUME NEW i \in Intents, Enqueue(i) PROVE OnePlace'
  BY <1>2, EnqueueKeepsPlaces
<1>3. ASSUME NEW r \in Runs, RunStep(r) PROVE OnePlace'
  BY <1>1, <1>3, DrainKeepsPlaces, WorkKeepsPlaces, EndKeepsPlaces DEF RunStep
<1>4. ASSUME NEW r \in Runs, Throw(r) PROVE OnePlace'
  BY <1>4, EndKeepsPlaces
<1>5. ASSUME NEW p \in Replicas, Quit(p) \/ (Crash(p) /\ Forget(p)) PROVE OnePlace'
  BY <1>5, GoneKeepsPlaces DEF Quit
<1> QED BY <1>1, <1>2, <1>3, <1>4, <1>5 DEF Next, Tick, Expire, Boot, vars, drainVars

\* However drains overlap, fail or go on past their lock, an intent is in one
\* place, so a user reads it twice only when an answer of Telegram was lost
\* (NotificationEngine.drainPending over RedisNotificationQueue).
THEOREM IntentsAreHeldOnce == Spec => []HeldOnce
<1>1. Init => DInv /\ OnePlace
  BY InitIsHeld, NothingAtFirst
<1>2. DInv /\ OnePlace /\ [Next]_vars => DInv' /\ OnePlace'
  BY StepIsHeld, StepKeepsPlaces
<1>3. DInv /\ OnePlace => HeldOnce
  BY PlacesCount DEF DInv
<1> QED BY <1>1, <1>2, <1>3, PTL DEF Spec
=============================================================================

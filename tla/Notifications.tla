--------------------------- MODULE Notifications ---------------------------
(***************************************************************************)
(* The notification job: NotificationEngine.drainPending over the shared   *)
(* RedisNotificationQueue, run by the Scheduler (Jobs) on every replica.   *)
(*                                                                         *)
(* Event handlers append intents.  A run takes a batch off the head of the *)
(* queue in one atomic script and works through it: it reads the user,     *)
(* sends, and marks the user blocked or puts the intent back.  A call that *)
(* throws ends the run, and what is left of its batch is gone, as it is    *)
(* when the replica dies.                                                  *)
(***************************************************************************)
EXTENDS Jobs, Sequences, FiniteSets

CONSTANTS MaxIntents,  \* bound: intents handlers raise
          Users, For,  \* For[i]: the user intent i is for
          Blockers,    \* users who may block the bot
          Batch,       \* DRAIN_BATCH
          MaxRetries   \* bound: sends that fail

Intents == 1..MaxIntents  \* in the order they reach the queue

ASSUME IntentAssumption ==
  MaxIntents \in Nat /\ For \in [Intents -> Users] /\ Blockers \subseteq Users
ASSUME BatchAssumption == Batch \in Nat \ {0} /\ MaxRetries \in Nat

VARIABLES queue,       \* the Redis list
          batch,       \* what each run still has to work through
          at,          \* where drainPending is
          isBlocked,   \* users.is_blocked
          raised,      \* how many intents handlers have raised
          settled,     \* sent, or dropped because the user blocked the bot
          lost,        \* gone with a call that failed or a replica that died
          deliveries,  \* messages Telegram delivered, by intent
          unsure,      \* sends that delivered and reported a failure, by intent
          retries

drainVars == <<queue, batch, at, isBlocked, raised, settled, lost, deliveries,
               unsure, retries>>
vars == <<jobVars, drainVars>>

InBatch(r) == {batch[r][n] : n \in 1..Len(batch[r])}

\* What the drain script leaves of the queue.
Trimmed(q) == IF Len(q) > Batch THEN SubSeq(q, Batch + 1, Len(q)) ELSE <<>>
Drained(q) == IF Len(q) > Batch THEN SubSeq(q, 1, Batch) ELSE q

\* Slip: a failed send is counted and forgotten.
NotAgain(q, i) == q
\* enqueue: RPUSH
Pushed(q, i) == Append(q, i)

\* Slip: a user who blocked the bot is one more failure to retry.
Retried == "requeue"
\* Slip: the outcome "blocked" has no branch of its own.
Unhandled == "blocked"
\* What follows the outcome "blocked".
OnBlocked == "block"

Init ==
  /\ JobsInit
  /\ queue = <<>>
  /\ batch = [r \in Runs |-> <<>>]
  /\ at = [r \in Runs |-> "drain"]
  /\ isBlocked = {}
  /\ raised = 0
  /\ settled = {}
  /\ lost = {}
  /\ deliveries = [i \in Intents |-> 0]
  /\ unsure = [i \in Intents |-> 0]
  /\ retries = 0

-----------------------------------------------------------------------------
(* Event handlers *)

\* A committed transaction's event reaches its handler.  A failed push is
\* logged by the dispatcher, and the intent is gone.
Enqueue(i) ==
  /\ i = raised + 1
  /\ \E p \in Replicas : replica[p] # "down"
  /\ raised' = i
  /\ \/ queue' = Pushed(queue, i) /\ UNCHANGED <<lost, jobVars>>
     \/ CallFails /\ lost' = lost \union {i} /\ UNCHANGED queue
  /\ UNCHANGED <<batch, at, isBlocked, settled, deliveries, unsure, retries>>

-----------------------------------------------------------------------------
(* drainPending *)

Working(r, where) == stage[r] = "running" /\ at[r] = where
Goto(r, where) == at' = [at EXCEPT ![r] = where]

\* The head of the batch is dealt with.
Done(r) == batch' = [batch EXCEPT ![r] = Tail(@)] /\ Goto(r, "look")

Drain(r) ==
  /\ Working(r, "drain")
  /\ batch' = [batch EXCEPT ![r] = Drained(queue)]
  /\ queue' = Trimmed(queue)
  /\ Goto(r, "look")
  /\ UNCHANGED <<jobVars, isBlocked, raised, settled, lost, deliveries, unsure, retries>>

\* The user is read; one who blocked the bot is skipped.
Look(r) ==
  /\ Working(r, "look")
  /\ batch[r] # <<>>
  /\ LET i == Head(batch[r]) IN
     IF For[i] \in isBlocked
     THEN settled' = settled \union {i} /\ Done(r)
     ELSE Goto(r, "send") /\ UNCHANGED <<settled, batch>>
  /\ UNCHANGED <<jobVars, queue, isBlocked, raised, lost, deliveries, unsure, retries>>

\* notify never throws.  "failed" covers a message that was delivered and
\* whose answer was lost.
Send(r) ==
  LET i == Head(batch[r]) IN
  /\ Working(r, "send")
  /\ \/ /\ deliveries' = [deliveries EXCEPT ![i] = @ + 1]
        /\ settled' = settled \union {i}
        /\ Done(r)
        /\ UNCHANGED <<unsure, retries>>
     \/ /\ For[i] \in Blockers
        /\ Goto(r, OnBlocked)
        /\ UNCHANGED <<batch, settled, deliveries, unsure, retries>>
     \/ /\ retries < MaxRetries
        /\ retries' = retries + 1
        /\ \/ UNCHANGED <<deliveries, unsure>>
           \/ /\ deliveries' = [deliveries EXCEPT ![i] = @ + 1]
              /\ unsure' = [unsure EXCEPT ![i] = @ + 1]
        /\ Goto(r, "requeue")
        /\ UNCHANGED <<batch, settled>>
  /\ UNCHANGED <<jobVars, queue, isBlocked, raised, lost>>

\* setBlocked: nothing in the code ever clears it.
Block(r) ==
  /\ Working(r, "block")
  /\ isBlocked' = isBlocked \union {For[Head(batch[r])]}
  /\ settled' = settled \union {Head(batch[r])}
  /\ Done(r)
  /\ UNCHANGED <<jobVars, queue, raised, lost, deliveries, unsure, retries>>

Requeue(r) ==
  /\ Working(r, "requeue")
  /\ queue' = Pushed(queue, Head(batch[r]))
  /\ Done(r)
  /\ UNCHANGED <<jobVars, isBlocked, raised, settled, lost, deliveries, unsure, retries>>

EndRun(r) ==
  /\ Working(r, "look")
  /\ batch[r] = <<>>
  /\ Finish(r) /\ UNCHANGED errors
  /\ Goto(r, "drain")
  /\ UNCHANGED <<queue, batch, isBlocked, raised, settled, lost, deliveries, unsure,
                 retries>>

\* A call of the database or of Redis throws, before or after it took effect.
Throw(r) ==
  /\ Error
  /\ Finish(r)
  /\ Goto(r, "drain")
  /\ batch' = [batch EXCEPT ![r] = <<>>]
  /\ \/ at[r] = "drain" /\ UNCHANGED <<queue, lost, isBlocked>>
     \/ /\ at[r] = "drain"
        /\ queue' = Trimmed(queue)
        /\ lost' = lost \union {Drained(queue)[n] : n \in 1..Len(Drained(queue))}
        /\ UNCHANGED isBlocked
     \/ /\ at[r] \in {"look", "block", "requeue"} /\ batch[r] # <<>>
        /\ lost' = lost \union InBatch(r)
        /\ UNCHANGED <<queue, isBlocked>>
     \/ /\ at[r] = "block"
        /\ isBlocked' = isBlocked \union {For[Head(batch[r])]}
        /\ lost' = lost \union InBatch(r)
        /\ UNCHANGED queue
     \/ /\ at[r] = "requeue"
        /\ queue' = Pushed(queue, Head(batch[r]))
        /\ lost' = lost \union (InBatch(r) \ {Head(batch[r])})
        /\ UNCHANGED isBlocked
  /\ UNCHANGED <<raised, settled, deliveries, unsure, retries>>

-----------------------------------------------------------------------------

\* What the process held in memory is gone with it.
Forget(p) ==
  /\ batch' = [r \in Runs |-> IF Home[r] = p THEN <<>> ELSE batch[r]]
  /\ at' = [r \in Runs |-> IF Home[r] = p THEN "drain" ELSE at[r]]
  /\ lost' = lost \union UNION {InBatch(r) : r \in RunsOf(p)}
  /\ UNCHANGED <<queue, isBlocked, raised, settled, deliveries, unsure, retries>>

RunStep(r) ==
  \/ Drain(r) \/ Look(r) \/ Send(r) \/ Block(r) \/ Requeue(r) \/ EndRun(r)
  \/ Release(r) /\ UNCHANGED drainVars

Tick == \E r \in Runs : Trigger(r) /\ UNCHANGED drainVars
Expire == LockExpires /\ UNCHANGED drainVars
Boot(p) == Start(p) /\ UNCHANGED drainVars
Quit(p) == Exit(p) /\ Forget(p)

Next ==
  \/ \E i \in Intents : Enqueue(i)
  \/ Tick
  \/ \E r \in Runs : RunStep(r) \/ Throw(r) \/ (TriggerFails(r) /\ UNCHANGED drainVars)
  \/ Expire
  \/ \E p \in Replicas :
       \/ Boot(p) \/ Quit(p)
       \/ Stop(p) /\ UNCHANGED drainVars
       \/ Crash(p) /\ Forget(p)

Spec == Init /\ [][Next]_vars

\* Timers tick, the event loop runs what can go on, locks run out, and the
\* platform restarts replicas.  Users and handlers owe nothing.
FairSpec ==
  /\ Spec
  /\ WF_vars(Tick) /\ WF_vars(Expire)
  /\ \A r \in Runs : WF_vars(RunStep(r))
  /\ \A p \in Replicas : WF_vars(Boot(p)) /\ WF_vars(Quit(p))

-----------------------------------------------------------------------------
(* What holds *)

\* The type of every variable of the notification job.
TypeOK ==
  /\ JobsTypeOK
  /\ queue \in Seq(Intents)
  /\ batch \in [Runs -> Seq(Intents)]
  /\ at \in [Runs -> {"drain", "look", "send", "block", "requeue"}]
  /\ isBlocked \subseteq Users
  /\ raised \in 0..MaxIntents /\ settled \subseteq Intents /\ lost \subseteq Intents
  /\ deliveries \in [Intents -> Nat] /\ unsure \in [Intents -> Nat]
  /\ retries \in Nat

Copies(i) ==
  Cardinality({n \in 1..Len(queue) : queue[n] = i})
  + Cardinality({r \in Runs : i \in InBatch(r)})
  + (IF i \in settled THEN 1 ELSE 0) + (IF i \in lost THEN 1 ELSE 0)

\* However runs overlap, fail, or go on past their lock, an intent is in one
\* place: the queue, the batch of one run, or done with.  So a user reads it
\* twice only when an answer of Telegram was lost.
HeldOnce ==
  \A i \in Intents :
    /\ Copies(i) = IF i <= raised THEN 1 ELSE 0
    /\ deliveries[i] <= unsure[i] + (IF i \in settled THEN 1 ELSE 0)

\* Deploys, slow jobs, overlaps and blocked users lose nothing: only a call
\* that fails or a replica that dies does.
StopLosesNothing == errors = 0 /\ crashes = 0 => lost = {}

\* An intent is sent, dropped or lost in the end: none is stranded in the
\* queue, none goes round for ever.
IntentsSettle == \A i \in Intents : (i <= raised) ~> (i \in settled \union lost)

\* A lock nobody will release does not wedge the job.
JobKeepsRunning == []<>(\E r \in Runs : stage[r] = "running")
=============================================================================

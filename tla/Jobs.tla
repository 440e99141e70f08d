-------------------------------- MODULE Jobs --------------------------------
(***************************************************************************)
(* One job of the Scheduler on several replicas: interval timers, the      *)
(* advisory lock of RedisCacheProvider.withLock, graceful stop, crashes.   *)
(*                                                                         *)
(* A timer tick starts a run whether or not an earlier one has ended, so a *)
(* replica may have several.  The lock has a TTL and is never renewed: a   *)
(* run may outlive it.  Time is not counted: a held lock may expire at any *)
(* moment.  A run stands for the random token of its acquisition, which    *)
(* only that run ever compares.  What a run does is the job's own          *)
(* (Notifications adds it).                                                *)
(***************************************************************************)
EXTENDS Naturals

CONSTANTS Runs, NoRun,
          Replicas, Home,  \* Home[r]: the replica run r is on
          MaxErrors,       \* bound: calls of Redis or the database that fail
          MaxExits         \* bound: crashes and stops of replicas

ASSUME RunAssumption == NoRun \notin Runs /\ Home \in [Runs -> Replicas]
ASSUME BoundAssumption == MaxErrors \in Nat /\ MaxExits \in Nat

VARIABLES lock,      \* the run whose token the key lock:job:<name> holds
          stage,     \* how far each run is
          outlived,  \* the runs whose lock expired before they released it
          replica,   \* up, stopping (timers cleared) or down
          errors, exits, crashes

jobVars == <<lock, stage, outlived, replica, errors, exits, crashes>>

RunsOf(p) == {r \in Runs : Home[r] = p}
InFlight(p) == {r \in RunsOf(p) : stage[r] # "idle"}

\* Slip: no TTL.
NeverExpires == FALSE
\* SET ... EX ttl: a held lock runs out, whoever holds it.
HasTtl == lock # NoRun

\* Slip: stop() clears the timers and does not wait.
NotAwaited(p) == TRUE
\* Promise.allSettled(inFlight)
Quiesced(p) == InFlight(p) = {}

\* Slip: the key is deleted, whoever holds it (as MemoryCacheProvider does).
DeleteLock(r) == NoRun
\* RELEASE_IF_OWNER
ReleaseIfOwner(r) == IF lock = r THEN NoRun ELSE lock

JobsInit ==
  /\ lock = NoRun
  /\ stage = [r \in Runs |-> "idle"]
  /\ outlived = {}
  /\ replica = [p \in Replicas |-> "up"]
  /\ errors = 0 /\ exits = 0 /\ crashes = 0

Error == errors < MaxErrors /\ errors' = errors + 1

\* A call made outside the scheduler.
CallFails == Error /\ UNCHANGED <<lock, stage, outlived, replica, exits, crashes>>

\* A timer ticks and SET NX finds the lock free.  A tick that finds it held
\* is skipped, which changes nothing.
Trigger(r) ==
  /\ replica[Home[r]] = "up"
  /\ stage[r] = "idle"
  /\ lock = NoRun
  /\ lock' = r
  /\ stage' = [stage EXCEPT ![r] = "running"]
  /\ UNCHANGED <<outlived, replica, errors, exits, crashes>>

\* SET NX took the lock and its reply came too late: withLock throws, and
\* the lock stays until it expires.
TriggerFails(r) ==
  /\ replica[Home[r]] = "up"
  /\ stage[r] = "idle"
  /\ lock = NoRun
  /\ Error
  /\ lock' = r
  /\ UNCHANGED <<stage, outlived, replica, exits, crashes>>

LockExpires ==
  /\ HasTtl
  /\ lock' = NoRun
  /\ outlived' = IF stage[lock] = "idle" THEN outlived ELSE outlived \union {lock}
  /\ UNCHANGED <<stage, replica, errors, exits, crashes>>

\* The job's run() returned or threw: withLock's finally is next.
Finish(r) ==
  /\ stage[r] = "running"
  /\ stage' = [stage EXCEPT ![r] = "leaving"]
  /\ UNCHANGED <<lock, outlived, replica, exits, crashes>>

\* The release reaches Redis, or fails and leaves the lock to expire;
\* runGuarded swallows either.
Release(r) ==
  /\ stage[r] = "leaving"
  /\ stage' = [stage EXCEPT ![r] = "idle"]
  /\ outlived' = outlived \ {r}
  /\ \/ lock' = ReleaseIfOwner(r) /\ UNCHANGED errors
     \/ Error /\ UNCHANGED lock
  /\ UNCHANGED <<replica, exits, crashes>>

\* Scheduler.stop clears the timers; runs in flight go on.
Stop(p) ==
  /\ replica[p] = "up"
  /\ exits < MaxExits
  /\ exits' = exits + 1
  /\ replica' = [replica EXCEPT ![p] = "stopping"]
  /\ UNCHANGED <<lock, stage, outlived, errors, crashes>>

\* The process is gone, and its runs with it.
Down(p) ==
  /\ replica' = [replica EXCEPT ![p] = "down"]
  /\ stage' = [r \in Runs |-> IF Home[r] = p THEN "idle" ELSE stage[r]]
  /\ outlived' = outlived \ RunsOf(p)
  /\ UNCHANGED <<lock, errors>>

\* The end of a graceful stop: database and Redis are closed, the process exits.
Exit(p) ==
  /\ replica[p] = "stopping"
  /\ Quiesced(p)
  /\ Down(p)
  /\ UNCHANGED <<exits, crashes>>

\* A kill, or SHUTDOWN_TIMEOUT_MS forcing the exit of a stop that takes too long.
Crash(p) ==
  /\ replica[p] # "down"
  /\ exits < MaxExits
  /\ exits' = exits + 1
  /\ crashes' = crashes + 1
  /\ Down(p)

\* The platform starts the replica again; start() arms the timers.
Start(p) ==
  /\ replica[p] = "down"
  /\ replica' = [replica EXCEPT ![p] = "up"]
  /\ UNCHANGED <<lock, stage, outlived, errors, exits, crashes>>

JobsNext ==
  \/ \E r \in Runs :
       \/ Trigger(r) \/ TriggerFails(r) \/ Release(r)
       \/ Finish(r) /\ (UNCHANGED errors \/ Error)
  \/ \E p \in Replicas : Stop(p) \/ Exit(p) \/ Crash(p) \/ Start(p)
  \/ LockExpires \/ CallFails

JobsSpec == JobsInit /\ [][JobsNext]_jobVars

-----------------------------------------------------------------------------

\* The type of every variable of the scheduler and its lock.
JobsTypeOK ==
  /\ lock \in Runs \union {NoRun}
  /\ stage \in [Runs -> {"idle", "running", "leaving"}]
  /\ outlived \subseteq Runs
  /\ replica \in [Replicas -> {"up", "stopping", "down"}]
  /\ errors \in Nat /\ exits \in Nat /\ crashes \in Nat

\* Two runs of a job overlap only when one of them outlived its lock: a run
\* that ends, or a replica that dies, never takes the lock of another away.
OverlapIsLate ==
  \A q, r \in Runs :
    q # r /\ stage[q] # "idle" /\ stage[r] # "idle" => q \in outlived \/ r \in outlived
=============================================================================

--------------------------- MODULE Subscriptions ---------------------------
(***************************************************************************)
(* SubscriptionService: paid subscriptions, their renewal, and the sweep   *)
(* that expires them.                                                      *)
(*                                                                         *)
(* subscribe has the two transactions of a purchase (see Payments), but    *)
(* its second one reads the subscription it renews before it writes it,    *)
(* at READ COMMITTED: between the two, other calls and sweeps commit.      *)
(* expireLapsed lists lapsed rows, updates them one by one (holding their  *)
(* locks) and commits.  Access is a live check of the active row.          *)
(*                                                                         *)
(* A subscription row goes by the idempotency key whose call created it; a *)
(* member is a user as one creator sees him.  Dispatch of events after     *)
(* commit and the batches of the payment sweep are modelled in Payments.   *)
(***************************************************************************)
EXTENDS Naturals, FiniteSets

CONSTANTS Requests,      \* calls of subscribe; each runs once
          Keys, NoKey,   \* idempotency keys
          Members,       \* (user, creator) pairs
          Owner,         \* Owner[k]: the member key k belongs to
          Plans, NoPlan, \* plans calls name
          ActivePlans,   \* those that are active
          Duration,      \* duration_days of each plan, in ticks
          Sweeps,        \* replicas running the expiration job
          BatchSize,     \* rows a sweep lists
          MaxTime,       \* bound: the clock stops here
          MaxFailures    \* bound: how many times a sweep may die

ASSUME KeysAssumption == IsFiniteSet(Keys) /\ NoKey \notin Keys
ASSUME OwnerAssumption == Owner \in [Keys -> Members]
ASSUME PlanAssumption ==
  /\ ActivePlans \subseteq Plans /\ NoPlan \notin Plans
  /\ Duration \in [Plans -> Nat \ {0}]
ASSUME NumberAssumption ==
  BatchSize \in Nat \ {0} /\ MaxTime \in Nat /\ MaxFailures \in Nat

VARIABLES
  now,
  payment,   \* payments.status by key, "none" when there is no row
  forPlan,   \* plan_id of the purchase, and of the subscription, of the key
  charged,   \* the keys whose money the provider took
  sub,       \* subscriptions rows: status, "none" when there is no row, and expires_at
  applied,   \* the row each paid key created or renewed
  expiries,  \* subscription.expired audit rows, counted
  call,      \* what each call asks for
  pc,        \* how far it has come
  seen,      \* what TX2 read: the row to renew, and the expiry it computed
  result,    \* what it returned
  phase,     \* how far each sweep has come
  todo,      \* listed rows not visited yet
  marked,    \* rows it has updated: locked, uncommitted
  failures   \* times a sweep died

money     == <<payment, forPlan, charged>>
subRows   == <<sub, applied, expiries>>
callVars  == <<call, pc, seen, result>>
sweepVars == <<phase, todo, marked, failures>>
vars == <<now, money, subRows, callVars, sweepVars>>

Member(r) == Owner[call[r].key]
Created == {k \in Keys : payment[k] # "none"}
\* The active rows of member m.
Active(m) == {k \in Keys : Owner[k] = m /\ sub[k].status = "active"}
\* Slip: the listing takes row locks on a connection of its own.
ListedToo == UNION {marked[s] \union todo[s] : s \in Sweeps}
\* Rows a sweep has updated and not committed: another writer waits.
Locked == UNION {marked[s] : s \in Sweeps}

\* The unique index on payments.idempotency_key rejects the insert.
KeyTaken(r) == call[r].key \in Created

\* Slip: the index is on (user, plan).
PlanTaken(r) == \E i \in Active(Member(r)) : forPlan[i] = call[r].plan
\* The unique index on active (user, creator) rows rejects the insert.
MemberTaken(r) == Active(Member(r)) # {}

\* Slip: TX2 renews what it finds, as it did before M7.3.1.
AnyPlan(r, i) == TRUE
\* The active row TX2 finds is of the plan that was paid.
SamePlan(r, i) == forPlan[i] = call[r].plan

\* Slip: the period is added twice.
PaidTwice(r, base) == base + 2 * Duration[call[r].plan]
\* addDays
AddDays(r, base) == base + Duration[call[r].plan]

\* markSucceeded: no guard on the status the payment has.
Succeeded(k) == [payment EXCEPT ![k] = "succeeded"]

\* Slip: renew finds its row by id alone.
AnyRow(i) == TRUE
\* renew's WHERE: the row must still be active.
StillActive(i) == sub[i].status = "active"

\* markExpired's WHERE.  Nothing in it looks at expires_at.
Expirable(i) == sub[i].status = "active"

Init ==
  /\ now = 0
  /\ payment = [k \in Keys |-> "none"]
  /\ forPlan = [k \in Keys |-> NoPlan]
  /\ charged = {}
  /\ sub = [k \in Keys |-> [status |-> "none", expires |-> 0]]
  /\ applied = [k \in Keys |-> NoKey]
  /\ expiries = [k \in Keys |-> 0]
  /\ call \in [Requests -> [key : Keys, plan : Plans]]
  /\ pc = [r \in Requests |-> "lookup"]
  /\ seen = [r \in Requests |-> [row |-> NoKey, until |-> 0]]
  /\ result = [r \in Requests |-> "none"]
  /\ phase = [s \in Sweeps |-> "idle"]
  /\ todo = [s \in Sweeps |-> {}]
  /\ marked = [s \in Sweeps |-> {}]
  /\ failures = 0

-----------------------------------------------------------------------------
(* subscribe: TX1 *)

Nothing == [row |-> NoKey, until |-> 0]

Goto(r, where) == pc' = [pc EXCEPT ![r] = where] /\ UNCHANGED <<call, seen, result>>

Return(r, answer) ==
  /\ pc' = [pc EXCEPT ![r] = "done"]
  /\ seen' = [seen EXCEPT ![r] = Nothing]
  /\ result' = [result EXCEPT ![r] = answer]
  /\ UNCHANGED call

\* The plan must be active; then resolveReplay, as for a drop.
Lookup(r) ==
  LET k == call[r].key
      p == call[r].plan
  IN
  /\ pc[r] = "lookup"
  /\ \/ p \notin ActivePlans /\ Return(r, "refused")
     \/ p \in ActivePlans /\ k \notin Created /\ Goto(r, "check")
     \/ p \in ActivePlans /\ k \in Created /\ forPlan[k] # p /\ Return(r, "conflict")
     \/ /\ p \in ActivePlans /\ k \in Created /\ forPlan[k] = p
        /\ \/ payment[k] = "succeeded" /\ Goto(r, "replay")
           \/ payment[k] = "failed" /\ Return(r, "payment_failed")
           \/ payment[k] = "pending" /\ Return(r, "conflict")
  /\ UNCHANGED <<now, money, subRows, sweepVars>>

\* replayedOutcome answers with whatever row is active now.
ReplayCompleted(r) ==
  /\ pc[r] = "replay"
  /\ Return(r, IF Active(Member(r)) # {} THEN "subscribed" ELSE "conflict")
  /\ UNCHANGED <<now, money, subRows, sweepVars>>

\* Another plan of the creator being active ends it.
Check(r) ==
  /\ pc[r] = "check"
  /\ IF \E i \in Active(Member(r)) : forPlan[i] # call[r].plan
     THEN Return(r, "conflict")
     ELSE Goto(r, "insert")
  /\ UNCHANGED <<now, money, subRows, sweepVars>>

\* beginAttempt and the commit of TX1.
Insert(r) ==
  LET k == call[r].key IN
  /\ pc[r] = "insert"
  /\ \/ /\ ~KeyTaken(r)
        /\ payment' = [payment EXCEPT ![k] = "pending"]
        /\ forPlan' = [forPlan EXCEPT ![k] = call[r].plan]
        /\ UNCHANGED charged
        /\ Goto(r, "provider")
     \/ KeyTaken(r) /\ Return(r, "error") /\ UNCHANGED money
  /\ UNCHANGED <<now, subRows, sweepVars>>

-----------------------------------------------------------------------------
(* subscribe: the provider and TX2 *)

Charge(r) ==
  /\ pc[r] = "provider"
  /\ charged' = charged \union {call[r].key}
  /\ Goto(r, "charged")
  /\ UNCHANGED <<now, payment, forPlan, subRows, sweepVars>>

Decline(r) ==
  /\ pc[r] = "provider"
  /\ Goto(r, "declined")
  /\ UNCHANGED <<now, money, subRows, sweepVars>>

FinalizeFailure(r) ==
  /\ pc[r] = "declined"
  /\ payment' = [payment EXCEPT ![call[r].key] = "failed"]
  /\ Return(r, "payment_failed")
  /\ UNCHANGED <<now, forPlan, charged, subRows, sweepVars>>

\* TX2 updates the payment, which it keeps locked, and reads the active row.
\* One of another plan rolls TX2 back (ActiveSubscriptionConflict).
ReadActive(r) ==
  /\ pc[r] = "charged"
  /\ \/ /\ Active(Member(r)) = {}
        /\ seen' = [seen EXCEPT ![r] = [row |-> NoKey, until |-> AddDays(r, now)]]
        /\ pc' = [pc EXCEPT ![r] = "creating"]
        /\ UNCHANGED <<call, result>>
     \/ \E i \in Active(Member(r)) :
          IF SamePlan(r, i)
          THEN /\ LET base == IF sub[i].expires > now THEN sub[i].expires ELSE now IN
                  seen' = [seen EXCEPT ![r] = [row |-> i, until |-> AddDays(r, base)]]
               /\ pc' = [pc EXCEPT ![r] = "renewing"]
               /\ UNCHANGED <<call, result>>
          ELSE Return(r, "lost_race")
  /\ UNCHANGED <<now, money, subRows, sweepVars>>

\* TX2 commits: the payment succeeds, and row i takes the expiry computed before.
Commit(r, i, status) ==
  LET k == call[r].key IN
  /\ payment' = Succeeded(k)
  /\ sub' = [sub EXCEPT ![i] = [status |-> status, expires |-> seen[r].until]]
  /\ applied' = [applied EXCEPT ![k] = i]
  /\ Return(r, "subscribed")
  /\ UNCHANGED <<now, forPlan, charged, expiries, sweepVars>>

RollBack(r, answer) ==
  Return(r, answer) /\ UNCHANGED <<now, money, subRows, sweepVars>>

\* The insert waits for a sweep that is expiring the member's row; a violation
\* of the unique index (23505) becomes a conflict.
Create(r) ==
  /\ pc[r] = "creating"
  /\ Active(Member(r)) \intersect Locked = {}
  /\ \/ ~MemberTaken(r) /\ Commit(r, call[r].key, "active")
     \/ MemberTaken(r) /\ RollBack(r, "lost_race")

\* The update waits for a sweep that holds the row; finding it no longer
\* active it returns no row, which throws.
Renew(r) ==
  LET i == seen[r].row IN
  /\ pc[r] = "renewing"
  /\ i \notin Locked
  /\ \/ StillActive(i) /\ Commit(r, i, sub[i].status)
     \/ ~StillActive(i) /\ RollBack(r, "error")

\* The call throws or its process dies.
Crash(r) == pc[r] # "done" /\ RollBack(r, "error")

\* failStalePending, one row at a time (Payments has its steps): it waits for
\* a TX2 that holds the payment.
FailStale(k) ==
  /\ payment[k] = "pending"
  /\ \A r \in Requests : call[r].key = k => pc[r] \notin {"creating", "renewing"}
  /\ payment' = [payment EXCEPT ![k] = "failed"]
  /\ UNCHANGED <<now, forPlan, charged, subRows, callVars, sweepVars>>

-----------------------------------------------------------------------------
(* expireLapsed *)

Lapsed == {k \in Keys : sub[k].status = "active" /\ sub[k].expires <= now}

\* listLapsed: those that expired first, as many as the limit allows.
ExpireList(s) ==
  /\ phase[s] = "idle"
  /\ \E S \in SUBSET Lapsed :
       /\ S # {} /\ Cardinality(S) <= BatchSize
       /\ S = Lapsed \/ Cardinality(S) = BatchSize
       /\ \A i \in S, j \in Lapsed \ S : sub[i].expires <= sub[j].expires
       /\ todo' = [todo EXCEPT ![s] = S]
  /\ phase' = [phase EXCEPT ![s] = "marking"]
  /\ UNCHANGED <<marked, failures>>
  /\ UNCHANGED <<now, money, subRows, callVars>>

\* markExpired: waits for a lock, then skips a row that is no longer active.
\* Two sweeps may visit shared rows in different orders: ties are arbitrary,
\* and a renewal between their listings moves a row.
ExpireMark(s) ==
  /\ phase[s] = "marking"
  /\ \E i \in todo[s] \ Locked :
       /\ todo' = [todo EXCEPT ![s] = @ \ {i}]
       /\ marked' = [marked EXCEPT ![s] = IF Expirable(i) THEN @ \union {i} ELSE @]
  /\ UNCHANGED <<phase, failures>>
  /\ UNCHANGED <<now, money, subRows, callVars>>

ExpireCommit(s) ==
  /\ phase[s] = "marking" /\ todo[s] = {}
  /\ sub' = [k \in Keys |->
               IF k \in marked[s] THEN [sub[k] EXCEPT !.status = "expired"] ELSE sub[k]]
  /\ expiries' = [k \in Keys |->
                    IF k \in marked[s] THEN expiries[k] + 1 ELSE expiries[k]]
  /\ phase' = [phase EXCEPT ![s] = "idle"]
  /\ marked' = [marked EXCEPT ![s] = {}]
  /\ UNCHANGED <<todo, failures>>
  /\ UNCHANGED <<now, money, applied, callVars>>

\* Every row s still wants is held by a sweep that only wants rows of s.
Deadlocked(s) ==
  \E t \in Sweeps : /\ todo[s] # {} /\ todo[s] \subseteq marked[t]
                    /\ todo[t] # {} /\ todo[t] \subseteq marked[s]

\* A sweep dies, or the database ends it to break a deadlock: it rolls back.
ExpireAbort(s) ==
  /\ phase[s] = "marking"
  /\ \/ Deadlocked(s) /\ UNCHANGED failures
     \/ failures < MaxFailures /\ failures' = failures + 1
  /\ phase' = [phase EXCEPT ![s] = "idle"]
  /\ todo' = [todo EXCEPT ![s] = {}]
  /\ marked' = [marked EXCEPT ![s] = {}]
  /\ UNCHANGED <<now, money, subRows, callVars>>

Tick ==
  /\ now < MaxTime
  /\ now' = now + 1
  /\ UNCHANGED <<money, subRows, callVars, sweepVars>>

-----------------------------------------------------------------------------

CallStep(r) ==
  \/ Lookup(r) \/ ReplayCompleted(r) \/ Check(r) \/ Insert(r)
  \/ Charge(r) \/ Decline(r) \/ FinalizeFailure(r)
  \/ ReadActive(r) \/ Create(r) \/ Renew(r)

SweepStep(s) == ExpireList(s) \/ ExpireMark(s) \/ ExpireCommit(s) \/ ExpireAbort(s)

Next ==
  \/ \E r \in Requests : CallStep(r) \/ Crash(r)
  \/ \E k \in Keys : FailStale(k)
  \/ \E s \in Sweeps : SweepStep(s)
  \/ Tick

Spec == Init /\ [][Next]_vars

\* The event loop keeps running a call that can go on, the scheduler's interval
\* keeps starting sweeps, and time passes.  A sweep that holds a row while it
\* waits for another stands in the database's lock queue: it gets the row when
\* the holder rolls back, before the holder can come again.
FairSpec ==
  /\ Spec
  /\ WF_vars(Tick)
  /\ \A r \in Requests : WF_vars(CallStep(r))
  /\ \A s \in Sweeps :
       WF_vars(SweepStep(s)) /\ SF_vars(marked[s] # {} /\ ExpireMark(s))

-----------------------------------------------------------------------------
(* What holds *)

Places == {"lookup", "replay", "check", "insert", "provider", "charged", "declined",
           "creating", "renewing", "done"}
Answers == {"none", "subscribed", "payment_failed", "conflict", "lost_race", "refused",
            "error"}

\* The type of every variable: the rows of subscription.service.ts and where
\* its calls and sweeps may be.
TypeOK ==
  /\ now \in Nat
  /\ payment \in [Keys -> {"none", "pending", "succeeded", "failed"}]
  /\ forPlan \in [Keys -> Plans \union {NoPlan}]
  /\ charged \subseteq Keys
  /\ sub \in [Keys -> [status : {"none", "active", "expired"}, expires : Nat]]
  /\ applied \in [Keys -> Keys \union {NoKey}]
  /\ expiries \in [Keys -> Nat]
  /\ call \in [Requests -> [key : Keys, plan : Plans]]
  /\ pc \in [Requests -> Places]
  /\ seen \in [Requests -> [row : Keys \union {NoKey}, until : Nat]]
  /\ result \in [Requests -> Answers]
  /\ phase \in [Sweeps -> {"idle", "marking"}]
  /\ todo \in [Sweeps -> SUBSET Keys]
  /\ marked \in [Sweeps -> SUBSET Keys]
  /\ failures \in Nat

\* Racing subscribes, renewals and sweeps leave a member at most one active
\* subscription with a creator (the reads of TX2 and the unique index).
OneActivePerMember ==
  /\ TypeOK
  /\ \A i, j \in Keys :
       sub[i].status = "active" /\ sub[j].status = "active" /\ Owner[i] = Owner[j] => i = j

\* A payment succeeds exactly when it has created or renewed a subscription of
\* its member and of the plan it paid for, and only with its money taken: the
\* wrong plan is never extended, whatever came between the two transactions.
\* "Subscribed" is never answered for any other payment.
PaidIsApplied ==
  /\ \A r \in Requests : result[r] = "subscribed" => payment[call[r].key] = "succeeded"
  /\ \A k \in Keys :
       /\ payment[k] = "succeeded" <=> applied[k] # NoKey
       /\ applied[k] # NoKey =>
            LET i == applied[k] IN
            /\ k \in charged
            /\ sub[i].status # "none"
            /\ Owner[i] = Owner[k] /\ forPlan[i] = forPlan[k]

\* What is left of a subscription never exceeds the periods that were paid for
\* it: no replay or retry adds a period of its own.
NoFreeTime ==
  \A i \in Keys :
    sub[i].status # "none" =>
      sub[i].expires <= now + Cardinality({k \in Keys : applied[k] = i}) * Duration[forPlan[i]]

\* A renewal that was waiting for a sweep never brings an expired row back, and
\* no other sweep, however they overlap, die and start again, expires and
\* audits it a second time.
ExpiredIsFinal ==
  [][\A k \in Keys : sub[k].status = "expired" =>
       sub'[k] = sub[k] /\ expiries'[k] = expiries[k]]_vars

\* A lapsed subscription is expired or renewed, in spite of dying and
\* deadlocked sweeps.
LapsedIsSwept == \A k \in Keys : (k \in Lapsed) ~> (k \notin Lapsed)

-----------------------------------------------------------------------------
(* What the repository says and the code does not keep *)

\* "Renewal extends from the later of now/current expiry [and] never
\* shortchanges the user" (subscription.service.ts).  Two renewals that read
\* the same expiry write the same new one: the second period is paid for and lost.
RenewalExtends ==
  [][\A k \in Keys :
       payment[k] # "succeeded" /\ payment'[k] = "succeeded" /\ applied'[k] # k =>
         sub'[applied'[k]].expires >= sub[applied'[k]].expires + Duration[forPlan[k]]]_vars
=============================================================================

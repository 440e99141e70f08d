------------------------------ MODULE Payments ------------------------------
(***************************************************************************)
(* PurchaseService: the payment state machine of a paid drop, with the     *)
(* stale-pending sweep and the events dispatched after commit.             *)
(*                                                                         *)
(* A call of purchaseDrop is a process of its own (webhook updates are     *)
(* served concurrently, by several replicas): TX1 validates and inserts a  *)
(* pending payment and purchase, the provider runs outside any             *)
(* transaction, TX2 finalizes, then the events of TX2 are dispatched.      *)
(* Sweeps (failStalePending) run beside the calls and may overlap.  Both   *)
(* may die at any point.                                                   *)
(*                                                                         *)
(* The database runs at READ COMMITTED.  A transaction that decides on     *)
(* what it read is split into its reads and its commit; one that only      *)
(* writes is one step, taken when none of its rows is locked.  A sweep     *)
(* locks the payments it updates one by one and holds them until its       *)
(* commit.  Idempotency keys name the payments: idempotency_key is unique. *)
(***************************************************************************)
EXTENDS Naturals, FiniteSets

CONSTANTS Requests,    \* calls of purchaseDrop; each runs once
          Keys,        \* idempotency keys
          Users, Owner,  \* Owner[k]: the user whose client generated key k
          Drops,       \* the drops calls ask for
          PaidDrops,   \* the published pay_per_unlock ones of active creators
          NoDrop,
          Sweeps,      \* sweepers: replicas running the cleanup job
          PendingTtl,  \* PENDING_PAYMENT_TTL_MINUTES, in ticks
          BatchSize,   \* rows a sweep lists
          MaxFailures  \* bound: how many times a sweep may die

ASSUME KeysAssumption == IsFiniteSet(Keys)
ASSUME OwnerAssumption == Owner \in [Keys -> Users]
ASSUME DropAssumption == PaidDrops \subseteq Drops /\ NoDrop \notin Drops
ASSUME NumberAssumption ==
  PendingTtl \in Nat /\ BatchSize \in Nat \ {0} /\ MaxFailures \in Nat

VARIABLES
  \* payments and purchases rows, by idempotency key
  payment,    \* payments.status, "none" when there is no row
  purchase,   \* purchases.status
  forDrop,    \* purchases.drop_id
  age,        \* ticks since created_at; saturates just above the TTL
  rank,       \* position in the order of created_at
  grants,     \* live access_grants
  audit,      \* committed audit rows, counted
  \* outside the database
  charges,    \* times the provider took the money of a key
  notices,    \* events handed to the handlers, counted
  \* the calls
  call,       \* what each call asks for
  pc,         \* how far it has come
  result,     \* what it returned
  \* the sweeps
  phase,      \* how far each sweep has come
  todo,       \* listed rows not visited yet
  marked,     \* rows it has updated: locked, uncommitted
  failures    \* times a sweep died

rows      == <<payment, purchase, forDrop, age, rank>>
callVars  == <<call, pc, result>>
sweepVars == <<phase, todo, marked, failures>>
vars == <<rows, grants, audit, charges, notices, callVars, sweepVars>>

AuditActions == {"succeeded", "failed_by_user", "failed_by_job"}
EventTypes   == {"PurchaseCompleted", "PaymentFailed"}

User(r) == Owner[call[r].key]
Created == {k \in Keys : payment[k] # "none"}

\* findLiveGrant: the access predicate of a pay_per_unlock drop.
Owns(u, d) == \E g \in grants : g.user = u /\ g.drop = d

\* Slip: the index on idempotency_key is not unique.
KeyNotUnique(r) == FALSE
\* The unique index on payments.idempotency_key rejects the insert.
KeyTaken(r) == call[r].key \in Created

\* Slip: the index on live grants is not unique, a second grant goes in.
GrantNotUnique(r) == FALSE
\* The unique index on live (user, drop) grants rejects the insert.
GrantTaken(r) == Owns(User(r), call[r].drop)

\* Slip: TX2 completes the purchase and forgets the grant.
NoGrant(r) == {}
\* The grant TX2 inserts.
NewGrant(r) ==
  {[user |-> User(r), drop |-> call[r].drop, key |-> call[r].key]}

\* Slip: markFailed is used where markFailedIfPending is meant.
AnyStatus(k) == TRUE
\* The status guard of markFailedIfPending.
StillPending(k) == payment[k] = "pending"

\* Slip: the listing takes row locks on a connection of its own.
ListedToo == UNION {marked[s] \union todo[s] : s \in Sweeps}
\* Rows a sweep has updated and not committed: another writer waits.
Locked == UNION {marked[s] : s \in Sweeps}

Init ==
  /\ payment = [k \in Keys |-> "none"]
  /\ purchase = [k \in Keys |-> "none"]
  /\ forDrop = [k \in Keys |-> NoDrop]
  /\ age = [k \in Keys |-> 0]
  /\ rank = [k \in Keys |-> 0]
  /\ grants = {}
  /\ audit = [k \in Keys |-> [a \in AuditActions |-> 0]]
  /\ charges = [k \in Keys |-> 0]
  /\ notices = [k \in Keys |-> [e \in EventTypes |-> 0]]
  /\ call \in [Requests -> [key : Keys, drop : Drops]]
  /\ pc = [r \in Requests |-> "lookup"]
  /\ result = [r \in Requests |-> "none"]
  /\ phase = [s \in Sweeps |-> "idle"]
  /\ todo = [s \in Sweeps |-> {}]
  /\ marked = [s \in Sweeps |-> {}]
  /\ failures = 0

-----------------------------------------------------------------------------
(* Writes the calls and the sweeps share *)

Goto(r, where) == pc' = [pc EXCEPT ![r] = where] /\ UNCHANGED <<call, result>>

Return(r, answer) ==
  /\ pc' = [pc EXCEPT ![r] = "done"]
  /\ result' = [result EXCEPT ![r] = answer]
  /\ UNCHANGED call

\* Slip: the audit row is written after the transaction, and not at all here.
Unrecorded(S, action) == UNCHANGED audit
Record(S, action) ==
  audit' = [k \in Keys |->
              IF k \in S THEN [audit[k] EXCEPT ![action] = @ + 1] ELSE audit[k]]

Emit(S, event) ==
  notices' = [k \in Keys |->
                IF k \in S THEN [notices[k] EXCEPT ![event] = @ + 1] ELSE notices[k]]

\* Slip: the status strings of payments are used for purchases.
WrongEnum(S) ==
  /\ payment' = [k \in Keys |-> IF k \in S THEN "failed" ELSE payment[k]]
  /\ purchase' = [k \in Keys |-> IF k \in S THEN "succeeded" ELSE purchase[k]]
  /\ UNCHANGED <<forDrop, age, rank>>
\* Slip: the purchase is left as it was.
PaymentOnly(S) ==
  /\ payment' = [k \in Keys |-> IF k \in S THEN "failed" ELSE payment[k]]
  /\ UNCHANGED <<purchase, forDrop, age, rank>>
\* Payment and purchase fail together, in one transaction.
FailPairs(S) ==
  /\ payment' = [k \in Keys |-> IF k \in S THEN "failed" ELSE payment[k]]
  /\ purchase' = [k \in Keys |-> IF k \in S THEN "failed" ELSE purchase[k]]
  /\ UNCHANGED <<forDrop, age, rank>>

-----------------------------------------------------------------------------
(* purchaseDrop: TX1 *)

\* resolveReplay.  A key that has a row answers with that attempt's outcome,
\* unless the row belongs to another drop.
Lookup(r) ==
  LET k == call[r].key IN
  /\ pc[r] = "lookup"
  /\ \/ k \notin Created /\ Goto(r, "check")
     \/ k \in Created /\ forDrop[k] # call[r].drop /\ Return(r, "conflict")
     \/ /\ k \in Created /\ forDrop[k] = call[r].drop
        /\ \/ payment[k] = "succeeded" /\ Goto(r, "replay")
           \/ payment[k] = "failed" /\ Return(r, "payment_failed")
           \/ payment[k] = "pending" /\ Return(r, "conflict")
  /\ UNCHANGED <<rows, grants, audit, charges, notices, sweepVars>>

\* replayedDropOutcome reads the grant in a transaction of its own.
ReplayCompleted(r) ==
  /\ pc[r] = "replay"
  /\ Return(r, IF Owns(User(r), call[r].drop) THEN "unlocked" ELSE "no_grant")
  /\ UNCHANGED <<rows, grants, audit, charges, notices, sweepVars>>

\* canAccess and the validations: a drop already unlocked ends it, and so does
\* one that is unknown, unpublished, free or for subscribers only ("refused").
Check(r) ==
  /\ pc[r] = "check"
  /\ \/ call[r].drop \notin PaidDrops /\ Return(r, "refused")
     \/ /\ call[r].drop \in PaidDrops /\ Owns(User(r), call[r].drop)
        /\ Return(r, "already_owned")
     \/ /\ call[r].drop \in PaidDrops /\ ~Owns(User(r), call[r].drop)
        /\ Goto(r, "insert")
  /\ UNCHANGED <<rows, grants, audit, charges, notices, sweepVars>>

\* beginAttempt and the commit of TX1.  The unique idempotency_key makes the
\* insert of a key that got a row since the lookup throw.
Insert(r) ==
  LET k == call[r].key IN
  /\ pc[r] = "insert"
  /\ \/ /\ ~KeyTaken(r)
        /\ payment' = [payment EXCEPT ![k] = "pending"]
        /\ purchase' = [purchase EXCEPT ![k] = "pending"]
        /\ forDrop' = [forDrop EXCEPT ![k] = call[r].drop]
        /\ rank' = [rank EXCEPT ![k] = Cardinality(Created)]
        /\ UNCHANGED age
        /\ Goto(r, "provider")
     \/ KeyTaken(r) /\ Return(r, "error") /\ UNCHANGED rows
  /\ UNCHANGED <<grants, audit, charges, notices, sweepVars>>

-----------------------------------------------------------------------------
(* purchaseDrop: the provider and TX2 *)

\* confirm() took the money.
Charge(r) ==
  /\ pc[r] = "provider"
  /\ charges' = [charges EXCEPT ![call[r].key] = @ + 1]
  /\ Goto(r, "charged")
  /\ UNCHANGED <<rows, grants, audit, notices, sweepVars>>

\* Approval refused or confirm() declined: no money moved.
Decline(r) ==
  /\ pc[r] = "provider"
  /\ Goto(r, "declined")
  /\ UNCHANGED <<rows, grants, audit, charges, notices, sweepVars>>

\* TX2, success: finalizeSuccess, the grant and its audit.  Neither update
\* looks at the current status.  When the buyer owns the drop already, the
\* unique index on live grants rejects the insert and all of TX2 rolls back.
Finalize(r) ==
  LET k == call[r].key IN
  /\ pc[r] = "charged"
  /\ k \notin Locked
  /\ \/ /\ ~GrantTaken(r)
        /\ payment' = [payment EXCEPT ![k] = "succeeded"]
        /\ purchase' = [purchase EXCEPT ![k] = "completed"]
        /\ grants' = grants \union NewGrant(r)
        /\ Record({k}, "succeeded")
        /\ Goto(r, "unlocked")
        /\ UNCHANGED <<forDrop, age, rank>>
     \/ /\ GrantTaken(r)
        /\ Return(r, "error")
        /\ UNCHANGED <<rows, grants, audit>>
  /\ UNCHANGED <<charges, notices, sweepVars>>

\* TX2, failure: finalizeFailure.
FinalizeFailure(r) ==
  LET k == call[r].key IN
  /\ pc[r] = "declined"
  /\ k \notin Locked
  /\ FailPairs({k})
  /\ Record({k}, "failed_by_user")
  /\ Goto(r, "failed")
  /\ UNCHANGED <<grants, charges, notices, sweepVars>>

\* After the commit of TX2: its event goes to the handlers, the call returns.
Dispatch(r) ==
  LET k == call[r].key IN
  /\ \/ pc[r] = "unlocked" /\ Emit({k}, "PurchaseCompleted") /\ Return(r, "unlocked")
     \/ pc[r] = "failed" /\ Emit({k}, "PaymentFailed") /\ Return(r, "payment_failed")
  /\ UNCHANGED <<rows, grants, audit, charges, sweepVars>>

\* The call throws or its process dies: an open transaction rolls back and
\* events not dispatched yet are lost.
Crash(r) ==
  /\ pc[r] # "done"
  /\ Return(r, "error")
  /\ UNCHANGED <<rows, grants, audit, charges, notices, sweepVars>>

-----------------------------------------------------------------------------
(* failStalePending *)

\* Time passes for the rows a sweep may still have to fail.
Tick ==
  LET young == {k \in Keys : payment[k] = "pending" /\ age[k] <= PendingTtl} IN
  /\ young # {}
  /\ age' = [k \in Keys |-> IF k \in young THEN age[k] + 1 ELSE age[k]]
  /\ UNCHANGED <<payment, purchase, forDrop, rank>>
  /\ UNCHANGED <<grants, audit, charges, notices, callVars, sweepVars>>

Stale == {k \in Keys : payment[k] = "pending" /\ age[k] > PendingTtl}

\* Slip: the limit is off by one.
OldestButOne(S, n) == {k \in S : Cardinality({j \in S : rank[j] <= rank[k]}) < n}
\* ORDER BY created_at LIMIT n
Oldest(S, n) == {k \in S : Cardinality({j \in S : rank[j] < rank[k]}) < n}

SweepList(s) ==
  /\ phase[s] = "idle"
  /\ Stale # {}
  /\ phase' = [phase EXCEPT ![s] = "marking"]
  /\ todo' = [todo EXCEPT ![s] = Oldest(Stale, BatchSize)]
  /\ UNCHANGED <<marked, failures>>
  /\ UNCHANGED <<rows, grants, audit, charges, notices, callVars>>

\* Slip: the listing has no ORDER BY, rows come in any order.
AnyRow(s) == todo[s]
\* The row a sweep updates next.
NextRow(s) == Oldest(todo[s], 1)

\* markFailedIfPending: waits for a lock, then skips a row that is resolved.
SweepMark(s) ==
  /\ phase[s] = "marking"
  /\ \E k \in NextRow(s) :
       /\ k \notin Locked
       /\ todo' = [todo EXCEPT ![s] = @ \ {k}]
       /\ marked' = [marked EXCEPT
                       ![s] = IF StillPending(k) THEN @ \union {k} ELSE @]
  /\ UNCHANGED <<phase, failures>>
  /\ UNCHANGED <<rows, grants, audit, charges, notices, callVars>>

SweepCommit(s) ==
  /\ phase[s] = "marking"
  /\ todo[s] = {}
  /\ FailPairs(marked[s])
  /\ Record(marked[s], "failed_by_job")
  /\ phase' = [phase EXCEPT ![s] = "dispatching"]
  /\ todo' = [todo EXCEPT ![s] = marked[s]]
  /\ marked' = [marked EXCEPT ![s] = {}]
  /\ UNCHANGED failures
  /\ UNCHANGED <<grants, charges, notices, callVars>>

\* todo holds the rows whose PaymentFailed is still to be dispatched.
SweepDispatch(s) ==
  /\ phase[s] = "dispatching"
  /\ \/ \E k \in NextRow(s) :
          /\ Emit({k}, "PaymentFailed")
          /\ todo' = [todo EXCEPT ![s] = @ \ {k}]
          /\ UNCHANGED phase
     \/ /\ todo[s] = {}
        /\ phase' = [phase EXCEPT ![s] = "idle"]
        /\ UNCHANGED <<todo, notices>>
  /\ UNCHANGED <<marked, failures>>
  /\ UNCHANGED <<rows, grants, audit, charges, callVars>>

\* A sweep dies: its updates roll back, or its events are lost.
SweepCrash(s) ==
  /\ phase[s] # "idle"
  /\ failures < MaxFailures
  /\ failures' = failures + 1
  /\ phase' = [phase EXCEPT ![s] = "idle"]
  /\ todo' = [todo EXCEPT ![s] = {}]
  /\ marked' = [marked EXCEPT ![s] = {}]
  /\ UNCHANGED <<rows, grants, audit, charges, notices, callVars>>

-----------------------------------------------------------------------------

CallStep(r) ==
  \/ Lookup(r) \/ ReplayCompleted(r) \/ Check(r) \/ Insert(r)
  \/ Charge(r) \/ Decline(r)
  \/ Finalize(r) \/ FinalizeFailure(r) \/ Dispatch(r)

SweepStep(s) == SweepList(s) \/ SweepMark(s) \/ SweepCommit(s) \/ SweepDispatch(s)

Next ==
  \/ \E r \in Requests : CallStep(r) \/ Crash(r)
  \/ \E s \in Sweeps : SweepStep(s) \/ SweepCrash(s)
  \/ Tick

Spec == Init /\ [][Next]_vars

\* The scheduler's interval keeps starting sweeps and the event loop keeps
\* running a call that can go on; nothing forces a crash.
FairSpec ==
  /\ Spec
  /\ WF_vars(Tick)
  /\ \A r \in Requests : WF_vars(CallStep(r))
  /\ \A s \in Sweeps : WF_vars(SweepStep(s))

-----------------------------------------------------------------------------
(* What holds *)

Statuses == {"none", "pending", "failed"}
Grant == [user : Users, drop : Drops, key : Keys]
Places == {"lookup", "replay", "check", "insert", "provider", "charged",
           "declined", "unlocked", "failed", "done"}
Answers == {"none", "unlocked", "no_grant", "payment_failed", "conflict",
            "already_owned", "refused", "error"}

\* The type of every variable: the rows of purchase.service.ts and where its
\* calls and sweeps may be.
TypeOK ==
  /\ payment \in [Keys -> Statuses \union {"succeeded"}]
  /\ purchase \in [Keys -> Statuses \union {"completed"}]
  /\ forDrop \in [Keys -> Drops \union {NoDrop}]
  /\ age \in [Keys -> Nat]
  /\ rank \in [Keys -> Nat]
  /\ grants \subseteq Grant
  /\ audit \in [Keys -> [AuditActions -> Nat]]
  /\ charges \in [Keys -> Nat]
  /\ notices \in [Keys -> [EventTypes -> Nat]]
  /\ call \in [Requests -> [key : Keys, drop : Drops]]
  /\ pc \in [Requests -> Places]
  /\ result \in [Requests -> Answers]
  /\ phase \in [Sweeps -> {"idle", "marking", "dispatching"}]
  /\ todo \in [Sweeps -> SUBSET Keys]
  /\ marked \in [Sweeps -> SUBSET Keys]
  /\ failures \in Nat

\* However often a key is replayed, redelivered or retried after a crash, the
\* provider takes its money at most once (resolveReplay and the unique key).
ChargedAtMostOnce == \A k \in Keys : charges[k] <= 1

\* Payment, purchase and grant of a key change together: the payment is
\* succeeded exactly when its purchase is completed and it bought a grant, for
\* the buyer and the drop of the purchase and with money taken; it is failed
\* exactly when its purchase is.  Holds across TX2, the sweep and crashes.
PaidIsUnlocked ==
  \A k \in Keys :
    /\ payment[k] = "succeeded" <=> purchase[k] = "completed"
    /\ payment[k] = "succeeded" <=> \E g \in grants : g.key = k
    /\ payment[k] = "failed" <=> purchase[k] = "failed"
    /\ payment[k] = "succeeded" => charges[k] = 1
    /\ \A g \in grants : g.key = k => g.user = Owner[k] /\ g.drop = forDrop[k]

\* The audit trail tells how a payment came to its status, whoever moved it
\* last: a late success after a sweep leaves both rows.
AuditExplainsStatus ==
  \A k \in Keys :
    LET failedRows == audit[k]["failed_by_user"] + audit[k]["failed_by_job"] IN
    /\ payment[k] \in {"none", "pending"} =>
         audit[k]["succeeded"] = 0 /\ failedRows = 0
    /\ payment[k] = "failed" => audit[k]["succeeded"] = 0 /\ failedRows > 0
    /\ payment[k] = "succeeded" => audit[k]["succeeded"] = 1

\* Handlers see at most one event per committed transition: nothing is emitted
\* for a transaction that rolled back (EventBuffer, UnitOfWork.run).
NoPhantomEvents ==
  \A k \in Keys :
    /\ notices[k]["PurchaseCompleted"] <= audit[k]["succeeded"]
    /\ notices[k]["PaymentFailed"] <=
         audit[k]["failed_by_user"] + audit[k]["failed_by_job"]

\* A call that answers with the content, or that the buyer has it already,
\* tells the truth; a replayed success never comes back without its grant.
AnswersAreTrue ==
  \A r \in Requests :
    /\ result[r] \in {"unlocked", "already_owned"} => Owns(User(r), call[r].drop)
    /\ result[r] # "no_grant"

\* Two sweeps never wait for each other's rows: both lock in the order of
\* created_at.
SweepsDoNotDeadlock ==
  \A s, t \in Sweeps :
    ~ /\ NextRow(s) # {} /\ NextRow(s) \subseteq marked[t]
      /\ NextRow(t) # {} /\ NextRow(t) \subseteq marked[s]

\* Nothing moves a payment once it is succeeded: not a sweep that listed it
\* while it was pending, not another call with its key.
SucceededIsFinal ==
  [][\A k \in Keys : payment[k] = "succeeded" => payment'[k] = "succeeded"]_vars

\* A payment stranded by a crash between TX1 and TX2 does not stay pending, and
\* no call waits forever, on a sweep's lock or anything else.
PendingIsResolved ==
  /\ \A k \in Keys : (payment[k] = "pending") ~> (payment[k] # "pending")
  /\ \A r \in Requests : <>(pc[r] = "done")

Ledger == INSTANCE PaymentLedger WITH
  Attempts     <- Keys,
  Entitlements <- Users \X Drops,
  status       <- payment,
  charged      <- {k \in Keys : charges[k] > 0},
  owned        <- {<<g.user, g.drop>> : g \in grants}

\* The calls, the sweeps and their crashes implement the ledger.
ImplementsLedger == Ledger!Spec
=============================================================================

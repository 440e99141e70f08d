------------------------ MODULE SubscriptionsProofs ------------------------
(***************************************************************************)
(* One active subscription per member, paid periods applied once and to    *)
(* their own plan, and no time that was not paid for: for any calls, keys, *)
(* plans, sweeps, batches and failures.                                    *)
(***************************************************************************)
EXTENDS Subscriptions, FiniteSetTheorems, TLAPS

\* Where a call has its payment row and has not settled it, and where the
\* money of it has been taken.
Buying == {"provider", "charged", "declined", "creating", "renewing"}
Paying == {"charged", "creating", "renewing"}

\* At most one call works on a payment.
OneBuyerPerKey ==
  \A r, q \in Requests :
    pc[r] \in Buying /\ pc[q] \in Buying /\ call[r].key = call[q].key => r = q

\* Its row is there, unpaid and for its plan.
BuyerHasRow(r) ==
  pc[r] \in Buying =>
    /\ payment[call[r].key] \in {"pending", "failed"}
    /\ forPlan[call[r].key] = call[r].plan
    /\ pc[r] \in Paying => call[r].key \in charged

\* Who answers "subscribed" has a payment that succeeded.
ReplayIsPaid(r) == pc[r] = "replay" => payment[call[r].key] = "succeeded"
SubscribedIsPaid(r) == result[r] = "subscribed" => payment[call[r].key] = "succeeded"

PlansAreKnown == \A k \in Keys : payment[k] # "none" => forPlan[k] \in Plans

\* Payments that created or renewed row i, and the time they paid for.
Payers(i) == {k \in Keys : applied[k] = i}
PaidTime(i) == Cardinality(Payers(i)) * Duration[forPlan[i]]

\* A payment that has succeeded was applied to a row of its member and plan.
AppliedIsRight(k) ==
  /\ payment[k] = "succeeded" <=> applied[k] # NoKey
  /\ applied[k] # NoKey =>
       /\ k \in charged
       /\ sub[applied[k]].status # "none"
       /\ Owner[applied[k]] = Owner[k] /\ forPlan[applied[k]] = forPlan[k]

\* A row was created by the payment it is named after, and outlives no paid time.
RowIsRight(i) ==
  sub[i].status # "none" => applied[i] = i /\ sub[i].expires <= now + PaidTime(i)

\* What TX2 has read stays good enough to write.
CreationIsRight(r) == pc[r] = "creating" => seen[r].until <= now + Duration[call[r].plan]
RenewalIsRight(r) ==
  pc[r] = "renewing" =>
    /\ seen[r].row \in Keys
    /\ sub[seen[r].row].status # "none"
    /\ Owner[seen[r].row] = Member(r)
    /\ forPlan[seen[r].row] = call[r].plan
    /\ seen[r].until <= now + PaidTime(seen[r].row) + Duration[call[r].plan]

\* A row a sweep has marked stays active until the sweep commits.
MarkedAreActive == \A s \in Sweeps : \A i \in marked[s] : sub[i].status = "active"
MarkedByOne == \A s, t \in Sweeps : s # t => marked[s] \intersect marked[t] = {}

OneActive ==
  \A i, j \in Keys :
    sub[i].status = "active" /\ sub[j].status = "active" /\ Owner[i] = Owner[j] => i = j

CallInv(r) ==
  /\ BuyerHasRow(r) /\ ReplayIsPaid(r) /\ SubscribedIsPaid(r)
  /\ CreationIsRight(r) /\ RenewalIsRight(r)

RowsInv ==
  /\ PlansAreKnown
  /\ \A k \in Keys : AppliedIsRight(k) /\ RowIsRight(k)
  /\ OneActive

SweepInv == MarkedAreActive /\ MarkedByOne

IInv ==
  /\ TypeOK
  /\ OneBuyerPerKey
  /\ \A r \in Requests : CallInv(r)
  /\ RowsInv
  /\ SweepInv

-----------------------------------------------------------------------------
(* Paid time *)

LEMMA NatFacts ==
  /\ \A m, n, d \in Nat : m <= n => m * d <= n * d
  /\ \A n, d \in Nat : (n + 1) * d = n * d + d /\ n * d \in Nat
OBVIOUS

LEMMA PaidTimeIsNat ==
  ASSUME applied \in [Keys -> Keys \union {NoKey}], NEW i \in Keys, forPlan[i] \in Plans
  PROVE  /\ IsFiniteSet(Payers(i)) /\ Cardinality(Payers(i)) \in Nat
         /\ Duration[forPlan[i]] \in Nat
         /\ PaidTime(i) \in Nat
<1>1. IsFiniteSet(Payers(i))
  <2>1. Payers(i) \in SUBSET Keys
    BY DEF Payers
  <2> QED BY <2>1, FS_Subset, KeysAssumption
<1>2. Cardinality(Payers(i)) \in Nat
  BY <1>1, FS_CardinalityType
<1>3. Duration[forPlan[i]] \in Nat
  BY PlanAssumption
<1> QED BY <1>1, <1>2, <1>3, NatFacts DEF PaidTime

\* A row has a plan, and a succeeded payment of its own.
LEMMA RowIsKnown ==
  ASSUME IInv, NEW i \in Keys, sub[i].status # "none"
  PROVE  /\ payment[i] = "succeeded" /\ forPlan[i] \in Plans
         /\ PaidTime(i) \in Nat
<1>1. payment[i] = "succeeded"
  BY KeysAssumption DEF IInv, RowsInv, RowIsRight, AppliedIsRight
<1>2. forPlan[i] \in Plans
  BY <1>1 DEF IInv, RowsInv, PlansAreKnown
<1> QED BY <1>1, <1>2, PaidTimeIsNat DEF IInv, TypeOK

\* While no payment is applied, a row keeps its paid time.
LEMMA PaidTimeStays ==
  ASSUME applied' = applied, NEW i, forPlan'[i] = forPlan[i]
  PROVE  PaidTime(i)' = PaidTime(i)
BY DEF PaidTime, Payers

-----------------------------------------------------------------------------
(* What a step leaves alone *)

\* Calls that take no step keep what holds of them, while payments, rows and
\* time only move forward.
LEMMA CallsStay ==
  ASSUME IInv, TypeOK', NEW Q \in SUBSET Requests, call' = call,
         \A q \in Q : pc'[q] = pc[q] /\ seen'[q] = seen[q] /\ result'[q] = result[q],
         \A k \in Keys : payment[k] = "succeeded" => payment'[k] = "succeeded",
         \A q \in Q : pc[q] \in Buying =>
           payment'[call[q].key] \in {"pending", "failed"} /\ forPlan'[call[q].key] = forPlan[call[q].key],
         charged \subseteq charged', now <= now',
         \A i \in Keys : sub[i].status # "none" =>
           sub'[i].status # "none" /\ forPlan'[i] = forPlan[i] /\ PaidTime(i) <= PaidTime(i)',
         \A i \in Keys : sub[i].status # "none" => PaidTime(i)' \in Nat
  PROVE  \A q \in Q : CallInv(q)'
<1> SUFFICES ASSUME NEW q \in Q PROVE CallInv(q)'
  OBVIOUS
<1>1. /\ BuyerHasRow(q) /\ ReplayIsPaid(q) /\ SubscribedIsPaid(q)
      /\ CreationIsRight(q) /\ RenewalIsRight(q)
  BY DEF IInv, CallInv
<1>2. call[q] \in [key : Keys, plan : Plans] /\ seen[q].until \in Nat /\ now \in Nat /\ now' \in Nat
      /\ Duration[call[q].plan] \in Nat
  BY PlanAssumption DEF IInv, TypeOK
<1>3. BuyerHasRow(q)'
  BY <1>1, <1>2 DEF BuyerHasRow
<1>4. ReplayIsPaid(q)' /\ SubscribedIsPaid(q)'
  BY <1>1, <1>2 DEF ReplayIsPaid, SubscribedIsPaid
<1>5. CreationIsRight(q)'
  BY <1>1, <1>2 DEF CreationIsRight
<1>6. RenewalIsRight(q)'
  <2> SUFFICES ASSUME pc[q] = "renewing" PROVE RenewalIsRight(q)'
    BY DEF RenewalIsRight
  <2> DEFINE i == seen[q].row
  <2>1. /\ i \in Keys /\ sub[i].status # "none" /\ Owner[i] = Member(q) /\ forPlan[i] = call[q].plan
        /\ seen[q].until <= now + PaidTime(i) + Duration[call[q].plan]
    BY <1>1 DEF RenewalIsRight
  <2>2. PaidTime(i) \in Nat
    BY <2>1, RowIsKnown
  <2>3. sub'[i].status # "none" /\ forPlan'[i] = forPlan[i] /\ PaidTime(i) <= PaidTime(i)'
        /\ PaidTime(i)' \in Nat
    BY <2>1
  <2>4. seen'[q].until <= now' + PaidTime(i)' + Duration[call[q].plan]
    <3> DEFINE a == PaidTime(i)  b == PaidTime(i)'
    <3> HIDE DEF a, b
    <3>1. a \in Nat /\ b \in Nat /\ a <= b /\ seen[q].until <= now + a + Duration[call[q].plan]
      BY <2>1, <2>2, <2>3 DEF a, b
    <3>2. seen'[q].until <= now' + b + Duration[call[q].plan]
      BY <1>2, <3>1
    <3> QED BY <3>2 DEF b
  <2>5. seen'[q].row = i /\ Member(q)' = Member(q)
    BY DEF Member
  <2> QED BY <2>1, <2>3, <2>4, <2>5 DEF RenewalIsRight
<1> QED BY <1>3, <1>4, <1>5, <1>6 DEF CallInv

\* Rows that are not written keep what holds of them, while no payment
\* succeeds or loses its plan.
LEMMA RowsStay ==
  ASSUME IInv, TypeOK', sub' = sub, applied' = applied, charged \subseteq charged', now <= now',
         \A k \in Keys : payment[k] = "succeeded" <=> payment'[k] = "succeeded",
         \A k \in Keys : payment[k] = "succeeded" => forPlan'[k] = forPlan[k]
  PROVE  /\ \A k \in Keys : AppliedIsRight(k)' /\ RowIsRight(k)'
         /\ OneActive'
         /\ \A i \in Keys : sub[i].status # "none" =>
              /\ sub'[i].status # "none" /\ forPlan'[i] = forPlan[i] /\ PaidTime(i) <= PaidTime(i)'
              /\ PaidTime(i)' \in Nat
<1>1. ASSUME NEW k \in Keys PROVE AppliedIsRight(k)'
  <2>1. AppliedIsRight(k)
    BY DEF IInv, RowsInv
  <2>2. CASE applied[k] = NoKey
    BY <2>1, <2>2 DEF AppliedIsRight
  <2>3. CASE applied[k] # NoKey
    <3>1. applied[k] \in Keys
      BY <2>3 DEF IInv, TypeOK
    <3>2. payment[applied[k]] = "succeeded" /\ payment[k] = "succeeded"
      BY <2>1, <2>3, <3>1, RowIsKnown DEF AppliedIsRight
    <3> QED BY <2>1, <2>3, <3>1, <3>2 DEF AppliedIsRight
  <2> QED BY <2>2, <2>3
<1>2. ASSUME NEW i \in Keys, sub[i].status # "none"
      PROVE  /\ sub'[i].status # "none" /\ forPlan'[i] = forPlan[i]
             /\ PaidTime(i)' = PaidTime(i) /\ PaidTime(i) \in Nat
  <2>1. payment[i] = "succeeded" /\ PaidTime(i) \in Nat
    BY <1>2, RowIsKnown
  <2> QED BY <1>2, <2>1, PaidTimeStays
<1>3. ASSUME NEW i \in Keys PROVE RowIsRight(i)'
  <2> SUFFICES ASSUME sub[i].status # "none" PROVE RowIsRight(i)'
    BY DEF RowIsRight
  <2>1. applied[i] = i /\ sub[i].expires <= now + PaidTime(i)
    BY DEF IInv, RowsInv, RowIsRight
  <2>2. sub[i].expires \in Nat /\ now \in Nat /\ now' \in Nat
    BY DEF IInv, TypeOK
  <2>3. PaidTime(i)' = PaidTime(i) /\ PaidTime(i) \in Nat
    BY <1>2
  <2>4. sub[i].expires <= now' + PaidTime(i)
    BY <2>1, <2>2, <2>3
  <2> QED BY <2>1, <2>3, <2>4 DEF RowIsRight
<1>4. OneActive'
  BY DEF IInv, RowsInv, OneActive
<1>5. ASSUME NEW i \in Keys, sub[i].status # "none"
      PROVE  /\ sub'[i].status # "none" /\ forPlan'[i] = forPlan[i] /\ PaidTime(i) <= PaidTime(i)'
             /\ PaidTime(i)' \in Nat
  <2>1. PaidTime(i)' = PaidTime(i) /\ PaidTime(i) \in Nat
    BY <1>2, <1>5
  <2> QED BY <1>2, <1>5, <2>1
<1> QED BY <1>1, <1>3, <1>4, <1>5

\* A sweep's locks depend on the rows and on what is marked.
LEMMA SweepsStay ==
  ASSUME IInv, marked' = marked, \A s \in Sweeps : \A i \in marked[s] : sub'[i].status = "active"
  PROVE  SweepInv'
BY DEF IInv, SweepInv, MarkedAreActive, MarkedByOne

\* A call moves on.
CallMoves(r, where, what, answer) ==
  /\ call' = call
  /\ pc' = [pc EXCEPT ![r] = where]
  /\ seen' = [seen EXCEPT ![r] = what]
  /\ result' = [result EXCEPT ![r] = answer]

LEMMA MovesAre ==
  ASSUME TypeOK, NEW r \in Requests, NEW where, NEW answer
  PROVE  /\ Goto(r, where) => CallMoves(r, where, seen[r], result[r])
         /\ Return(r, answer) => CallMoves(r, "done", Nothing, answer)
<1>1. seen = [seen EXCEPT ![r] = seen[r]] /\ result = [result EXCEPT ![r] = result[r]]
  BY DEF TypeOK
<1> QED BY <1>1 DEF Goto, Return, CallMoves

LEMMA MoveTypes ==
  ASSUME TypeOK, NEW r \in Requests, NEW where \in Places, NEW answer \in Answers,
         NEW what \in [row : Keys \union {NoKey}, until : Nat],
         CallMoves(r, where, what, answer)
  PROVE  /\ call' = call /\ pc' \in [Requests -> Places] /\ result' \in [Requests -> Answers]
         /\ seen' \in [Requests -> [row : Keys \union {NoKey}, until : Nat]]
         /\ pc'[r] = where /\ seen'[r] = what /\ result'[r] = answer
         /\ \A q \in Requests \ {r} : pc'[q] = pc[q] /\ seen'[q] = seen[q] /\ result'[q] = result[q]
<1>1. pc \in [Requests -> Places] /\ result \in [Requests -> Answers]
      /\ seen \in [Requests -> [row : Keys \union {NoKey}, until : Nat]]
  BY DEF TypeOK
<1> QED BY <1>1 DEF CallMoves

\* One buyer per key, as long as no call begins to buy.
LEMMA BuyersStay ==
  ASSUME IInv, NEW r \in Requests, call' = call,
         \A q \in Requests \ {r} : pc'[q] = pc[q],
         pc'[r] \in Buying => pc[r] \in Buying
  PROVE  OneBuyerPerKey'
BY DEF IInv, OneBuyerPerKey

\* All a step of a call that writes nothing to the database has to show.
LEMMA QuietCallKeeps ==
  ASSUME IInv, NEW r \in Requests, NEW where \in Places, NEW answer \in Answers,
         NEW what \in [row : Keys \union {NoKey}, until : Nat],
         CallMoves(r, where, what, answer),
         UNCHANGED <<now, money, subRows, sweepVars>>,
         where \in Buying => pc[r] \in Buying,
         where \in Paying => pc[r] \in Paying,
         where = "replay" => payment[call[r].key] = "succeeded",
         answer = "subscribed" => payment[call[r].key] = "succeeded",
         where = "creating" => what.until <= now + Duration[call[r].plan],
         where = "renewing" =>
           /\ what.row \in Keys
           /\ sub[what.row].status # "none"
           /\ Owner[what.row] = Member(r)
           /\ forPlan[what.row] = call[r].plan
           /\ what.until <= now + PaidTime(what.row) + Duration[call[r].plan]
  PROVE  IInv'
<1>1. /\ call' = call /\ pc' \in [Requests -> Places] /\ result' \in [Requests -> Answers]
      /\ seen' \in [Requests -> [row : Keys \union {NoKey}, until : Nat]]
      /\ pc'[r] = where /\ seen'[r] = what /\ result'[r] = answer
      /\ \A q \in Requests \ {r} : pc'[q] = pc[q] /\ seen'[q] = seen[q] /\ result'[q] = result[q]
  BY MoveTypes DEF IInv
<1>2. /\ now' = now /\ payment' = payment /\ forPlan' = forPlan /\ charged' = charged
      /\ sub' = sub /\ applied' = applied /\ expiries' = expiries
      /\ phase' = phase /\ todo' = todo /\ marked' = marked /\ failures' = failures
  BY DEF money, subRows, sweepVars
<1>3. TypeOK'
  BY <1>1, <1>2 DEF IInv, TypeOK
<1>4. now <= now'
  BY <1>2 DEF IInv, TypeOK
<1>5. /\ \A k \in Keys : AppliedIsRight(k)' /\ RowIsRight(k)'
      /\ OneActive'
      /\ \A i \in Keys : sub[i].status # "none" =>
           /\ sub'[i].status # "none" /\ forPlan'[i] = forPlan[i] /\ PaidTime(i) <= PaidTime(i)'
           /\ PaidTime(i)' \in Nat
  BY <1>2, <1>3, <1>4, RowsStay
<1>6. \A q \in Requests : pc[q] \in Buying => payment[call[q].key] \in {"pending", "failed"}
  BY DEF IInv, CallInv, BuyerHasRow
<1>7. \A q \in Requests \ {r} : CallInv(q)'
  BY <1>1, <1>2, <1>3, <1>4, <1>5, <1>6, CallsStay
<1>8. CallInv(r)'
  <2>1. BuyerHasRow(r) /\ ReplayIsPaid(r) /\ SubscribedIsPaid(r)
    BY DEF IInv, CallInv
  <2>2. BuyerHasRow(r)'
    BY <1>1, <1>2, <2>1 DEF BuyerHasRow
  <2>3. ReplayIsPaid(r)' /\ SubscribedIsPaid(r)'
    BY <1>1, <1>2 DEF ReplayIsPaid, SubscribedIsPaid
  <2>4. CreationIsRight(r)'
    BY <1>1, <1>2 DEF CreationIsRight
  <2>5. RenewalIsRight(r)'
    <3> SUFFICES ASSUME where = "renewing" PROVE RenewalIsRight(r)'
      BY <1>1 DEF RenewalIsRight
    <3>1. PaidTime(what.row)' = PaidTime(what.row) /\ Member(r)' = Member(r)
      BY <1>1, <1>2, PaidTimeStays DEF Member
    <3> QED BY <1>1, <1>2, <3>1 DEF RenewalIsRight
  <2> QED BY <2>2, <2>3, <2>4, <2>5 DEF CallInv
<1>9. OneBuyerPerKey'
  BY <1>1, BuyersStay
<1>10. PlansAreKnown'
  BY <1>2 DEF IInv, RowsInv, PlansAreKnown
<1>11. SweepInv'
  BY <1>2, SweepsStay DEF IInv, SweepInv, MarkedAreActive
<1> QED BY <1>3, <1>5, <1>7, <1>8, <1>9, <1>10, <1>11 DEF IInv, RowsInv

\* A call that ends without a subscription, and one that goes on to look or buy.
LEMMA ReturnKeeps ==
  ASSUME IInv, NEW r \in Requests, NEW answer \in Answers, Return(r, answer),
         UNCHANGED <<now, money, subRows, sweepVars>>,
         answer = "subscribed" => payment[call[r].key] = "succeeded"
  PROVE  IInv'
<1>1. CallMoves(r, "done", Nothing, answer)
  BY MovesAre DEF IInv
<1>2. "done" \in Places /\ "done" \notin Buying /\ "done" \notin Paying
      /\ Nothing \in [row : Keys \union {NoKey}, until : Nat]
  BY DEF Places, Buying, Paying, Nothing
<1> QED BY <1>1, <1>2, QuietCallKeeps

LEMMA GotoKeeps ==
  ASSUME IInv, NEW r \in Requests, NEW where \in Places \ {"creating", "renewing"}, Goto(r, where),
         UNCHANGED <<now, money, subRows, sweepVars>>,
         where \in Buying => pc[r] \in Buying,
         where \in Paying => pc[r] \in Paying,
         where = "replay" => payment[call[r].key] = "succeeded"
  PROVE  IInv'
<1>1. CallMoves(r, where, seen[r], result[r])
  BY MovesAre DEF IInv
<1>2. /\ seen[r] \in [row : Keys \union {NoKey}, until : Nat] /\ result[r] \in Answers
      /\ result[r] = "subscribed" => payment[call[r].key] = "succeeded"
  BY DEF IInv, TypeOK, CallInv, SubscribedIsPaid
<1> QED BY <1>1, <1>2, QuietCallKeeps

-----------------------------------------------------------------------------
(* The steps of a call that write nothing *)

LEMMA LookupKeeps ==
  ASSUME IInv, NEW r \in Requests, Lookup(r)
  PROVE  IInv'
<1>1. UNCHANGED <<now, money, subRows, sweepVars>>
  BY DEF Lookup
<1>2. {"refused", "conflict", "payment_failed"} \subseteq Answers
      /\ "subscribed" \notin {"refused", "conflict", "payment_failed"}
      /\ {"check", "replay"} \subseteq Places \ {"creating", "renewing"}
      /\ "check" \notin Buying /\ "replay" \notin Buying /\ "check" \notin Paying /\ "replay" \notin Paying
  BY DEF Answers, Places, Buying, Paying
<1>3. CASE \E answer \in {"refused", "conflict", "payment_failed"} : Return(r, answer)
  BY <1>1, <1>2, <1>3, ReturnKeeps
<1>4. CASE Goto(r, "check") \/ (payment[call[r].key] = "succeeded" /\ Goto(r, "replay"))
  BY <1>1, <1>2, <1>4, GotoKeeps
<1> QED BY <1>3, <1>4 DEF Lookup

LEMMA CheckReplayDeclineKeep ==
  ASSUME IInv, NEW r \in Requests, ReplayCompleted(r) \/ Check(r) \/ Decline(r)
  PROVE  IInv'
<1>1. UNCHANGED <<now, money, subRows, sweepVars>>
  BY DEF ReplayCompleted, Check, Decline
<1>2. {"subscribed", "conflict"} \subseteq Answers
      /\ {"insert", "declined"} \subseteq Places \ {"creating", "renewing"}
      /\ "insert" \notin Buying /\ "provider" \in Buying /\ {"insert", "declined"} \cap Paying = {}
  BY DEF Answers, Places, Buying, Paying
<1>3. CASE ReplayCompleted(r)
  <2>1. payment[call[r].key] = "succeeded"
    BY <1>3 DEF IInv, CallInv, ReplayIsPaid, ReplayCompleted
  <2>2. Return(r, "subscribed") \/ Return(r, "conflict")
    BY <1>3 DEF ReplayCompleted
  <2> QED BY <1>1, <1>2, <2>1, <2>2, ReturnKeeps
<1>4. CASE Check(r)
  <2>1. Return(r, "conflict") \/ Goto(r, "insert")
    BY <1>4 DEF Check
  <2> QED BY <1>1, <1>2, <2>1, ReturnKeeps, GotoKeeps
<1>5. CASE Decline(r)
  <2>1. pc[r] \in Buying /\ Goto(r, "declined")
    BY <1>2, <1>5 DEF Decline
  <2> QED BY <1>1, <1>2, <2>1, GotoKeeps
<1> QED BY <1>3, <1>4, <1>5

LEMMA RollBackKeeps ==
  ASSUME IInv, NEW r \in Requests, NEW answer \in {"lost_race", "error"}, RollBack(r, answer)
  PROVE  IInv'
<1>1. answer \in Answers /\ answer # "subscribed"
  BY DEF Answers
<1> QED BY <1>1, ReturnKeeps DEF RollBack

\* What TX2 reads is good enough to write at once.
LEMMA ReadActiveKeeps ==
  ASSUME IInv, NEW r \in Requests, ReadActive(r)
  PROVE  IInv'
<1>1. UNCHANGED <<now, money, subRows, sweepVars>> /\ pc[r] = "charged"
  BY DEF ReadActive
<1>2. /\ "charged" \in Buying /\ "charged" \in Paying /\ {"creating", "renewing"} \subseteq Places
      /\ "lost_race" \in Answers
  BY DEF Buying, Paying, Places, Answers
<1>3. /\ now \in Nat /\ Duration[call[r].plan] \in Nat /\ result[r] \in Answers
      /\ result[r] = "subscribed" => payment[call[r].key] = "succeeded"
  BY PlanAssumption DEF IInv, TypeOK, CallInv, SubscribedIsPaid
<1>4. result = [result EXCEPT ![r] = result[r]]
  BY DEF IInv, TypeOK
<1>5. ASSUME seen' = [seen EXCEPT ![r] = [row |-> NoKey, until |-> AddDays(r, now)]],
             pc' = [pc EXCEPT ![r] = "creating"], UNCHANGED <<call, result>>
      PROVE  IInv'
  <2> DEFINE what == [row |-> NoKey, until |-> AddDays(r, now)]
  <2>1. what \in [row : Keys \union {NoKey}, until : Nat]
        /\ what.until <= now + Duration[call[r].plan]
    BY <1>3 DEF AddDays
  <2>2. CallMoves(r, "creating", what, result[r])
    BY <1>4, <1>5 DEF CallMoves
  <2> HIDE DEF what
  <2> QED BY <1>1, <1>2, <1>3, <2>1, <2>2, QuietCallKeeps
<1>6. ASSUME NEW i \in Active(Member(r)), SamePlan(r, i),
             seen' = [seen EXCEPT ![r] =
               [row |-> i, until |-> AddDays(r, IF sub[i].expires > now THEN sub[i].expires ELSE now)]],
             pc' = [pc EXCEPT ![r] = "renewing"], UNCHANGED <<call, result>>
      PROVE  IInv'
  <2> DEFINE base == IF sub[i].expires > now THEN sub[i].expires ELSE now
             what == [row |-> i, until |-> AddDays(r, base)]
  <2>1. i \in Keys /\ sub[i].status = "active" /\ Owner[i] = Member(r) /\ forPlan[i] = call[r].plan
    BY <1>6 DEF Active, SamePlan
  <2>2. sub[i].expires \in Nat /\ sub[i].expires <= now + PaidTime(i) /\ PaidTime(i) \in Nat
    BY <2>1, RowIsKnown DEF IInv, TypeOK, RowsInv, RowIsRight
  <2>3. base \in Nat /\ base <= now + PaidTime(i)
    BY <1>3, <2>2
  <2>4. what \in [row : Keys \union {NoKey}, until : Nat]
        /\ what.until <= now + PaidTime(i) + Duration[call[r].plan]
    BY <1>3, <2>1, <2>2, <2>3 DEF AddDays
  <2>5. CallMoves(r, "renewing", what, result[r]) /\ what.row = i
    BY <1>4, <1>6 DEF CallMoves
  <2> HIDE DEF what
  <2> QED BY <1>1, <1>2, <1>3, <2>1, <2>4, <2>5, QuietCallKeeps
<1>7. ASSUME Return(r, "lost_race") PROVE IInv'
  BY <1>1, <1>2, <1>7, ReturnKeeps
<1> QED BY <1>5, <1>6, <1>7 DEF ReadActive

-----------------------------------------------------------------------------
(* The steps that write payments *)

\* While payments change, none succeeds and none that has succeeded is touched.
LEMMA PaymentWritesKeep ==
  ASSUME IInv, TypeOK', NEW Q \in SUBSET Requests, call' = call,
         \A q \in Q : pc'[q] = pc[q] /\ seen'[q] = seen[q] /\ result'[q] = result[q],
         \A q \in Q : pc[q] \in Buying =>
           payment'[call[q].key] \in {"pending", "failed"} /\ forPlan'[call[q].key] = forPlan[call[q].key],
         \A k \in Keys : payment[k] = "succeeded" <=> payment'[k] = "succeeded",
         \A k \in Keys : payment[k] = "succeeded" => forPlan'[k] = forPlan[k],
         \A k \in Keys : payment'[k] # "none" => forPlan'[k] \in Plans,
         charged \subseteq charged', UNCHANGED <<now, subRows, sweepVars>>,
         \A r \in Requests \ Q : CallInv(r)',
         OneBuyerPerKey'
  PROVE  IInv'
<1>1. /\ now' = now /\ sub' = sub /\ applied' = applied /\ marked' = marked /\ now <= now'
  BY DEF subRows, sweepVars, IInv, TypeOK
<1>2. /\ \A k \in Keys : AppliedIsRight(k)' /\ RowIsRight(k)'
      /\ OneActive'
      /\ \A i \in Keys : sub[i].status # "none" =>
           /\ sub'[i].status # "none" /\ forPlan'[i] = forPlan[i] /\ PaidTime(i) <= PaidTime(i)'
           /\ PaidTime(i)' \in Nat
  BY <1>1, RowsStay
<1>3. \A q \in Q : CallInv(q)'
  BY <1>1, <1>2, CallsStay
<1>4. PlansAreKnown'
  BY DEF PlansAreKnown
<1>5. SweepInv'
  BY <1>1, SweepsStay DEF IInv, SweepInv, MarkedAreActive
<1> QED BY <1>2, <1>3, <1>4, <1>5 DEF IInv, RowsInv

LEMMA InsertKeeps ==
  ASSUME IInv, NEW r \in Requests, Insert(r)
  PROVE  IInv'
<1> DEFINE k == call[r].key
<1>1. k \in Keys /\ call[r].plan \in Plans
  BY DEF IInv, TypeOK
<1>2. CASE KeyTaken(r) /\ Return(r, "error") /\ UNCHANGED money
  BY <1>2, ReturnKeeps DEF Insert, Answers
<1>3. CASE ~KeyTaken(r) /\ payment' = [payment EXCEPT ![k] = "pending"]
           /\ forPlan' = [forPlan EXCEPT ![k] = call[r].plan] /\ UNCHANGED charged
           /\ Goto(r, "provider")
  <2>1. payment[k] = "none"
    BY <1>1, <1>3 DEF KeyTaken, Created
  <2>2. /\ payment \in [Keys -> {"none", "pending", "succeeded", "failed"}]
        /\ forPlan \in [Keys -> Plans \union {NoPlan}]
        /\ seen[r] \in [row : Keys \union {NoKey}, until : Nat] /\ result[r] \in Answers
    BY DEF IInv, TypeOK
  <2>3. CallMoves(r, "provider", seen[r], result[r]) /\ "provider" \in Places
    BY <1>3, MovesAre DEF IInv, Places
  <2>4. /\ call' = call /\ pc' \in [Requests -> Places] /\ result' \in [Requests -> Answers]
        /\ seen' \in [Requests -> [row : Keys \union {NoKey}, until : Nat]]
        /\ pc'[r] = "provider" /\ seen'[r] = seen[r] /\ result'[r] = result[r]
        /\ \A q \in Requests \ {r} : pc'[q] = pc[q] /\ seen'[q] = seen[q] /\ result'[q] = result[q]
    BY <2>2, <2>3, MoveTypes DEF IInv
  <2>5. /\ payment'[k] = "pending" /\ forPlan'[k] = call[r].plan
        /\ \A j \in Keys \ {k} : payment'[j] = payment[j] /\ forPlan'[j] = forPlan[j]
        /\ payment' \in [Keys -> {"none", "pending", "succeeded", "failed"}]
        /\ forPlan' \in [Keys -> Plans \union {NoPlan}]
    BY <1>1, <1>3, <2>2
  <2>6. UNCHANGED <<now, subRows, sweepVars>> /\ charged' = charged
    BY <1>3 DEF Insert
  <2>7. TypeOK'
    BY <2>4, <2>5, <2>6 DEF IInv, TypeOK, subRows, sweepVars
  <2>8. \A q \in Requests : pc[q] \in Buying =>
          call[q].key # k /\ call[q].key \in Keys /\ payment[call[q].key] \in {"pending", "failed"}
    BY <2>1 DEF IInv, TypeOK, CallInv, BuyerHasRow
  <2>9. OneBuyerPerKey'
    BY <2>4, <2>8 DEF IInv, OneBuyerPerKey
  <2>10. CallInv(r)'
    <3>1. BuyerHasRow(r)'
      BY <2>4, <2>5 DEF BuyerHasRow, Paying
    <3>2. SubscribedIsPaid(r)'
      BY <2>1, <2>4 DEF IInv, CallInv, SubscribedIsPaid
    <3>3. ReplayIsPaid(r)' /\ CreationIsRight(r)' /\ RenewalIsRight(r)'
      BY <2>4 DEF ReplayIsPaid, CreationIsRight, RenewalIsRight
    <3> QED BY <3>1, <3>2, <3>3 DEF CallInv
  <2>11. \A j \in Keys : payment'[j] # "none" => forPlan'[j] \in Plans
    BY <1>1, <2>5 DEF IInv, RowsInv, PlansAreKnown
  <2>12. \A j \in Keys : (payment[j] = "succeeded" <=> payment'[j] = "succeeded")
                         /\ (payment[j] = "succeeded" => forPlan'[j] = forPlan[j])
    BY <2>1, <2>5
  <2>13. \A q \in Requests \ {r} : pc[q] \in Buying =>
           payment'[call[q].key] \in {"pending", "failed"} /\ forPlan'[call[q].key] = forPlan[call[q].key]
    BY <2>5, <2>8
  <2> DEFINE Q == Requests \ {r}
  <2>14. Q \in SUBSET Requests /\ \A q \in Requests \ Q : q = r
    OBVIOUS
  <2>15. \A q \in Q : pc'[q] = pc[q] /\ seen'[q] = seen[q] /\ result'[q] = result[q]
    BY <2>4
  <2>16. \A q \in Q : pc[q] \in Buying =>
           payment'[call[q].key] \in {"pending", "failed"} /\ forPlan'[call[q].key] = forPlan[call[q].key]
    BY <2>13
  <2>17. \A j \in Keys : payment[j] = "succeeded" <=> payment'[j] = "succeeded"
    BY <2>12
  <2>18. \A j \in Keys : payment[j] = "succeeded" => forPlan'[j] = forPlan[j]
    BY <2>12
  <2>19. call' = call /\ charged \subseteq charged' /\ \A q \in Requests \ Q : CallInv(q)'
    BY <2>4, <2>6, <2>10, <2>14
  <2> HIDE DEF Q, k
  <2> QED BY <2>6, <2>7, <2>9, <2>11, <2>14, <2>15, <2>16, <2>17, <2>18, <2>19, PaymentWritesKeep
<1> QED BY <1>2, <1>3 DEF Insert

LEMMA ChargeKeeps ==
  ASSUME IInv, NEW r \in Requests, Charge(r)
  PROVE  IInv'
<1>1. /\ pc[r] = "provider" /\ charged' = charged \union {call[r].key}
      /\ payment' = payment /\ forPlan' = forPlan /\ UNCHANGED <<now, subRows, sweepVars>>
  BY DEF Charge
<1>2. /\ call[r].key \in Keys
      /\ seen[r] \in [row : Keys \union {NoKey}, until : Nat] /\ result[r] \in Answers
  BY DEF IInv, TypeOK
<1>3. CallMoves(r, "charged", seen[r], result[r]) /\ "charged" \in Places
  BY MovesAre DEF IInv, Charge, Places
<1>4. /\ call' = call /\ pc' \in [Requests -> Places] /\ result' \in [Requests -> Answers]
      /\ seen' \in [Requests -> [row : Keys \union {NoKey}, until : Nat]]
      /\ pc'[r] = "charged" /\ seen'[r] = seen[r] /\ result'[r] = result[r]
      /\ \A q \in Requests \ {r} : pc'[q] = pc[q] /\ seen'[q] = seen[q] /\ result'[q] = result[q]
  BY <1>2, <1>3, MoveTypes DEF IInv
<1>5. TypeOK'
  BY <1>1, <1>2, <1>4 DEF IInv, TypeOK, subRows, sweepVars
<1>6. OneBuyerPerKey'
  BY <1>1, <1>4, BuyersStay DEF Buying
<1>7. BuyerHasRow(r) /\ SubscribedIsPaid(r)
  BY DEF IInv, CallInv
<1>8. CallInv(r)'
  <2>1. BuyerHasRow(r)'
    BY <1>1, <1>4, <1>7 DEF BuyerHasRow, Buying
  <2>2. SubscribedIsPaid(r)' /\ ReplayIsPaid(r)' /\ CreationIsRight(r)' /\ RenewalIsRight(r)'
    BY <1>1, <1>4, <1>7 DEF SubscribedIsPaid, ReplayIsPaid, CreationIsRight, RenewalIsRight
  <2> QED BY <2>1, <2>2 DEF CallInv
<1>9. \A q \in Requests : pc[q] \in Buying => payment[call[q].key] \in {"pending", "failed"}
  BY DEF IInv, CallInv, BuyerHasRow
<1>10. \A j \in Keys : payment[j] # "none" => forPlan[j] \in Plans
  BY DEF IInv, RowsInv, PlansAreKnown
<1> DEFINE Q == Requests \ {r}
<1>11. Q \in SUBSET Requests /\ \A q \in Requests \ Q : q = r
  OBVIOUS
<1> QED BY <1>1, <1>4, <1>5, <1>6, <1>8, <1>9, <1>10, <1>11, PaymentWritesKeep

\* finalizeFailure finds its own payment, and the sweep one that is pending.
LEMMA FailureKeeps ==
  ASSUME IInv, NEW k \in Keys, payment[k] \in {"pending", "failed"},
         payment' = [payment EXCEPT ![k] = "failed"],
         forPlan' = forPlan, charged' = charged, UNCHANGED <<now, subRows, sweepVars>>,
         TypeOK', OneBuyerPerKey', call' = call,
         NEW Q \in SUBSET Requests,
         \A q \in Q : pc'[q] = pc[q] /\ seen'[q] = seen[q] /\ result'[q] = result[q],
         \A r \in Requests \ Q : CallInv(r)'
  PROVE  IInv'
<1>1. /\ payment'[k] = "failed"
      /\ \A j \in Keys \ {k} : payment'[j] = payment[j]
  BY DEF IInv, TypeOK
<1>2. \A q \in Requests : call[q].key \in Keys
        /\ (pc[q] \in Buying => payment[call[q].key] \in {"pending", "failed"})
  BY DEF IInv, TypeOK, CallInv, BuyerHasRow
<1>3. \A q \in Q : pc[q] \in Buying =>
        payment'[call[q].key] \in {"pending", "failed"} /\ forPlan'[call[q].key] = forPlan[call[q].key]
  BY <1>1, <1>2
<1>4. \A j \in Keys : (payment[j] = "succeeded" <=> payment'[j] = "succeeded")
                      /\ (payment[j] = "succeeded" => forPlan'[j] = forPlan[j])
  BY <1>1
<1>5. \A j \in Keys : payment'[j] # "none" => forPlan'[j] \in Plans
  BY <1>1 DEF IInv, RowsInv, PlansAreKnown
<1> QED BY <1>3, <1>4, <1>5, PaymentWritesKeep

LEMMA FinalizeFailureKeeps ==
  ASSUME IInv, NEW r \in Requests, FinalizeFailure(r)
  PROVE  IInv'
<1>1. /\ pc[r] = "declined" /\ payment' = [payment EXCEPT ![call[r].key] = "failed"]
      /\ forPlan' = forPlan /\ charged' = charged /\ UNCHANGED <<now, subRows, sweepVars>>
  BY DEF FinalizeFailure
<1>2. call[r].key \in Keys /\ payment[call[r].key] \in {"pending", "failed"}
  BY <1>1 DEF IInv, TypeOK, CallInv, BuyerHasRow, Buying
<1>3. CallMoves(r, "done", Nothing, "payment_failed") /\ "done" \in Places /\ "payment_failed" \in Answers
      /\ Nothing \in [row : Keys \union {NoKey}, until : Nat]
  BY MovesAre DEF IInv, FinalizeFailure, Places, Answers, Nothing
<1>4. /\ call' = call /\ pc' \in [Requests -> Places] /\ result' \in [Requests -> Answers]
      /\ seen' \in [Requests -> [row : Keys \union {NoKey}, until : Nat]]
      /\ pc'[r] = "done" /\ result'[r] = "payment_failed"
      /\ \A q \in Requests \ {r} : pc'[q] = pc[q] /\ seen'[q] = seen[q] /\ result'[q] = result[q]
  BY <1>3, MoveTypes DEF IInv
<1>5. TypeOK'
  BY <1>1, <1>2, <1>4 DEF IInv, TypeOK, subRows, sweepVars
<1>6. OneBuyerPerKey'
  BY <1>4, BuyersStay DEF Buying
<1>7. CallInv(r)'
  BY <1>4 DEF CallInv, BuyerHasRow, SubscribedIsPaid, ReplayIsPaid, CreationIsRight, RenewalIsRight, Buying
<1> DEFINE Q == Requests \ {r}
<1>8. Q \in SUBSET Requests /\ \A q \in Requests \ Q : q = r
  OBVIOUS
<1> QED BY <1>1, <1>2, <1>4, <1>5, <1>6, <1>7, <1>8, FailureKeeps

LEMMA FailStaleKeeps ==
  ASSUME IInv, NEW k \in Keys, FailStale(k)
  PROVE  IInv'
<1>1. /\ payment[k] = "pending" /\ payment' = [payment EXCEPT ![k] = "failed"]
      /\ forPlan' = forPlan /\ charged' = charged /\ UNCHANGED <<now, subRows, sweepVars>>
      /\ call' = call /\ pc' = pc /\ seen' = seen /\ result' = result
  BY DEF FailStale, callVars
<1>2. TypeOK'
  BY <1>1 DEF IInv, TypeOK, subRows, sweepVars
<1>3. OneBuyerPerKey'
  BY <1>1 DEF IInv, OneBuyerPerKey
<1> DEFINE Q == Requests
<1>4. Q \in SUBSET Requests /\ Requests \ Q = {}
  OBVIOUS
<1> HIDE DEF Q
<1>5. /\ \A q \in Q : pc'[q] = pc[q] /\ seen'[q] = seen[q] /\ result'[q] = result[q]
      /\ \A r \in Requests \ Q : CallInv(r)'
  BY <1>1, <1>4
<1> QED BY <1>1, <1>2, <1>3, <1>4, <1>5, FailureKeeps

-----------------------------------------------------------------------------
(* The commit of a paid period *)

\* A payment that is applied to row i adds its duration there.
LEMMA PaidTimeGrows ==
  ASSUME applied \in [Keys -> Keys \union {NoKey}], forPlan' = forPlan,
         NEW k \in Keys, NEW i \in Keys, applied[k] = NoKey, applied' = [applied EXCEPT ![k] = i],
         NEW j \in Keys, forPlan[j] \in Plans
  PROVE  /\ PaidTime(j) \in Nat /\ PaidTime(j)' \in Nat
         /\ PaidTime(j)' = IF j = i THEN PaidTime(j) + Duration[forPlan[j]] ELSE PaidTime(j)
<1> DEFINE n == Cardinality(Payers(j))
           d == Duration[forPlan[j]]
<1>1. IsFiniteSet(Payers(j)) /\ n \in Nat /\ d \in Nat /\ PaidTime(j) \in Nat
  BY PaidTimeIsNat
<1>2. Payers(j)' = IF j = i THEN Payers(j) \union {k} ELSE Payers(j)
  BY KeysAssumption DEF Payers
<1>3. k \notin Payers(j)
  BY KeysAssumption DEF Payers
<1>4. Cardinality(Payers(j)') = IF j = i THEN n + 1 ELSE n
  BY <1>1, <1>2, <1>3, FS_AddElement
<1>5. PaidTime(j)' = Cardinality(Payers(j)') * d /\ PaidTime(j) = n * d
  BY DEF PaidTime
<1> HIDE DEF n, d
<1>6. (n + 1) * d = n * d + d /\ n * d \in Nat
  BY <1>1, NatFacts
<1>7. PaidTime(j)' = IF j = i THEN n * d + d ELSE n * d
  BY <1>4, <1>5, <1>6
<1>8. PaidTime(j)' \in Nat /\ PaidTime(j)' = IF j = i THEN PaidTime(j) + d ELSE PaidTime(j)
  BY <1>1, <1>5, <1>6, <1>7
<1> QED BY <1>1, <1>8 DEF d

LEMMA CommitKeeps ==
  ASSUME IInv, NEW r \in Requests, pc[r] \in {"creating", "renewing"},
         NEW i \in Keys, Commit(r, i, "active"),
         i = call[r].key \/ sub[i].status # "none",
         i \notin Locked,
         \A j \in Active(Member(r)) : j = i,
         Owner[i] = Member(r), forPlan[i] = call[r].plan,
         seen[r].until <= now + PaidTime(i) + Duration[call[r].plan]
  PROVE  IInv'
<1> DEFINE k == call[r].key
<1>1. /\ payment' = [payment EXCEPT ![k] = "succeeded"]
      /\ sub' = [sub EXCEPT ![i] = [status |-> "active", expires |-> seen[r].until]]
      /\ applied' = [applied EXCEPT ![k] = i]
      /\ now' = now /\ forPlan' = forPlan /\ charged' = charged /\ expiries' = expiries
      /\ phase' = phase /\ todo' = todo /\ marked' = marked /\ failures' = failures
      /\ Return(r, "subscribed")
  BY DEF Commit, Succeeded, sweepVars
<1>2. /\ k \in Keys /\ call[r].plan \in Plans /\ seen[r].until \in Nat /\ now \in Nat
      /\ payment \in [Keys -> {"none", "pending", "succeeded", "failed"}]
      /\ sub \in [Keys -> [status : {"none", "active", "expired"}, expires : Nat]]
      /\ applied \in [Keys -> Keys \union {NoKey}]
      /\ Duration[call[r].plan] \in Nat
  BY PlanAssumption DEF IInv, TypeOK
<1>3. /\ payment[k] \in {"pending", "failed"} /\ forPlan[k] = call[r].plan /\ k \in charged
      /\ pc[r] \in Buying
  BY DEF IInv, CallInv, BuyerHasRow, Buying, Paying
<1>4. applied[k] = NoKey
  BY <1>2, <1>3 DEF IInv, RowsInv, AppliedIsRight
<1>5. /\ call' = call /\ pc' \in [Requests -> Places] /\ result' \in [Requests -> Answers]
      /\ seen' \in [Requests -> [row : Keys \union {NoKey}, until : Nat]]
      /\ pc'[r] = "done" /\ result'[r] = "subscribed"
      /\ \A q \in Requests \ {r} : pc'[q] = pc[q] /\ seen'[q] = seen[q] /\ result'[q] = result[q]
  <2>1. CallMoves(r, "done", Nothing, "subscribed")
    BY <1>1, MovesAre DEF IInv
  <2>2. "done" \in Places /\ "subscribed" \in Answers /\ Nothing \in [row : Keys \union {NoKey}, until : Nat]
    BY DEF Places, Answers, Nothing
  <2> QED BY <2>1, <2>2, MoveTypes DEF IInv
<1>6. /\ payment'[k] = "succeeded" /\ \A j \in Keys \ {k} : payment'[j] = payment[j]
      /\ applied'[k] = i /\ \A j \in Keys \ {k} : applied'[j] = applied[j]
      /\ sub'[i].status = "active" /\ sub'[i].expires = seen[r].until
      /\ \A j \in Keys \ {i} : sub'[j] = sub[j]
      /\ payment' \in [Keys -> {"none", "pending", "succeeded", "failed"}]
      /\ sub' \in [Keys -> [status : {"none", "active", "expired"}, expires : Nat]]
      /\ applied' \in [Keys -> Keys \union {NoKey}]
  BY <1>1, <1>2
<1>7. TypeOK'
  BY <1>1, <1>5, <1>6 DEF IInv, TypeOK
<1>8. \A j \in Keys : forPlan[j] \in Plans =>
        /\ PaidTime(j) \in Nat /\ PaidTime(j)' \in Nat
        /\ PaidTime(j)' = IF j = i THEN PaidTime(j) + Duration[forPlan[j]] ELSE PaidTime(j)
  BY <1>1, <1>2, <1>4, PaidTimeGrows
<1>9. \A j \in Keys : sub[j].status # "none" => forPlan[j] \in Plans /\ payment[j] = "succeeded"
  BY RowIsKnown
<1>10. i \in Keys /\ forPlan[i] \in Plans
  BY <1>2
<1>11. ASSUME NEW j \in Keys PROVE AppliedIsRight(j)'
  <2>1. AppliedIsRight(j)
    BY DEF IInv, RowsInv
  <2>2. CASE j = k
    <3>1. Owner[k] = Member(r)
      BY DEF Member
    <3> QED BY <1>1, <1>3, <1>6, <2>2, <3>1, KeysAssumption DEF AppliedIsRight
  <2>3. CASE j # k
    <3>1. applied[j] # NoKey => applied[j] \in Keys
      BY <1>2
    <3> QED BY <1>1, <1>6, <2>1, <2>3, <3>1 DEF AppliedIsRight
  <2> QED BY <2>2, <2>3
<1>12. ASSUME NEW j \in Keys PROVE RowIsRight(j)'
  <2> SUFFICES ASSUME sub'[j].status # "none" PROVE RowIsRight(j)'
    BY DEF RowIsRight
  <2>1. CASE j = i
    <3>1. applied'[i] = i
      <4>1. CASE i = k
        BY <1>6, <4>1
      <4>2. CASE i # k /\ sub[i].status # "none"
        BY <1>6, <4>2 DEF IInv, RowsInv, RowIsRight
      <4> QED BY <4>1, <4>2
    <3> DEFINE a == PaidTime(i)  b == PaidTime(i)'  d == Duration[call[r].plan]
    <3>2. a \in Nat /\ b \in Nat /\ b = a + d /\ d \in Nat /\ seen[r].until <= now + a + d
      BY <1>2, <1>8, <1>10
    <3> HIDE DEF a, b, d
    <3>3. seen[r].until <= now + b
      BY <1>2, <3>2
    <3>4. sub'[i].expires <= now' + PaidTime(i)'
      BY <1>1, <1>6, <3>3 DEF b
    <3> QED BY <2>1, <3>1, <3>4 DEF RowIsRight
  <2>2. CASE j # i
    <3>1. sub'[j] = sub[j] /\ sub[j].status # "none"
      BY <1>6, <2>2
    <3>2. applied[j] = j /\ sub[j].expires <= now + PaidTime(j)
      BY <3>1 DEF IInv, RowsInv, RowIsRight
    <3>3. PaidTime(j)' = PaidTime(j)
      BY <1>8, <1>9, <2>2, <3>1
    <3>4. j # k
      BY <1>4, <3>2, KeysAssumption
    <3> QED BY <1>1, <1>6, <3>1, <3>2, <3>3, <3>4 DEF RowIsRight
  <2> QED BY <2>1, <2>2
<1>13. OneActive'
  <2> SUFFICES ASSUME NEW a \in Keys, NEW b \in Keys,
                      sub'[a].status = "active", sub'[b].status = "active", Owner[a] = Owner[b]
               PROVE  a = b
    BY DEF OneActive
  <2>1. CASE a # i /\ b # i
    BY <1>6, <2>1 DEF IInv, RowsInv, OneActive
  <2>2. CASE a = i /\ b # i
    <3>1. b \in Active(Member(r))
      BY <1>6, <2>2 DEF Active
    <3> QED BY <2>2, <3>1
  <2>3. CASE b = i /\ a # i
    <3>1. a \in Active(Member(r))
      BY <1>6, <2>3 DEF Active
    <3> QED BY <2>3, <3>1
  <2> QED BY <2>1, <2>2, <2>3
<1>14. PlansAreKnown'
  BY <1>1, <1>6, <1>10, <1>2, <1>3 DEF IInv, RowsInv, PlansAreKnown
<1>15. ASSUME NEW s \in Sweeps, NEW j \in marked[s] PROVE sub'[j].status = "active"
  <2>1. j \in Keys /\ sub[j].status = "active" /\ j # i
    BY <1>15 DEF IInv, TypeOK, SweepInv, MarkedAreActive, Locked
  <2> QED BY <1>6, <2>1
<1>16. SweepInv'
  BY <1>1, <1>15, SweepsStay
<1>17. CallInv(r)'
  BY <1>5, <1>6 DEF CallInv, BuyerHasRow, SubscribedIsPaid, ReplayIsPaid, CreationIsRight, RenewalIsRight, Buying
<1>18. OneBuyerPerKey'
  BY <1>5, BuyersStay DEF Buying
<1> DEFINE Q == Requests \ {r}
<1>19. \A q \in Q : CallInv(q)'
  <2>1. Q \in SUBSET Requests
    OBVIOUS
  <2>2. \A q \in Q : pc'[q] = pc[q] /\ seen'[q] = seen[q] /\ result'[q] = result[q]
    BY <1>5
  <2>3. \A q \in Q : pc[q] \in Buying =>
          payment'[call[q].key] \in {"pending", "failed"} /\ forPlan'[call[q].key] = forPlan[call[q].key]
    <3> SUFFICES ASSUME NEW q \in Q, pc[q] \in Buying
                 PROVE payment'[call[q].key] \in {"pending", "failed"} /\ forPlan' = forPlan
      OBVIOUS
    <3>1. call[q].key # k /\ call[q].key \in Keys
      BY <1>3 DEF IInv, TypeOK, OneBuyerPerKey
    <3>2. payment[call[q].key] \in {"pending", "failed"}
      BY DEF IInv, CallInv, BuyerHasRow
    <3> QED BY <1>1, <1>6, <3>1, <3>2
  <2>4. \A j \in Keys : payment[j] = "succeeded" => payment'[j] = "succeeded"
    BY <1>6
  <2>5. \A j \in Keys : sub[j].status # "none" =>
           sub'[j].status # "none" /\ forPlan'[j] = forPlan[j] /\ PaidTime(j) <= PaidTime(j)'
    <3> SUFFICES ASSUME NEW j \in Keys, sub[j].status # "none"
                 PROVE  sub'[j].status # "none" /\ forPlan'[j] = forPlan[j] /\ PaidTime(j) <= PaidTime(j)'
      OBVIOUS
    <3>1. forPlan[j] \in Plans /\ Duration[forPlan[j]] \in Nat
      BY <1>9, PlanAssumption
    <3>2. PaidTime(j) <= PaidTime(j)'
      <4> DEFINE a == PaidTime(j)  b == PaidTime(j)'
      <4>1. a \in Nat /\ b \in Nat /\ b = IF j = i THEN a + Duration[forPlan[j]] ELSE a
        BY <1>8, <3>1
      <4> HIDE DEF a, b
      <4>2. a <= b
        BY <3>1, <4>1
      <4> QED BY <4>2 DEF a, b
    <3>3. sub'[j].status # "none"
      BY <1>6
    <3> QED BY <1>1, <3>2, <3>3
  <2>6. \A j \in Keys : sub[j].status # "none" => PaidTime(j)' \in Nat
    BY <1>8, <1>9
  <2>7. charged \subseteq charged' /\ now <= now' /\ call' = call
    BY <1>1, <1>2, <1>5
  <2> HIDE DEF Q
  <2> QED BY <1>7, <2>1, <2>2, <2>3, <2>4, <2>5, <2>6, <2>7, CallsStay
<1>20. \A q \in Requests : CallInv(q)'
  BY <1>17, <1>19
<1> QED BY <1>7, <1>11, <1>12, <1>13, <1>14, <1>16, <1>18, <1>20 DEF IInv, RowsInv

LEMMA CreateKeeps ==
  ASSUME IInv, NEW r \in Requests, Create(r)
  PROVE  IInv'
<1>1. CASE MemberTaken(r) /\ RollBack(r, "lost_race")
  BY <1>1, RollBackKeeps
<1>2. CASE ~MemberTaken(r) /\ Commit(r, call[r].key, "active")
  <2> DEFINE k == call[r].key
  <2>1. pc[r] = "creating"
    BY DEF Create
  <2>2. k \in Keys /\ call[r].plan \in Plans /\ now \in Nat /\ seen[r].until \in Nat
    BY DEF IInv, TypeOK
  <2>3. forPlan[k] = call[r].plan /\ Owner[k] = Member(r)
    BY <2>1 DEF IInv, CallInv, BuyerHasRow, Buying, Member
  <2>4. Active(Member(r)) = {}
    BY <1>2 DEF MemberTaken
  <2>5. k \notin Locked
    <3>1. sub[k].status # "active"
      BY <2>2, <2>3, <2>4 DEF Active
    <3> QED BY <3>1 DEF IInv, SweepInv, MarkedAreActive, Locked
  <2>6. PaidTime(k) \in Nat /\ Duration[call[r].plan] \in Nat
    BY <2>2, <2>3, PaidTimeIsNat DEF IInv, TypeOK
  <2>7. seen[r].until <= now + Duration[call[r].plan]
    BY <2>1 DEF IInv, CallInv, CreationIsRight
  <2>8. seen[r].until <= now + PaidTime(k) + Duration[call[r].plan]
    BY <2>2, <2>6, <2>7
  <2> QED BY <1>2, <2>1, <2>2, <2>3, <2>4, <2>5, <2>8, CommitKeeps
<1> QED BY <1>1, <1>2 DEF Create

LEMMA RenewKeeps ==
  ASSUME IInv, NEW r \in Requests, Renew(r)
  PROVE  IInv'
<1> DEFINE i == seen[r].row
<1>1. CASE ~StillActive(i) /\ RollBack(r, "error")
  BY <1>1, RollBackKeeps
<1>2. CASE StillActive(i) /\ Commit(r, i, sub[i].status)
  <2>1. pc[r] = "renewing" /\ i \notin Locked
    BY DEF Renew
  <2>2. /\ i \in Keys /\ sub[i].status = "active" /\ Owner[i] = Member(r)
        /\ forPlan[i] = call[r].plan
        /\ seen[r].until <= now + PaidTime(i) + Duration[call[r].plan]
    BY <1>2, <2>1 DEF IInv, CallInv, RenewalIsRight, StillActive
  <2>3. \A j \in Active(Member(r)) : j = i
    BY <2>2 DEF IInv, RowsInv, OneActive, Active
  <2> QED BY <1>2, <2>1, <2>2, <2>3, CommitKeeps
<1> QED BY <1>1, <1>2 DEF Renew

-----------------------------------------------------------------------------
(* Sweeps and time *)

\* All that steps that leave payments, rows and calls alone have to show.
LEMMA QuietStepKeeps ==
  ASSUME IInv, UNCHANGED <<money, subRows, callVars>>, TypeOK', now <= now', SweepInv'
  PROVE  IInv'
<1>1. /\ payment' = payment /\ forPlan' = forPlan /\ charged' = charged
      /\ sub' = sub /\ applied' = applied /\ expiries' = expiries
      /\ call' = call /\ pc' = pc /\ seen' = seen /\ result' = result
  BY DEF money, subRows, callVars
<1>2. OneBuyerPerKey' /\ PlansAreKnown'
  BY <1>1 DEF IInv, OneBuyerPerKey, RowsInv, PlansAreKnown
<1>3. /\ \A k \in Keys : AppliedIsRight(k)' /\ RowIsRight(k)'
      /\ OneActive'
      /\ \A i \in Keys : sub[i].status # "none" =>
           /\ sub'[i].status # "none" /\ forPlan'[i] = forPlan[i] /\ PaidTime(i) <= PaidTime(i)'
           /\ PaidTime(i)' \in Nat
  BY <1>1, RowsStay
<1>4. \A q \in Requests : pc[q] \in Buying => payment[call[q].key] \in {"pending", "failed"}
  BY DEF IInv, CallInv, BuyerHasRow
<1>5. \A q \in Requests : CallInv(q)'
  BY <1>1, <1>3, <1>4, CallsStay
<1> QED BY <1>2, <1>3, <1>5 DEF IInv, RowsInv

LEMMA ExpireListKeeps ==
  ASSUME IInv, NEW s \in Sweeps, ExpireList(s)
  PROVE  IInv'
<1>1. now' = now /\ marked' = marked /\ failures' = failures /\ UNCHANGED <<money, subRows, callVars>>
  BY DEF ExpireList
<1>2. PICK S \in SUBSET Lapsed : todo' = [todo EXCEPT ![s] = S]
  BY DEF ExpireList
<1>3. S \in SUBSET Keys
  BY DEF Lapsed
<1>4. todo' \in [Sweeps -> SUBSET Keys] /\ phase' \in [Sweeps -> {"idle", "marking"}]
  BY <1>2, <1>3 DEF IInv, TypeOK, ExpireList
<1>5. TypeOK' /\ now <= now'
  BY <1>1, <1>4 DEF IInv, TypeOK, money, subRows, callVars
<1>6. SweepInv'
  BY <1>1, SweepsStay DEF IInv, SweepInv, MarkedAreActive, subRows
<1> QED BY <1>1, <1>5, <1>6, QuietStepKeeps

LEMMA ExpireMarkKeeps ==
  ASSUME IInv, NEW s \in Sweeps, ExpireMark(s)
  PROVE  IInv'
<1>1. /\ now' = now /\ phase' = phase /\ failures' = failures
      /\ UNCHANGED <<money, subRows, callVars>> /\ sub' = sub
  BY DEF ExpireMark, subRows
<1>2. PICK i \in todo[s] \ Locked :
        /\ todo' = [todo EXCEPT ![s] = @ \ {i}]
        /\ marked' = [marked EXCEPT ![s] = IF Expirable(i) THEN @ \union {i} ELSE @]
  BY DEF ExpireMark
<1>3. /\ todo \in [Sweeps -> SUBSET Keys] /\ marked \in [Sweeps -> SUBSET Keys] /\ i \in Keys
  BY DEF IInv, TypeOK
<1>4. /\ todo' \in [Sweeps -> SUBSET Keys] /\ marked' \in [Sweeps -> SUBSET Keys]
      /\ marked'[s] \subseteq marked[s] \union {i}
      /\ i \in marked'[s] => sub[i].status = "active" \/ i \in marked[s]
      /\ \A t \in Sweeps \ {s} : marked'[t] = marked[t]
  BY <1>2, <1>3 DEF Expirable
<1>5. TypeOK' /\ now <= now'
  BY <1>1, <1>4 DEF IInv, TypeOK, money, subRows, callVars
<1>6. \A t \in Sweeps : i \notin marked[t]
  BY DEF Locked
<1>7. MarkedAreActive'
  BY <1>1, <1>4 DEF IInv, SweepInv, MarkedAreActive
<1>8. MarkedByOne'
  BY <1>4, <1>6 DEF IInv, SweepInv, MarkedByOne
<1> QED BY <1>1, <1>5, <1>7, <1>8, QuietStepKeeps DEF SweepInv

LEMMA ExpireAbortKeeps ==
  ASSUME IInv, NEW s \in Sweeps, ExpireAbort(s)
  PROVE  IInv'
<1>1. /\ now' = now /\ UNCHANGED <<money, subRows, callVars>> /\ sub' = sub
      /\ phase' = [phase EXCEPT ![s] = "idle"]
      /\ todo' = [todo EXCEPT ![s] = {}]
      /\ marked' = [marked EXCEPT ![s] = {}]
  BY DEF ExpireAbort, subRows
<1>2. failures' \in Nat
  BY DEF ExpireAbort, IInv, TypeOK
<1>3. TypeOK' /\ now <= now'
  BY <1>1, <1>2 DEF IInv, TypeOK, money, subRows, callVars
<1>4. \A t \in Sweeps : marked'[t] \subseteq marked[t]
  BY <1>1 DEF IInv, TypeOK
<1>5. SweepInv'
  BY <1>1, <1>4 DEF IInv, SweepInv, MarkedAreActive, MarkedByOne
<1> QED BY <1>1, <1>3, <1>5, QuietStepKeeps

LEMMA TickKeeps ==
  ASSUME IInv, Tick
  PROVE  IInv'
<1>1. /\ UNCHANGED <<money, subRows, callVars, sweepVars>> /\ marked' = marked /\ sub' = sub
      /\ now' = now + 1
  BY DEF Tick, sweepVars, subRows
<1>2. TypeOK' /\ now <= now'
  BY <1>1 DEF IInv, TypeOK, money, subRows, callVars, sweepVars
<1>3. SweepInv'
  BY <1>1, SweepsStay DEF IInv, SweepInv, MarkedAreActive
<1> QED BY <1>1, <1>2, <1>3, QuietStepKeeps

\* The rows a sweep has marked stop being active, and keep everything else.
LEMMA ExpireCommitKeeps ==
  ASSUME IInv, NEW s \in Sweeps, ExpireCommit(s)
  PROVE  IInv'
<1>1. /\ sub' = [k \in Keys |->
                   IF k \in marked[s] THEN [sub[k] EXCEPT !.status = "expired"] ELSE sub[k]]
      /\ expiries' = [k \in Keys |-> IF k \in marked[s] THEN expiries[k] + 1 ELSE expiries[k]]
      /\ phase' = [phase EXCEPT ![s] = "idle"] /\ marked' = [marked EXCEPT ![s] = {}]
      /\ todo' = todo /\ failures' = failures /\ now' = now /\ applied' = applied
      /\ payment' = payment /\ forPlan' = forPlan /\ charged' = charged
      /\ call' = call /\ pc' = pc /\ seen' = seen /\ result' = result
  BY DEF ExpireCommit, money, callVars
<1>2. sub \in [Keys -> [status : {"none", "active", "expired"}, expires : Nat]]
  BY DEF IInv, TypeOK
<1>3. \A k \in Keys :
        /\ sub'[k] \in [status : {"none", "active", "expired"}, expires : Nat]
        /\ sub'[k].expires = sub[k].expires
        /\ sub'[k].status = IF k \in marked[s] THEN "expired" ELSE sub[k].status
  BY <1>1, <1>2
<1>4. sub' \in [Keys -> [status : {"none", "active", "expired"}, expires : Nat]]
  BY <1>1, <1>3
<1>5. expiries' \in [Keys -> Nat]
  BY <1>1 DEF IInv, TypeOK
<1>6. TypeOK'
  BY <1>1, <1>4, <1>5 DEF IInv, TypeOK
<1>7. \A k \in Keys : k \in marked[s] => sub[k].status = "active"
  BY DEF IInv, SweepInv, MarkedAreActive
<1>8. \A k \in Keys : sub'[k].status = "none" <=> sub[k].status = "none"
  BY <1>3, <1>7
<1>9. ASSUME NEW i PROVE PaidTime(i)' = PaidTime(i)
  BY <1>1, PaidTimeStays
<1>10. ASSUME NEW k \in Keys PROVE AppliedIsRight(k)' /\ RowIsRight(k)'
  <2>1. AppliedIsRight(k) /\ RowIsRight(k)
    BY DEF IInv, RowsInv
  <2>2. applied[k] # NoKey => applied[k] \in Keys
    BY DEF IInv, TypeOK
  <2>3. AppliedIsRight(k)'
    BY <1>1, <1>8, <2>1, <2>2 DEF AppliedIsRight
  <2>4. RowIsRight(k)'
    BY <1>1, <1>3, <1>8, <1>9, <2>1 DEF RowIsRight
  <2> QED BY <2>3, <2>4
<1>11. OneActive'
  BY <1>3 DEF IInv, RowsInv, OneActive
<1>12. PlansAreKnown' /\ OneBuyerPerKey'
  BY <1>1 DEF IInv, RowsInv, PlansAreKnown, OneBuyerPerKey
<1>13. ASSUME NEW t \in Sweeps, NEW j \in marked'[t] PROVE sub'[j].status = "active"
  <2>1. marked \in [Sweeps -> SUBSET Keys]
    BY DEF IInv, TypeOK
  <2>2. t # s /\ j \in marked[t] /\ j \in Keys
    BY <1>1, <1>13, <2>1
  <2>3. j \notin marked[s]
    BY <2>2 DEF IInv, SweepInv, MarkedByOne
  <2> QED BY <1>3, <2>2, <2>3 DEF IInv, SweepInv, MarkedAreActive
<1>14. SweepInv'
  <2>1. \A t \in Sweeps : marked'[t] \subseteq marked[t]
    BY <1>1 DEF IInv, TypeOK
  <2> QED BY <1>13, <2>1 DEF IInv, SweepInv, MarkedAreActive, MarkedByOne
<1>15. ASSUME NEW i \in Keys, sub[i].status # "none"
       PROVE  sub'[i].status # "none" /\ forPlan'[i] = forPlan[i] /\ PaidTime(i) <= PaidTime(i)'
              /\ PaidTime(i)' \in Nat
  <2>1. PaidTime(i) \in Nat /\ PaidTime(i)' = PaidTime(i)
    BY <1>9, <1>15, RowIsKnown
  <2> QED BY <1>1, <1>8, <1>15, <2>1
<1>16. \A q \in Requests : CallInv(q)'
  <2>1. \A q \in Requests : pc[q] \in Buying => payment[call[q].key] \in {"pending", "failed"}
    BY DEF IInv, CallInv, BuyerHasRow
  <2>2. now <= now'
    BY <1>1 DEF IInv, TypeOK
  <2> QED BY <1>1, <1>6, <1>15, <2>1, <2>2, CallsStay
<1> QED BY <1>6, <1>10, <1>11, <1>12, <1>14, <1>16 DEF IInv, RowsInv

-----------------------------------------------------------------------------
(* The invariant *)

LEMMA InitKeeps ==
  ASSUME Init
  PROVE  IInv
<1>1. TypeOK
  BY DEF Init, TypeOK, Places, Answers
<1>2. \A r \in Requests : CallInv(r)
  BY DEF Init, CallInv, BuyerHasRow, SubscribedIsPaid, ReplayIsPaid, CreationIsRight,
         RenewalIsRight, Buying
<1>3. RowsInv
  BY DEF Init, RowsInv, PlansAreKnown, AppliedIsRight, RowIsRight, OneActive
<1>4. SweepInv /\ OneBuyerPerKey
  BY DEF Init, SweepInv, MarkedAreActive, MarkedByOne, OneBuyerPerKey, Buying
<1> QED BY <1>1, <1>2, <1>3, <1>4 DEF IInv

LEMMA StutterKeeps ==
  ASSUME IInv, UNCHANGED vars
  PROVE  IInv'
<1>1. UNCHANGED <<money, subRows, callVars, sweepVars>> /\ now' = now /\ marked' = marked /\ sub' = sub
  BY DEF vars, subRows, sweepVars
<1>2. TypeOK' /\ now <= now'
  BY <1>1 DEF IInv, TypeOK, money, subRows, callVars, sweepVars
<1>3. SweepInv'
  BY <1>1, SweepsStay DEF IInv, SweepInv, MarkedAreActive
<1> QED BY <1>1, <1>2, <1>3, QuietStepKeeps

LEMMA CallStepKeeps ==
  ASSUME IInv, NEW r \in Requests, CallStep(r)
  PROVE  IInv'
<1>1. CASE Lookup(r)
  BY <1>1, LookupKeeps
<1>2. CASE ReplayCompleted(r) \/ Check(r) \/ Decline(r)
  BY <1>2, CheckReplayDeclineKeep
<1>3. CASE Insert(r)
  BY <1>3, InsertKeeps
<1>4. CASE Charge(r)
  BY <1>4, ChargeKeeps
<1>5. CASE FinalizeFailure(r)
  BY <1>5, FinalizeFailureKeeps
<1>6. CASE ReadActive(r)
  BY <1>6, ReadActiveKeeps
<1>7. CASE Create(r)
  BY <1>7, CreateKeeps
<1>8. CASE Renew(r)
  BY <1>8, RenewKeeps
<1> QED BY <1>1, <1>2, <1>3, <1>4, <1>5, <1>6, <1>7, <1>8 DEF CallStep

LEMMA NextKeeps ==
  ASSUME IInv, [Next]_vars
  PROVE  IInv'
<1>1. ASSUME NEW r \in Requests, CallStep(r) PROVE IInv'
  BY <1>1, CallStepKeeps
<1>2. ASSUME NEW r \in Requests, Crash(r) PROVE IInv'
  BY <1>2, RollBackKeeps DEF Crash
<1>3. ASSUME NEW k \in Keys, FailStale(k) PROVE IInv'
  BY <1>3, FailStaleKeeps
<1>4. ASSUME NEW s \in Sweeps, SweepStep(s) PROVE IInv'
  BY <1>4, ExpireListKeeps, ExpireMarkKeeps, ExpireCommitKeeps, ExpireAbortKeeps DEF SweepStep
<1>5. CASE Tick
  BY <1>5, TickKeeps
<1>6. CASE UNCHANGED vars
  BY <1>6, StutterKeeps
<1> QED BY <1>1, <1>2, <1>3, <1>4, <1>5, <1>6 DEF Next

\* The invariant holds in every state the service reaches.
LEMMA Inductive == Spec => []IInv
<1>1. Init => IInv
  BY InitKeeps
<1>2. IInv /\ [Next]_vars => IInv'
  BY NextKeeps
<1> QED BY <1>1, <1>2, PTL DEF Spec

-----------------------------------------------------------------------------
(* What a reader should know *)

\* Racing subscribes, renewals and sweeps leave a member at most one active
\* subscription with a creator; and every variable keeps its type.
THEOREM OneEach == Spec => []OneActivePerMember
<1>1. IInv => OneActivePerMember
  BY DEF IInv, RowsInv, OneActive, OneActivePerMember
<1> QED BY <1>1, Inductive, PTL

\* A payment succeeds exactly when it has created or renewed a subscription of
\* its member and plan with its money taken, and no other call answers
\* "subscribed" (subscribe, resolveReplay and the two transactions).
THEOREM EveryPaymentIsApplied == Spec => []PaidIsApplied
<1>1. IInv => PaidIsApplied
  BY DEF IInv, RowsInv, CallInv, SubscribedIsPaid, AppliedIsRight, PaidIsApplied
<1> QED BY <1>1, Inductive, PTL

\* What is left of a subscription never exceeds the periods paid for it:
\* renewals that race, replay or retry add no period of their own.
THEOREM NoTimeIsFree == Spec => []NoFreeTime
<1>1. IInv => NoFreeTime
  BY DEF IInv, RowsInv, RowIsRight, PaidTime, Payers, NoFreeTime
<1> QED BY <1>1, Inductive, PTL

\* An expired row is never written again, by a renewal that was waiting for
\* the sweep or by another sweep, and it is audited once.
THEOREM ExpiryIsFinal == Spec => ExpiredIsFinal
<1> DEFINE Final == \A k \in Keys : sub[k].status = "expired" =>
                      sub'[k] = sub[k] /\ expiries'[k] = expiries[k]
<1>1. ASSUME IInv, [Next]_vars PROVE Final
  <2> SUFFICES ASSUME NEW k \in Keys, sub[k].status = "expired"
               PROVE  sub'[k] = sub[k] /\ expiries'[k] = expiries[k]
    OBVIOUS
  <2>1. sub \in [Keys -> [status : {"none", "active", "expired"}, expires : Nat]]
        /\ expiries \in [Keys -> Nat]
    BY <1>1 DEF IInv, TypeOK
  <2>2. CASE UNCHANGED subRows
    BY <2>2 DEF subRows
  <2>3. ASSUME NEW r \in Requests, NEW i, NEW status, Commit(r, i, status), i # k
        PROVE  sub'[k] = sub[k] /\ expiries'[k] = expiries[k]
    BY <2>1, <2>3 DEF Commit
  <2>4. ASSUME NEW r \in Requests, Create(r)
        PROVE  sub'[k] = sub[k] /\ expiries'[k] = expiries[k]
    <3>1. CASE RollBack(r, "lost_race")
      BY <2>2, <3>1 DEF RollBack
    <3>2. CASE Commit(r, call[r].key, "active")
      <4>1. pc[r] = "creating" /\ call[r].key \in Keys
        BY <1>1, <2>4 DEF Create, IInv, TypeOK
      <4>2. payment[call[r].key] \in {"pending", "failed"}
        BY <1>1, <4>1 DEF IInv, CallInv, BuyerHasRow, Buying
      <4>3. call[r].key # k
        BY <1>1, <4>2, RowIsKnown
      <4> QED BY <2>3, <3>2, <4>3
    <3> QED BY <2>4, <3>1, <3>2 DEF Create
  <2>5. ASSUME NEW r \in Requests, Renew(r)
        PROVE  sub'[k] = sub[k] /\ expiries'[k] = expiries[k]
    <3>1. CASE RollBack(r, "error")
      BY <2>2, <3>1 DEF RollBack
    <3>2. CASE StillActive(seen[r].row) /\ Commit(r, seen[r].row, sub[seen[r].row].status)
      <4>1. seen[r].row # k
        BY <3>2 DEF StillActive
      <4> QED BY <2>3, <3>2, <4>1
    <3> QED BY <2>5, <3>1, <3>2 DEF Renew
  <2>6. ASSUME NEW s \in Sweeps, ExpireCommit(s)
        PROVE  sub'[k] = sub[k] /\ expiries'[k] = expiries[k]
    <3>1. k \notin marked[s]
      BY <1>1 DEF IInv, SweepInv, MarkedAreActive
    <3> QED BY <2>6, <3>1 DEF ExpireCommit
  <2>7. ASSUME NEW r \in Requests, CallStep(r) \/ Crash(r)
        PROVE  sub'[k] = sub[k] /\ expiries'[k] = expiries[k]
    BY <2>2, <2>4, <2>5, <2>7 DEF CallStep, Crash, RollBack, Lookup, ReplayCompleted, Check, Insert,
       Charge, Decline, FinalizeFailure, ReadActive
  <2>8. ASSUME NEW s \in Sweeps, SweepStep(s)
        PROVE  sub'[k] = sub[k] /\ expiries'[k] = expiries[k]
    BY <2>2, <2>6, <2>8 DEF SweepStep, ExpireList, ExpireMark, ExpireAbort
  <2>9. CASE UNCHANGED vars
    BY <2>2, <2>9 DEF vars
  <2>10. ASSUME NEW j \in Keys, FailStale(j)
         PROVE  sub'[k] = sub[k] /\ expiries'[k] = expiries[k]
    BY <2>2, <2>10 DEF FailStale
  <2>11. CASE Tick
    BY <2>2, <2>11 DEF Tick
  <2> QED BY <1>1, <2>7, <2>8, <2>9, <2>10, <2>11 DEF Next
<1>2. IInv /\ [Next]_vars => [Final]_vars
  BY <1>1
<1>3. ExpiredIsFinal <=> [][Final]_vars
  BY DEF ExpiredIsFinal
<1> HIDE DEF Final
<1> QED BY <1>2, <1>3, Inductive, PTL DEF Spec
=============================================================================

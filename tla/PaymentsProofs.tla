--------------------------- MODULE PaymentsProofs ---------------------------
(***************************************************************************)
(* What Payments keeps for every set of calls, keys, drops and sweepers.   *)
(* The argument rests on one fact: from its insert to its dispatch a call  *)
(* is the only one that holds its key, so nobody else charges it, and the  *)
(* row it will finalize is pending or, after a sweep, failed.              *)
(***************************************************************************)
EXTENDS Payments, FiniteSetTheorems, TLAPS

\* A call between the commit of its TX1 and the commit of its TX2.
Open(r) == pc[r] \in {"provider", "charged", "declined"}
\* The same, and until its event is dispatched.
Holds(r) == Open(r) \/ pc[r] \in {"unlocked", "failed"}

\* Events committed and not handed to the handlers yet.
CallOwes(k) ==
  IF \E r \in Requests : pc[r] = "failed" /\ call[r].key = k THEN 1 ELSE 0
SweepOwes(k) ==
  IF \E s \in Sweeps : phase[s] = "dispatching" /\ k \in todo[s] THEN 1 ELSE 0

OneHolder ==
  \A r, q \in Requests :
    Holds(r) /\ Holds(q) /\ call[r].key = call[q].key => r = q

RowOfCall ==
  \A r \in Requests :
    LET k == call[r].key IN
    /\ Holds(r) => payment[k] # "none" /\ forDrop[k] = call[r].drop
    /\ Open(r) => /\ payment[k] \in {"pending", "failed"}
                  /\ charges[k] = IF pc[r] = "charged" THEN 1 ELSE 0
                  /\ audit[k]["failed_by_user"] = 0
    /\ pc[r] = "unlocked" => /\ payment[k] = "succeeded"
                             /\ notices[k]["PurchaseCompleted"] = 0
    /\ pc[r] = "replay" => payment[k] = "succeeded" /\ forDrop[k] = call[r].drop

NoRow ==
  \A k \in Keys : payment[k] = "none" => charges[k] = 0 /\ purchase[k] = "none"

SweepRows ==
  /\ \A s \in Sweeps : marked[s] # {} => phase[s] = "marking"
  /\ \A s \in Sweeps : \A k \in marked[s] : payment[k] = "pending"
  /\ \A s \in Sweeps : \A k \in todo[s] : payment[k] # "none"
  /\ \A s \in Sweeps : phase[s] = "dispatching" =>
       \A k \in todo[s] : payment[k] # "pending"
  /\ \A s, t \in Sweeps : s # t => marked[s] \cap marked[t] = {}
  /\ \A s, t \in Sweeps :
       s # t /\ phase[s] = "dispatching" /\ phase[t] = "dispatching" =>
         todo[s] \cap todo[t] = {}

EventsOwed ==
  \A k \in Keys :
    /\ notices[k]["PurchaseCompleted"] <= audit[k]["succeeded"]
    /\ notices[k]["PaymentFailed"] + CallOwes(k) + SweepOwes(k)
             <= audit[k]["failed_by_user"] + audit[k]["failed_by_job"]

\* Of the two failures a payment can be given, the job gives one at most.
SweepFailsOnce == \A k \in Keys : audit[k]["failed_by_job"] <= 1

IInv ==
  /\ TypeOK
  /\ OneHolder
  /\ RowOfCall
  /\ NoRow
  /\ SweepRows
  /\ EventsOwed
  /\ ChargedAtMostOnce
  /\ PaidIsUnlocked
  /\ AuditExplainsStatus
  /\ SweepFailsOnce

-----------------------------------------------------------------------------
(* Type correctness *)

LEMMA RankIsNat == Cardinality(Created) \in Nat
  BY KeysAssumption, FS_Subset, FS_CardinalityType DEF Created

LEMMA CallIsTyped ==
  ASSUME TypeOK, NEW r \in Requests
  PROVE  call[r].key \in Keys /\ call[r].drop \in Drops
  BY DEF TypeOK

LEMMA GotoTypes ==
  ASSUME TypeOK, NEW r \in Requests, NEW w \in Places, Goto(r, w)
  PROVE  pc' \in [Requests -> Places] /\ UNCHANGED <<call, result>>
  BY DEF TypeOK, Goto

LEMMA ReturnTypes ==
  ASSUME TypeOK, NEW r \in Requests, NEW a \in Answers, Return(r, a)
  PROVE  /\ pc' \in [Requests -> Places] /\ result' \in [Requests -> Answers]
         /\ UNCHANGED call
<1>1. "done" \in Places
  BY DEF Places
<1> QED
  BY <1>1 DEF TypeOK, Return

LEMMA RecordTypes ==
  ASSUME TypeOK, NEW S, NEW a \in AuditActions, Record(S, a)
  PROVE  audit' \in [Keys -> [AuditActions -> Nat]]
<1>1. ASSUME NEW k \in Keys
      PROVE  [audit[k] EXCEPT ![a] = @ + 1] \in [AuditActions -> Nat]
  BY DEF TypeOK
<1> QED
  BY <1>1 DEF TypeOK, Record

LEMMA EmitTypes ==
  ASSUME TypeOK, NEW S, NEW e \in EventTypes, Emit(S, e)
  PROVE  notices' \in [Keys -> [EventTypes -> Nat]]
<1>1. ASSUME NEW k \in Keys
      PROVE  [notices[k] EXCEPT ![e] = @ + 1] \in [EventTypes -> Nat]
  BY DEF TypeOK
<1> QED
  BY <1>1 DEF TypeOK, Emit

LEMMA FailPairsTypes ==
  ASSUME TypeOK, NEW S, FailPairs(S)
  PROVE  /\ payment' \in [Keys -> Statuses \union {"succeeded"}]
         /\ purchase' \in [Keys -> Statuses \union {"completed"}]
         /\ UNCHANGED <<forDrop, age, rank>>
  BY DEF TypeOK, FailPairs, Statuses

\* Every step of a call keeps the types of the variables.
LEMMA CallTypes ==
  ASSUME TypeOK, NEW r \in Requests, CallStep(r) \/ Crash(r)
  PROVE  TypeOK'
<1>k. call[r].key \in Keys /\ call[r].drop \in Drops
  BY CallIsTyped
<1>p. {"lookup", "replay", "check", "insert", "provider", "charged",
       "declined", "unlocked", "failed", "done"} \subseteq Places
  BY DEF Places
<1>a. {"unlocked", "no_grant", "payment_failed", "conflict",
       "already_owned", "refused", "error"} \subseteq Answers
  BY DEF Answers
<1>1. CASE Lookup(r)
  <2>1. pc' \in [Requests -> Places] /\ result' \in [Requests -> Answers]
        /\ UNCHANGED call
    <3>1. CASE Goto(r, "check") \/ Goto(r, "replay")
      BY <3>1, <1>p, GotoTypes DEF TypeOK
    <3>2. CASE Return(r, "conflict") \/ Return(r, "payment_failed")
      BY <3>2, <1>a, ReturnTypes
    <3> QED
      BY <3>1, <3>2, <1>1 DEF Lookup
  <2> QED
    BY <1>1, <2>1 DEF Lookup, TypeOK, rows, sweepVars
<1>2. CASE ReplayCompleted(r)
  <2>1. pc' \in [Requests -> Places] /\ result' \in [Requests -> Answers]
        /\ UNCHANGED call
    BY <1>2, <1>a, ReturnTypes DEF ReplayCompleted
  <2> QED
    BY <1>2, <2>1 DEF ReplayCompleted, TypeOK, rows, sweepVars
<1>3. CASE Check(r)
  <2>1. pc' \in [Requests -> Places] /\ result' \in [Requests -> Answers]
        /\ UNCHANGED call
    <3>1. CASE Goto(r, "insert")
      BY <3>1, <1>p, GotoTypes DEF TypeOK
    <3>2. CASE Return(r, "refused") \/ Return(r, "already_owned")
      BY <3>2, <1>a, ReturnTypes
    <3> QED
      BY <3>1, <3>2, <1>3 DEF Check
  <2> QED
    BY <1>3, <2>1 DEF Check, TypeOK, rows, sweepVars
<1>4. CASE Insert(r)
  <2>1. CASE ~KeyTaken(r)
    <3>1. Goto(r, "provider")
      BY <1>4, <2>1 DEF Insert
    <3>2. pc' \in [Requests -> Places] /\ UNCHANGED <<call, result>>
      BY <3>1, <1>p, GotoTypes
    <3>3. "pending" \in Statuses
      BY DEF Statuses
    <3>4. /\ payment' \in [Keys -> Statuses \union {"succeeded"}]
          /\ purchase' \in [Keys -> Statuses \union {"completed"}]
      <4>1. /\ payment' = [payment EXCEPT ![call[r].key] = "pending"]
            /\ purchase' = [purchase EXCEPT ![call[r].key] = "pending"]
        BY <1>4, <2>1 DEF Insert
      <4> QED
        BY <4>1, <1>k, <3>3 DEF TypeOK
    <3>5. forDrop' \in [Keys -> Drops \union {NoDrop}]
      BY <1>4, <2>1, <1>k DEF Insert, TypeOK
    <3>6. rank' \in [Keys -> Nat]
      BY <1>4, <2>1, <1>k, RankIsNat DEF Insert, TypeOK
    <3> QED
      BY <1>4, <2>1, <3>2, <3>4, <3>5, <3>6 DEF Insert, TypeOK, sweepVars
  <2>2. CASE KeyTaken(r)
    <3>1. Return(r, "error") /\ UNCHANGED rows
      BY <1>4, <2>2 DEF Insert
    <3> QED
      BY <1>4, <3>1, <1>a, ReturnTypes DEF Insert, TypeOK, rows, sweepVars
  <2> QED
    BY <2>1, <2>2
<1>5. CASE Charge(r)
  <2>1. charges' \in [Keys -> Nat]
    BY <1>5, <1>k DEF Charge, TypeOK
  <2>2. pc' \in [Requests -> Places] /\ UNCHANGED <<call, result>>
    BY <1>5, <1>p, GotoTypes DEF Charge
  <2> QED
    BY <1>5, <2>1, <2>2 DEF Charge, TypeOK, rows, sweepVars
<1>6. CASE Decline(r)
  <2>1. pc' \in [Requests -> Places] /\ UNCHANGED <<call, result>>
    BY <1>6, <1>p, GotoTypes DEF Decline
  <2> QED
    BY <1>6, <2>1 DEF Decline, TypeOK, rows, sweepVars
<1>7. CASE Finalize(r)
  <2>1. CASE ~GrantTaken(r)
    <3>1. Goto(r, "unlocked") /\ Record({call[r].key}, "succeeded")
      BY <1>7, <2>1 DEF Finalize
    <3>2. pc' \in [Requests -> Places] /\ UNCHANGED <<call, result>>
      BY <3>1, <1>p, GotoTypes
    <3>3. audit' \in [Keys -> [AuditActions -> Nat]]
      BY <3>1, RecordTypes DEF AuditActions
    <3>4. /\ payment' \in [Keys -> Statuses \union {"succeeded"}]
          /\ purchase' \in [Keys -> Statuses \union {"completed"}]
      BY <1>7, <2>1, <1>k DEF Finalize, TypeOK
    <3>5. grants' \subseteq Grant
      <4>1. User(r) \in Users
        BY <1>k, OwnerAssumption DEF User
      <4>2. NewGrant(r) \subseteq Grant
        BY <4>1, <1>k DEF NewGrant, Grant
      <4> QED
        BY <1>7, <2>1, <4>2 DEF Finalize, TypeOK
    <3> QED
      BY <1>7, <2>1, <3>2, <3>3, <3>4, <3>5 DEF Finalize, TypeOK, sweepVars
  <2>2. CASE GrantTaken(r)
    <3>1. Return(r, "error") /\ UNCHANGED <<rows, grants, audit>>
      BY <1>7, <2>2 DEF Finalize
    <3> QED
      BY <1>7, <3>1, <1>a, ReturnTypes DEF Finalize, TypeOK, rows, sweepVars
  <2> QED
    BY <2>1, <2>2
<1>8. CASE FinalizeFailure(r)
  <2>1. /\ FailPairs({call[r].key}) /\ Record({call[r].key}, "failed_by_user")
        /\ Goto(r, "failed") /\ UNCHANGED <<grants, charges, notices, sweepVars>>
    BY <1>8 DEF FinalizeFailure
  <2>2. audit' \in [Keys -> [AuditActions -> Nat]]
    BY <2>1, RecordTypes DEF AuditActions
  <2>3. pc' \in [Requests -> Places] /\ UNCHANGED <<call, result>>
    BY <2>1, <1>p, GotoTypes
  <2> QED
    BY <2>1, <2>2, <2>3, FailPairsTypes DEF TypeOK, sweepVars
<1>9. CASE Dispatch(r)
  <2>1. notices' \in [Keys -> [EventTypes -> Nat]]
    BY <1>9, EmitTypes DEF Dispatch, EventTypes
  <2>2. pc' \in [Requests -> Places] /\ result' \in [Requests -> Answers]
        /\ UNCHANGED call
    BY <1>9, <1>a, ReturnTypes DEF Dispatch
  <2> QED
    BY <1>9, <2>1, <2>2 DEF Dispatch, TypeOK, rows, sweepVars
<1>10. CASE Crash(r)
  <2>1. pc' \in [Requests -> Places] /\ result' \in [Requests -> Answers]
        /\ UNCHANGED call
    BY <1>10, <1>a, ReturnTypes DEF Crash
  <2> QED
    BY <1>10, <2>1 DEF Crash, TypeOK, rows, sweepVars
<1> QED
  BY <1>1, <1>2, <1>3, <1>4, <1>5, <1>6, <1>7, <1>8, <1>9, <1>10 DEF CallStep

\* So does every step of a sweep.
LEMMA SweepTypes ==
  ASSUME TypeOK, NEW s \in Sweeps, SweepStep(s) \/ SweepCrash(s)
  PROVE  TypeOK'
<1>1. CASE SweepList(s)
  BY <1>1 DEF SweepList, Oldest, Stale, TypeOK, rows, callVars
<1>2. CASE SweepMark(s)
  BY <1>2 DEF SweepMark, NextRow, Oldest, TypeOK, rows, callVars
<1>3. CASE SweepCommit(s)
  <2>1. FailPairs(marked[s]) /\ Record(marked[s], "failed_by_job")
    BY <1>3 DEF SweepCommit
  <2>2. audit' \in [Keys -> [AuditActions -> Nat]]
    BY <2>1, RecordTypes DEF AuditActions
  <2> QED
    BY <1>3, <2>1, <2>2, FailPairsTypes DEF SweepCommit, TypeOK, callVars
<1>4. CASE SweepDispatch(s)
  <2>1. notices' \in [Keys -> [EventTypes -> Nat]]
    <3>1. CASE UNCHANGED notices
      BY <3>1 DEF TypeOK
    <3>2. CASE \E k \in NextRow(s) : Emit({k}, "PaymentFailed")
      BY <3>2, EmitTypes DEF EventTypes
    <3> QED
      BY <1>4, <3>1, <3>2 DEF SweepDispatch
  <2> QED
    BY <1>4, <2>1 DEF SweepDispatch, TypeOK, rows, callVars
<1>5. CASE SweepCrash(s)
  BY <1>5 DEF SweepCrash, TypeOK, rows, callVars
<1> QED
  BY <1>1, <1>2, <1>3, <1>4, <1>5 DEF SweepStep

LEMMA TypesPreserved ==
  TypeOK /\ [Next]_vars => TypeOK'
<1> SUFFICES ASSUME TypeOK, [Next]_vars PROVE TypeOK'
  OBVIOUS
<1>1. CASE Tick
  BY <1>1 DEF TypeOK, Tick, callVars, sweepVars
<1>2. CASE UNCHANGED vars
  BY <1>2 DEF TypeOK, vars, rows, callVars, sweepVars
<1> QED
  BY <1>1, <1>2, CallTypes, SweepTypes DEF Next

LEMMA InitTypes == Init => TypeOK
<1> SUFFICES ASSUME Init PROVE TypeOK
  OBVIOUS
<1>1. "none" \in Statuses /\ "none" \in Answers /\ "lookup" \in Places
  BY DEF Statuses, Answers, Places
<1> QED
  BY <1>1 DEF Init, TypeOK

\* The variables keep their types in every behaviour.
THEOREM TypeCorrect == Spec => []TypeOK
  BY InitTypes, TypesPreserved, PTL DEF Spec

-----------------------------------------------------------------------------
(* The inductive invariant *)

LEMMA CountTypes ==
  ASSUME TypeOK, NEW k \in Keys
  PROVE  /\ audit[k] \in [AuditActions -> Nat] /\ notices[k] \in [EventTypes -> Nat]
         /\ audit[k]["succeeded"] \in Nat
         /\ audit[k]["failed_by_user"] \in Nat
         /\ audit[k]["failed_by_job"] \in Nat
         /\ notices[k]["PurchaseCompleted"] \in Nat
         /\ notices[k]["PaymentFailed"] \in Nat
<1>1. audit[k] \in [AuditActions -> Nat] /\ notices[k] \in [EventTypes -> Nat]
  BY DEF TypeOK
<1> QED
  BY <1>1 DEF AuditActions, EventTypes

\* A step that only moves one call, to a place that owes nothing new.
LEMMA QuietCallStep ==
  ASSUME IInv, TypeOK', NEW r \in Requests,
         NEW w \in {"check", "insert", "replay", "declined", "done"},
         pc' = [pc EXCEPT ![r] = w],
         w = "declined" => pc[r] = "provider",
         w = "replay" => /\ payment[call[r].key] = "succeeded"
                         /\ forDrop[call[r].key] = call[r].drop,
         UNCHANGED <<call, payment, purchase, forDrop, grants, audit, charges,
                     notices, phase, todo, marked>>
  PROVE  IInv'
<1>1. ASSUME NEW q \in Requests
      PROVE  /\ q # r => pc'[q] = pc[q]
             /\ pc'[r] = w
  BY DEF IInv, TypeOK
<1>2. ASSUME NEW q \in Requests, Holds(q)' PROVE Holds(q)
  BY <1>1, <1>2 DEF Holds, Open
<1>3. OneHolder'
  BY <1>2 DEF IInv, OneHolder
<1>4. RowOfCall'
  <2> SUFFICES ASSUME NEW q \in Requests
               PROVE  LET k == call'[q].key IN
                      /\ Holds(q)' => payment'[k] # "none" /\ forDrop'[k] = call'[q].drop
                      /\ Open(q)' =>
                           /\ payment'[k] \in {"pending", "failed"}
                           /\ charges'[k] = IF pc'[q] = "charged" THEN 1 ELSE 0
                           /\ audit'[k]["failed_by_user"] = 0
                      /\ pc'[q] = "unlocked" => /\ payment'[k] = "succeeded"
                                                /\ notices'[k]["PurchaseCompleted"] = 0
                      /\ pc'[q] = "replay" =>
                           payment'[k] = "succeeded" /\ forDrop'[k] = call'[q].drop
    BY DEF RowOfCall
  <2>1. CASE q # r
    BY <2>1, <1>1 DEF IInv, RowOfCall, Holds, Open
  <2>2. CASE q = r
    BY <2>2, <1>1 DEF IInv, RowOfCall, Holds, Open
  <2> QED
    BY <2>1, <2>2
<1>5. EventsOwed'
  <2> SUFFICES ASSUME NEW k \in Keys
               PROVE  /\ notices[k]["PurchaseCompleted"] <= audit[k]["succeeded"]
                      /\ notices[k]["PaymentFailed"] + CallOwes(k)' + SweepOwes(k)'
                           <= audit[k]["failed_by_user"] + audit[k]["failed_by_job"]
    BY DEF EventsOwed
  <2>1. /\ CallOwes(k) \in {0, 1} /\ CallOwes(k)' \in {0, 1}
        /\ CallOwes(k)' <= CallOwes(k)
    BY <1>1 DEF CallOwes
  <2>2. SweepOwes(k) \in {0, 1} /\ SweepOwes(k)' = SweepOwes(k)
    BY DEF SweepOwes
  <2>3. TypeOK
    BY DEF IInv
  <2>4. /\ notices[k]["PaymentFailed"] \in Nat
        /\ audit[k]["failed_by_user"] + audit[k]["failed_by_job"] \in Nat
    BY <2>3, CountTypes
  <2>5. /\ notices[k]["PurchaseCompleted"] <= audit[k]["succeeded"]
        /\ notices[k]["PaymentFailed"] + CallOwes(k) + SweepOwes(k)
              <= audit[k]["failed_by_user"] + audit[k]["failed_by_job"]
    BY DEF IInv, EventsOwed
  <2> QED
    BY <2>1, <2>2, <2>4, <2>5
<1>6. NoRow' /\ SweepRows'
  BY DEF IInv, NoRow, SweepRows
<1>7. ChargedAtMostOnce' /\ PaidIsUnlocked'
  BY DEF IInv, ChargedAtMostOnce, PaidIsUnlocked
<1>8. AuditExplainsStatus' /\ SweepFailsOnce'
  BY DEF IInv, AuditExplainsStatus, SweepFailsOnce
<1> QED
  BY <1>3, <1>4, <1>5, <1>6, <1>7, <1>8 DEF IInv

\* The insert of TX1: the call becomes the only holder of a fresh row.
LEMMA InsertStep ==
  ASSUME IInv, TypeOK', NEW r \in Requests, Insert(r), ~KeyTaken(r)
  PROVE  IInv'
<1> DEFINE k == call[r].key
<1>k. k \in Keys /\ call[r].drop \in Drops /\ TypeOK
  BY DEF IInv, TypeOK
<1>0. payment[k] = "none" /\ purchase[k] = "none" /\ charges[k] = 0
  BY <1>k DEF KeyTaken, Created, IInv, NoRow
<1>1. /\ payment' = [payment EXCEPT ![k] = "pending"]
      /\ purchase' = [purchase EXCEPT ![k] = "pending"]
      /\ forDrop' = [forDrop EXCEPT ![k] = call[r].drop]
      /\ pc' = [pc EXCEPT ![r] = "provider"]
      /\ UNCHANGED <<call, grants, audit, charges, notices, phase, todo, marked>>
  BY DEF Insert, Goto, sweepVars
<1>2. ASSUME NEW j \in Keys
      PROVE  /\ j # k => /\ payment'[j] = payment[j] /\ purchase'[j] = purchase[j]
                         /\ forDrop'[j] = forDrop[j]
             /\ payment'[k] = "pending" /\ purchase'[k] = "pending"
             /\ forDrop'[k] = call[r].drop
  BY <1>1, <1>k DEF TypeOK
<1>3. ASSUME NEW q \in Requests
      PROVE  (q # r => pc'[q] = pc[q]) /\ pc'[r] = "provider"
  BY <1>1, <1>k DEF TypeOK
<1>4. \A q \in Requests : Holds(q) => call[q].key # k
  BY <1>0 DEF IInv, RowOfCall
<1>5. pc[r] = "insert" /\ ~Holds(r)
  BY DEF Insert, Holds, Open
<1>6. \A q \in Requests : Holds(q)' => q = r \/ Holds(q)
  BY <1>3 DEF Holds, Open
<1>7. OneHolder'
  BY <1>1, <1>4, <1>6 DEF IInv, OneHolder
<1>8. RowOfCall'
  <2> SUFFICES ASSUME NEW q \in Requests
               PROVE  LET l == call[q].key IN
                      /\ Holds(q)' => payment'[l] # "none" /\ forDrop'[l] = call[q].drop
                      /\ Open(q)' =>
                           /\ payment'[l] \in {"pending", "failed"}
                           /\ charges[l] = IF pc'[q] = "charged" THEN 1 ELSE 0
                           /\ audit[l]["failed_by_user"] = 0
                      /\ pc'[q] = "unlocked" => /\ payment'[l] = "succeeded"
                                                /\ notices[l]["PurchaseCompleted"] = 0
                      /\ pc'[q] = "replay" =>
                           payment'[l] = "succeeded" /\ forDrop'[l] = call[q].drop
    BY <1>1 DEF RowOfCall
  <2>0. call[q].key \in Keys
    BY <1>k DEF TypeOK
  <2>1. CASE q = r
    <3>1. audit[k]["failed_by_user"] = 0
      BY <1>0, <1>k, CountTypes DEF IInv, AuditExplainsStatus
    <3> QED
      BY <2>1, <3>1, <1>0, <1>2, <1>3, <1>k DEF Holds, Open
  <2>2. CASE q # r /\ call[q].key # k
    BY <2>0, <2>2, <1>2, <1>3 DEF IInv, RowOfCall, Holds, Open
  <2>3. CASE q # r /\ call[q].key = k
    BY <2>3, <1>0, <1>3, <1>4 DEF IInv, RowOfCall, Holds, Open
  <2> QED
    BY <2>1, <2>2, <2>3
<1>9. NoRow' /\ ChargedAtMostOnce'
  BY <1>0, <1>1, <1>2 DEF IInv, NoRow, ChargedAtMostOnce
<1>10. SweepRows'
  <2>1. \A s \in Sweeps : k \notin marked[s] /\ k \notin todo[s]
    BY <1>0, <1>k DEF IInv, SweepRows
  <2>2. \A s \in Sweeps : marked[s] \subseteq Keys /\ todo[s] \subseteq Keys
    BY <1>k DEF TypeOK
  <2> QED
    BY <1>1, <1>2, <2>1, <2>2 DEF IInv, SweepRows
<1>11. EventsOwed'
  <2>1. ASSUME NEW j \in Keys
        PROVE  CallOwes(j)' = CallOwes(j) /\ SweepOwes(j)' = SweepOwes(j)
    BY <1>1, <1>3, <1>5 DEF CallOwes, SweepOwes
  <2> QED
    BY <1>1, <2>1 DEF IInv, EventsOwed
<1>12. PaidIsUnlocked'
  BY <1>0, <1>1, <1>2 DEF IInv, PaidIsUnlocked
<1>13. AuditExplainsStatus' /\ SweepFailsOnce'
  BY <1>0, <1>1, <1>2 DEF IInv, AuditExplainsStatus, SweepFailsOnce
<1> QED
  BY <1>7, <1>8, <1>9, <1>10, <1>11, <1>12, <1>13 DEF IInv

\* The provider takes the money of a call that has not been charged.
LEMMA ChargeStep ==
  ASSUME IInv, TypeOK', NEW r \in Requests, Charge(r)
  PROVE  IInv'
<1> DEFINE k == call[r].key
<1>k. k \in Keys /\ TypeOK
  BY DEF IInv, TypeOK
<1>1. /\ pc[r] = "provider"
      /\ charges' = [charges EXCEPT ![k] = @ + 1]
      /\ pc' = [pc EXCEPT ![r] = "charged"]
      /\ UNCHANGED <<call, payment, purchase, forDrop, grants, audit, notices,
                     phase, todo, marked>>
  BY DEF Charge, Goto, rows, sweepVars
<1>2. charges[k] = 0 /\ payment[k] \in {"pending", "failed"}
  BY <1>1 DEF IInv, RowOfCall, Open
<1>3. ASSUME NEW j \in Keys
      PROVE  (j # k => charges'[j] = charges[j]) /\ charges'[k] = 1
  BY <1>1, <1>2, <1>k DEF TypeOK
<1>4. ASSUME NEW q \in Requests
      PROVE  (q # r => pc'[q] = pc[q]) /\ pc'[r] = "charged"
  BY <1>1, <1>k DEF TypeOK
<1>5. \A q \in Requests : Holds(q)' <=> Holds(q)
  BY <1>1, <1>4 DEF Holds, Open
<1>6. OneHolder'
  BY <1>1, <1>5 DEF IInv, OneHolder
<1>7. \A q \in Requests : q # r /\ Holds(q) => call[q].key # k
  BY <1>1 DEF IInv, OneHolder, Holds, Open
<1>8. RowOfCall'
  <2> SUFFICES ASSUME NEW q \in Requests
               PROVE  LET l == call[q].key IN
                      /\ Holds(q)' => payment[l] # "none" /\ forDrop[l] = call[q].drop
                      /\ Open(q)' =>
                           /\ payment[l] \in {"pending", "failed"}
                           /\ charges'[l] = IF pc'[q] = "charged" THEN 1 ELSE 0
                           /\ audit[l]["failed_by_user"] = 0
                      /\ pc'[q] = "unlocked" => /\ payment[l] = "succeeded"
                                                /\ notices[l]["PurchaseCompleted"] = 0
                      /\ pc'[q] = "replay" =>
                           payment[l] = "succeeded" /\ forDrop[l] = call[q].drop
    BY <1>1 DEF RowOfCall
  <2>0. call[q].key \in Keys
    BY <1>k DEF TypeOK
  <2>1. CASE q = r
    BY <2>1, <1>1, <1>3, <1>4, <1>k DEF IInv, RowOfCall, Holds, Open
  <2>2. CASE q # r
    BY <2>0, <2>2, <1>3, <1>4, <1>7 DEF IInv, RowOfCall, Holds, Open
  <2> QED
    BY <2>1, <2>2
<1>9. NoRow' /\ ChargedAtMostOnce' /\ SweepRows'
  BY <1>1, <1>2, <1>3 DEF IInv, NoRow, ChargedAtMostOnce, SweepRows
<1>10. EventsOwed'
  <2>1. ASSUME NEW j \in Keys
        PROVE  CallOwes(j)' = CallOwes(j) /\ SweepOwes(j)' = SweepOwes(j)
    BY <1>1, <1>4 DEF CallOwes, SweepOwes
  <2> QED
    BY <1>1, <2>1 DEF IInv, EventsOwed
<1>11. PaidIsUnlocked'
  BY <1>1, <1>2, <1>3 DEF IInv, PaidIsUnlocked
<1>12. AuditExplainsStatus' /\ SweepFailsOnce'
  BY <1>1 DEF IInv, AuditExplainsStatus, SweepFailsOnce
<1> QED
  BY <1>6, <1>8, <1>9, <1>10, <1>11, <1>12 DEF IInv

LEMMA OtherCalls ==
  ASSUME IInv, NEW r \in Requests, NEW w, pc' = [pc EXCEPT ![r] = w]
  PROVE  /\ pc'[r] = w
         /\ \A q \in Requests : q # r => pc'[q] = pc[q]
  BY DEF IInv, TypeOK

LEMMA RecordCounts ==
  ASSUME TypeOK, NEW S, NEW a \in AuditActions, Record(S, a)
  PROVE  \A k \in Keys :
           /\ k \notin S => audit'[k] = audit[k]
           /\ k \in S => /\ audit'[k][a] = audit[k][a] + 1
                         /\ \A b \in AuditActions \ {a} : audit'[k][b] = audit[k][b]
  BY CountTypes DEF Record

LEMMA EmitCounts ==
  ASSUME TypeOK, NEW S, NEW e \in EventTypes, Emit(S, e)
  PROVE  \A k \in Keys :
           /\ k \notin S => notices'[k] = notices[k]
           /\ k \in S => /\ notices'[k][e] = notices[k][e] + 1
                         /\ \A f \in EventTypes \ {e} : notices'[k][f] = notices[k][f]
  BY CountTypes DEF Emit

\* TX2 commits a success: the row leaves the hands of the sweeps for good.
LEMMA FinalizeStep ==
  ASSUME IInv, TypeOK', NEW r \in Requests, Finalize(r), ~GrantTaken(r)
  PROVE  IInv'
<1> DEFINE k == call[r].key
<1>k. k \in Keys /\ TypeOK
  BY DEF IInv, TypeOK
<1>1. /\ pc[r] = "charged" /\ k \notin Locked
      /\ payment' = [payment EXCEPT ![k] = "succeeded"]
      /\ purchase' = [purchase EXCEPT ![k] = "completed"]
      /\ grants' = grants \union NewGrant(r)
      /\ Record({k}, "succeeded")
      /\ pc' = [pc EXCEPT ![r] = "unlocked"]
      /\ UNCHANGED <<call, forDrop, charges, notices, phase, todo, marked>>
  BY DEF Finalize, Goto, sweepVars
<1>2. payment[k] \in {"pending", "failed"} /\ charges[k] = 1 /\ forDrop[k] = call[r].drop
  BY <1>1 DEF IInv, RowOfCall, Open, Holds
<1>3. ASSUME NEW j \in Keys
      PROVE  /\ j # k => payment'[j] = payment[j] /\ purchase'[j] = purchase[j]
             /\ payment'[k] = "succeeded" /\ purchase'[k] = "completed"
  BY <1>1, <1>k DEF TypeOK
<1>4. pc'[r] = "unlocked" /\ \A q \in Requests : q # r => pc'[q] = pc[q]
  BY <1>1, OtherCalls
<1>5. ASSUME NEW j \in Keys
      PROVE  /\ j # k => audit'[j] = audit[j]
             /\ audit'[k]["succeeded"] = audit[k]["succeeded"] + 1
             /\ audit'[j]["failed_by_user"] = audit[j]["failed_by_user"]
             /\ audit'[j]["failed_by_job"] = audit[j]["failed_by_job"]
  BY <1>1, <1>k, RecordCounts DEF AuditActions
<1>6. audit[k]["succeeded"] = 0 /\ notices[k]["PurchaseCompleted"] = 0
  BY <1>2, <1>k, CountTypes DEF IInv, AuditExplainsStatus, EventsOwed
<1>7. OneHolder'
  <2>1. \A q \in Requests : Holds(q)' <=> Holds(q)
    BY <1>1, <1>4 DEF Holds, Open
  <2> QED
    BY <1>1, <2>1 DEF IInv, OneHolder
<1>8. RowOfCall'
  <2> SUFFICES ASSUME NEW q \in Requests
               PROVE  LET l == call[q].key IN
                      /\ Holds(q)' => payment'[l] # "none" /\ forDrop[l] = call[q].drop
                      /\ Open(q)' =>
                           /\ payment'[l] \in {"pending", "failed"}
                           /\ charges[l] = IF pc'[q] = "charged" THEN 1 ELSE 0
                           /\ audit'[l]["failed_by_user"] = 0
                      /\ pc'[q] = "unlocked" => /\ payment'[l] = "succeeded"
                                                /\ notices[l]["PurchaseCompleted"] = 0
                      /\ pc'[q] = "replay" =>
                           payment'[l] = "succeeded" /\ forDrop[l] = call[q].drop
    BY <1>1 DEF RowOfCall
  <2>0. call[q].key \in Keys
    BY <1>k DEF TypeOK
  <2>1. CASE q = r
    BY <2>1, <1>2, <1>3, <1>4, <1>6, <1>k DEF Holds, Open
  <2>2. CASE q # r
    <3>1. Holds(q) => call[q].key # k
      BY <2>2, <1>1 DEF IInv, OneHolder, Holds, Open
    <3> QED
      BY <2>0, <2>2, <3>1, <1>3, <1>4, <1>5 DEF IInv, RowOfCall, Holds, Open
  <2> QED
    BY <2>1, <2>2
<1>9. NoRow' /\ ChargedAtMostOnce'
  BY <1>1, <1>3 DEF IInv, NoRow, ChargedAtMostOnce
<1>10. SweepRows'
  <2>1. \A s \in Sweeps : k \notin marked[s]
    BY <1>1 DEF Locked
  <2>2. \A s \in Sweeps : marked[s] \subseteq Keys /\ todo[s] \subseteq Keys
    BY <1>k DEF TypeOK
  <2> QED
    BY <1>1, <1>3, <2>1, <2>2 DEF IInv, SweepRows
<1>11. EventsOwed'
  <2>1. ASSUME NEW j \in Keys
        PROVE  CallOwes(j)' = CallOwes(j) /\ SweepOwes(j)' = SweepOwes(j)
    BY <1>1, <1>4 DEF CallOwes, SweepOwes
  <2> SUFFICES ASSUME NEW j \in Keys
               PROVE  /\ notices[j]["PurchaseCompleted"] <= audit'[j]["succeeded"]
                      /\ notices[j]["PaymentFailed"] + CallOwes(j) + SweepOwes(j)
                           <= audit[j]["failed_by_user"] + audit[j]["failed_by_job"]
    BY <1>1, <1>5, <2>1 DEF EventsOwed
  <2> QED
    BY <1>5, <1>6, <1>k DEF IInv, EventsOwed
<1>12. PaidIsUnlocked'
  <2>1. NewGrant(r) = {[user |-> Owner[k], drop |-> forDrop[k], key |-> k]}
    BY <1>2 DEF NewGrant, User
  <2>2. \A g \in NewGrant(r) : g.user = Owner[k] /\ g.drop = forDrop[k] /\ g.key = k
    BY <2>1
  <2>3. \E g \in grants' : g.key = k
    BY <1>1, <2>1, <2>2
  <2>4. ~\E g \in grants : g.key = k
    BY <1>2, <1>k DEF IInv, PaidIsUnlocked
  <2> SUFFICES ASSUME NEW j \in Keys
               PROVE  /\ payment'[j] = "succeeded" <=> purchase'[j] = "completed"
                      /\ payment'[j] = "succeeded" <=> \E g \in grants' : g.key = j
                      /\ payment'[j] = "failed" <=> purchase'[j] = "failed"
                      /\ payment'[j] = "succeeded" => charges[j] = 1
                      /\ \A g \in grants' :
                           g.key = j => g.user = Owner[j] /\ g.drop = forDrop[j]
    BY <1>1 DEF PaidIsUnlocked
  <2>5. CASE j = k
    BY <2>5, <2>2, <2>3, <2>4, <1>1, <1>2, <1>3
  <2>6. CASE j # k
    <3>1. \A g \in grants' : g.key = j => g \in grants
      BY <2>6, <2>2, <1>1
    <3>2. grants \subseteq grants'
      BY <1>1
    <3> QED
      BY <2>6, <3>1, <3>2, <1>3 DEF IInv, PaidIsUnlocked
  <2> QED
    BY <2>5, <2>6
<1>13. AuditExplainsStatus' /\ SweepFailsOnce'
  <2> SUFFICES ASSUME NEW j \in Keys
               PROVE  /\ payment'[j] \in {"none", "pending"} =>
                           /\ audit'[j]["succeeded"] = 0
                           /\ audit[j]["failed_by_user"] + audit[j]["failed_by_job"] = 0
                      /\ payment'[j] = "failed" =>
                           /\ audit'[j]["succeeded"] = 0
                           /\ audit[j]["failed_by_user"] + audit[j]["failed_by_job"] > 0
                      /\ payment'[j] = "succeeded" => audit'[j]["succeeded"] = 1
                      /\ audit[j]["failed_by_job"] <= 1
    BY <1>5 DEF AuditExplainsStatus, SweepFailsOnce
  <2> QED
    BY <1>3, <1>5, <1>6 DEF IInv, AuditExplainsStatus, SweepFailsOnce
<1> QED
  BY <1>7, <1>8, <1>9, <1>10, <1>11, <1>12, <1>13 DEF IInv

LEMMA FailedRows ==
  ASSUME IInv, NEW S, FailPairs(S)
  PROVE  /\ forDrop' = forDrop
         /\ \A k \in Keys :
              /\ k \notin S => payment'[k] = payment[k] /\ purchase'[k] = purchase[k]
              /\ k \in S => payment'[k] = "failed" /\ purchase'[k] = "failed"
  BY DEF IInv, TypeOK, FailPairs

\* TX2 commits a failure, of a row a sweep may have failed already.
LEMMA FinalizeFailureStep ==
  ASSUME IInv, TypeOK', NEW r \in Requests, FinalizeFailure(r)
  PROVE  IInv'
<1> DEFINE k == call[r].key
<1>k. k \in Keys /\ TypeOK
  BY DEF IInv, TypeOK
<1>1. /\ pc[r] = "declined" /\ k \notin Locked
      /\ FailPairs({k})
      /\ Record({k}, "failed_by_user")
      /\ pc' = [pc EXCEPT ![r] = "failed"]
      /\ UNCHANGED <<call, grants, charges, notices, phase, todo, marked>>
  BY DEF FinalizeFailure, Goto, sweepVars
<1>2. payment[k] \in {"pending", "failed"} /\ forDrop[k] = call[r].drop
  BY <1>1 DEF IInv, RowOfCall, Open, Holds
<1>3. ASSUME NEW j \in Keys
      PROVE  /\ j # k => payment'[j] = payment[j] /\ purchase'[j] = purchase[j]
             /\ payment'[k] = "failed" /\ purchase'[k] = "failed"
             /\ forDrop'[j] = forDrop[j]
  BY <1>1, <1>k, FailedRows
<1>4. pc'[r] = "failed" /\ \A q \in Requests : q # r => pc'[q] = pc[q]
  BY <1>1, OtherCalls
<1>5. ASSUME NEW j \in Keys
      PROVE  /\ j # k => audit'[j] = audit[j]
             /\ audit'[k]["failed_by_user"] = audit[k]["failed_by_user"] + 1
             /\ audit'[j]["succeeded"] = audit[j]["succeeded"]
             /\ audit'[j]["failed_by_job"] = audit[j]["failed_by_job"]
  BY <1>1, <1>k, RecordCounts DEF AuditActions
<1>6. OneHolder'
  <2>1. \A q \in Requests : Holds(q)' <=> Holds(q)
    BY <1>1, <1>4 DEF Holds, Open
  <2> QED
    BY <1>1, <2>1 DEF IInv, OneHolder
<1>7. RowOfCall'
  <2> SUFFICES ASSUME NEW q \in Requests
               PROVE  LET l == call[q].key IN
                      /\ Holds(q)' => payment'[l] # "none" /\ forDrop'[l] = call[q].drop
                      /\ Open(q)' =>
                           /\ payment'[l] \in {"pending", "failed"}
                           /\ charges[l] = IF pc'[q] = "charged" THEN 1 ELSE 0
                           /\ audit'[l]["failed_by_user"] = 0
                      /\ pc'[q] = "unlocked" => /\ payment'[l] = "succeeded"
                                                /\ notices[l]["PurchaseCompleted"] = 0
                      /\ pc'[q] = "replay" =>
                           payment'[l] = "succeeded" /\ forDrop'[l] = call[q].drop
    BY <1>1 DEF RowOfCall
  <2>0. call[q].key \in Keys
    BY <1>k DEF TypeOK
  <2>1. CASE q = r
    BY <2>1, <1>2, <1>3, <1>4, <1>k DEF Holds, Open
  <2>2. CASE q # r
    <3>1. Holds(q) \/ pc[q] = "replay" => call[q].key # k
      BY <2>2, <1>1, <1>2 DEF IInv, OneHolder, RowOfCall, Holds, Open
    <3> QED
      BY <2>0, <2>2, <3>1, <1>3, <1>4, <1>5 DEF IInv, RowOfCall, Holds, Open
  <2> QED
    BY <2>1, <2>2
<1>8. NoRow' /\ ChargedAtMostOnce'
  BY <1>1, <1>3 DEF IInv, NoRow, ChargedAtMostOnce
<1>9. SweepRows'
  <2>1. \A s \in Sweeps : k \notin marked[s]
    BY <1>1 DEF Locked
  <2>2. \A s \in Sweeps : marked[s] \subseteq Keys /\ todo[s] \subseteq Keys
    BY <1>k DEF TypeOK
  <2> QED
    BY <1>1, <1>3, <2>1, <2>2 DEF IInv, SweepRows
<1>10. EventsOwed'
  <2> SUFFICES ASSUME NEW j \in Keys
               PROVE  /\ notices[j]["PurchaseCompleted"] <= audit[j]["succeeded"]
                      /\ notices[j]["PaymentFailed"] + CallOwes(j)' + SweepOwes(j)
                           <= audit'[j]["failed_by_user"] + audit[j]["failed_by_job"]
    BY <1>1, <1>5 DEF EventsOwed, SweepOwes
  <2>0. CallOwes(j) \in {0, 1} /\ CallOwes(j)' \in {0, 1} /\ SweepOwes(j) \in {0, 1}
    BY DEF CallOwes, SweepOwes
  <2>1. j # k => CallOwes(j)' = CallOwes(j)
    BY <1>1, <1>4 DEF CallOwes
  <2>2. /\ notices[j]["PaymentFailed"] \in Nat /\ audit[j]["failed_by_user"] \in Nat
        /\ audit[j]["failed_by_job"] \in Nat
    BY <1>k, CountTypes
  <2>3. CallOwes(k) = 0
    BY <1>1 DEF IInv, OneHolder, CallOwes, Holds, Open
  <2>4. /\ notices[j]["PurchaseCompleted"] <= audit[j]["succeeded"]
        /\ notices[j]["PaymentFailed"] + CallOwes(j) + SweepOwes(j)
             <= audit[j]["failed_by_user"] + audit[j]["failed_by_job"]
    BY DEF IInv, EventsOwed
  <2>5. CASE j = k
    BY <2>0, <2>2, <2>3, <2>4, <2>5, <1>5
  <2>6. CASE j # k
    BY <2>1, <2>4, <2>6, <1>5
  <2> QED
    BY <2>5, <2>6
<1>11. PaidIsUnlocked'
  BY <1>1, <1>2, <1>3 DEF IInv, PaidIsUnlocked
<1>12. AuditExplainsStatus' /\ SweepFailsOnce'
  <2> SUFFICES ASSUME NEW j \in Keys
               PROVE  LET n == audit'[j]["failed_by_user"] + audit[j]["failed_by_job"] IN
                      /\ payment'[j] \in {"none", "pending"} =>
                           audit[j]["succeeded"] = 0 /\ n = 0
                      /\ payment'[j] = "failed" => audit[j]["succeeded"] = 0 /\ n > 0
                      /\ payment'[j] = "succeeded" => audit[j]["succeeded"] = 1
                      /\ audit[j]["failed_by_job"] <= 1
    BY <1>5 DEF AuditExplainsStatus, SweepFailsOnce
  <2>1. audit[j]["failed_by_user"] \in Nat /\ audit[j]["failed_by_job"] \in Nat
    BY <1>k, CountTypes
  <2> QED
    BY <2>1, <1>2, <1>3, <1>5 DEF IInv, AuditExplainsStatus, SweepFailsOnce
<1> QED
  BY <1>6, <1>7, <1>8, <1>9, <1>10, <1>11, <1>12 DEF IInv

\* The events of a committed TX2 reach the handlers.
LEMMA DispatchStep ==
  ASSUME IInv, TypeOK', NEW r \in Requests, Dispatch(r)
  PROVE  IInv'
<1> DEFINE k == call[r].key
<1>k. k \in Keys /\ TypeOK
  BY DEF IInv, TypeOK
<1>1. /\ pc' = [pc EXCEPT ![r] = "done"]
      /\ UNCHANGED <<call, payment, purchase, forDrop, grants, audit, charges,
                     phase, todo, marked>>
  BY DEF Dispatch, Return, rows, sweepVars
<1>2. pc'[r] = "done" /\ \A q \in Requests : q # r => pc'[q] = pc[q]
  BY <1>1, OtherCalls
<1>3. \/ pc[r] = "unlocked" /\ Emit({k}, "PurchaseCompleted")
      \/ pc[r] = "failed" /\ Emit({k}, "PaymentFailed")
  BY DEF Dispatch
<1>4. ASSUME NEW j \in Keys
      PROVE  /\ j # k => notices'[j] = notices[j]
             /\ pc[r] = "unlocked" =>
                  /\ notices'[k]["PurchaseCompleted"] = notices[k]["PurchaseCompleted"] + 1
                  /\ notices'[k]["PaymentFailed"] = notices[k]["PaymentFailed"]
             /\ pc[r] = "failed" =>
                  /\ notices'[k]["PurchaseCompleted"] = notices[k]["PurchaseCompleted"]
                  /\ notices'[k]["PaymentFailed"] = notices[k]["PaymentFailed"] + 1
  BY <1>3, <1>k, EmitCounts DEF EventTypes
<1>5. \A q \in Requests : Holds(q) /\ q # r => call[q].key # k
  BY <1>3 DEF IInv, OneHolder, Holds
<1>6. \A q \in Requests : Holds(q)' => Holds(q) /\ q # r
  BY <1>2 DEF Holds, Open
<1>7. OneHolder'
  BY <1>1, <1>6 DEF IInv, OneHolder
<1>8. RowOfCall'
  <2> SUFFICES ASSUME NEW q \in Requests
               PROVE  LET l == call[q].key IN
                      /\ Holds(q)' => payment[l] # "none" /\ forDrop[l] = call[q].drop
                      /\ Open(q)' =>
                           /\ payment[l] \in {"pending", "failed"}
                           /\ charges[l] = IF pc'[q] = "charged" THEN 1 ELSE 0
                           /\ audit[l]["failed_by_user"] = 0
                      /\ pc'[q] = "unlocked" => /\ payment[l] = "succeeded"
                                                /\ notices'[l]["PurchaseCompleted"] = 0
                      /\ pc'[q] = "replay" =>
                           payment[l] = "succeeded" /\ forDrop[l] = call[q].drop
    BY <1>1 DEF RowOfCall
  <2>0. call[q].key \in Keys
    BY <1>k DEF TypeOK
  <2>1. CASE q = r
    BY <2>1, <1>2 DEF Holds, Open
  <2>2. CASE q # r
    BY <2>0, <2>2, <1>2, <1>4, <1>5 DEF IInv, RowOfCall, Holds, Open
  <2> QED
    BY <2>1, <2>2
<1>9. EventsOwed'
  <2> SUFFICES ASSUME NEW j \in Keys
               PROVE  /\ notices'[j]["PurchaseCompleted"] <= audit[j]["succeeded"]
                      /\ notices'[j]["PaymentFailed"] + CallOwes(j)' + SweepOwes(j)
                           <= audit[j]["failed_by_user"] + audit[j]["failed_by_job"]
    BY <1>1 DEF EventsOwed, SweepOwes
  <2>0. CallOwes(j) \in {0, 1} /\ CallOwes(j)' \in {0, 1} /\ SweepOwes(j) \in {0, 1}
    BY DEF CallOwes, SweepOwes
  <2>1. CallOwes(j)' <= CallOwes(j)
    BY <1>1, <1>2 DEF CallOwes
  <2>2. /\ notices[j]["PaymentFailed"] \in Nat /\ notices[j]["PurchaseCompleted"] \in Nat
        /\ audit[j]["failed_by_user"] \in Nat /\ audit[j]["failed_by_job"] \in Nat
        /\ audit[j]["succeeded"] \in Nat
    BY <1>k, CountTypes
  <2>4. /\ notices[j]["PurchaseCompleted"] <= audit[j]["succeeded"]
        /\ notices[j]["PaymentFailed"] + CallOwes(j) + SweepOwes(j)
             <= audit[j]["failed_by_user"] + audit[j]["failed_by_job"]
    BY DEF IInv, EventsOwed
  <2>5. CASE j # k
    BY <2>0, <2>1, <2>2, <2>4, <2>5, <1>4
  <2>6. CASE j = k /\ pc[r] = "unlocked"
    <3>1. notices[k]["PurchaseCompleted"] = 0 /\ audit[k]["succeeded"] = 1
      BY <2>6, <1>k DEF IInv, RowOfCall, AuditExplainsStatus
    <3> QED
      BY <2>0, <2>1, <2>2, <2>4, <2>6, <3>1, <1>4
  <2>7. CASE j = k /\ pc[r] = "failed"
    <3>1. CallOwes(j) = 1
      BY <2>7 DEF CallOwes
    <3>2. CallOwes(j)' = 0
      BY <2>7, <1>1, <1>2, <1>5 DEF CallOwes, Holds
    <3>3. /\ notices'[j]["PurchaseCompleted"] = notices[j]["PurchaseCompleted"]
          /\ notices'[j]["PaymentFailed"] = notices[j]["PaymentFailed"] + 1
      BY <2>7, <1>4
    <3> QED
      BY <2>0, <2>2, <2>4, <2>7, <3>1, <3>2, <3>3
  <2> QED
    BY <2>5, <2>6, <2>7, <1>3
<1>10. NoRow' /\ SweepRows' /\ ChargedAtMostOnce'
  BY <1>1 DEF IInv, NoRow, SweepRows, ChargedAtMostOnce
<1>11. PaidIsUnlocked'
  BY <1>1 DEF IInv, PaidIsUnlocked
<1>12. AuditExplainsStatus' /\ SweepFailsOnce'
  BY <1>1 DEF IInv, AuditExplainsStatus, SweepFailsOnce
<1> QED
  BY <1>7, <1>8, <1>9, <1>10, <1>11, <1>12 DEF IInv

\* A step of a sweep, or of time, that leaves the calls and the database alone.
LEMMA QuietSweepStep ==
  ASSUME IInv, TypeOK', SweepRows',
         UNCHANGED <<payment, purchase, forDrop, grants, audit, charges, notices,
                     call, pc>>,
         \A k \in Keys : SweepOwes(k)' <= SweepOwes(k)
  PROVE  IInv'
<1>1. OneHolder' /\ RowOfCall' /\ NoRow'
  BY DEF IInv, OneHolder, RowOfCall, NoRow, Holds, Open
<1>2. EventsOwed'
  <2> SUFFICES ASSUME NEW k \in Keys
               PROVE  /\ notices[k]["PurchaseCompleted"] <= audit[k]["succeeded"]
                      /\ notices[k]["PaymentFailed"] + CallOwes(k) + SweepOwes(k)'
                           <= audit[k]["failed_by_user"] + audit[k]["failed_by_job"]
    BY DEF EventsOwed, CallOwes
  <2>1. /\ CallOwes(k) \in {0, 1} /\ SweepOwes(k) \in {0, 1} /\ SweepOwes(k)' \in {0, 1}
        /\ SweepOwes(k)' <= SweepOwes(k)
    BY DEF CallOwes, SweepOwes
  <2>2. /\ notices[k]["PaymentFailed"] \in Nat
        /\ audit[k]["failed_by_user"] + audit[k]["failed_by_job"] \in Nat
    BY CountTypes DEF IInv
  <2> QED
    BY <2>1, <2>2 DEF IInv, EventsOwed
<1>3. ChargedAtMostOnce' /\ PaidIsUnlocked'
  BY DEF IInv, ChargedAtMostOnce, PaidIsUnlocked
<1>4. AuditExplainsStatus' /\ SweepFailsOnce'
  BY DEF IInv, AuditExplainsStatus, SweepFailsOnce
<1> QED
  BY <1>1, <1>2, <1>3, <1>4 DEF IInv

LEMMA SweepTyped ==
  ASSUME IInv
  PROVE  /\ phase \in [Sweeps -> {"idle", "marking", "dispatching"}]
         /\ todo \in [Sweeps -> SUBSET Keys] /\ marked \in [Sweeps -> SUBSET Keys]
  BY DEF IInv, TypeOK

LEMMA SweepListStep ==
  ASSUME IInv, TypeOK', NEW s \in Sweeps, SweepList(s)
  PROVE  IInv'
<1>1. /\ phase[s] = "idle"
      /\ phase' = [phase EXCEPT ![s] = "marking"]
      /\ todo' = [todo EXCEPT ![s] = Oldest(Stale, BatchSize)]
      /\ UNCHANGED <<payment, purchase, forDrop, grants, audit, charges, notices,
                     call, pc, marked>>
  BY DEF SweepList, rows, callVars
<1>2. /\ phase'[s] = "marking" /\ todo'[s] = Oldest(Stale, BatchSize)
      /\ \A t \in Sweeps : t # s => phase'[t] = phase[t] /\ todo'[t] = todo[t]
  BY <1>1, SweepTyped
<1>3. \A k \in todo'[s] : payment[k] # "none"
  BY <1>2 DEF Oldest, Stale
<1>4. SweepRows'
  BY <1>1, <1>2, <1>3 DEF IInv, SweepRows
<1>5. \A k \in Keys : SweepOwes(k)' <= SweepOwes(k)
  BY <1>1, <1>2 DEF SweepOwes
<1> QED
  BY <1>1, <1>4, <1>5, QuietSweepStep

LEMMA SweepMarkStep ==
  ASSUME IInv, TypeOK', NEW s \in Sweeps, SweepMark(s)
  PROVE  IInv'
<1>1. PICK k \in NextRow(s) :
        /\ k \notin Locked
        /\ todo' = [todo EXCEPT ![s] = @ \ {k}]
        /\ marked' = [marked EXCEPT ![s] = IF StillPending(k) THEN @ \union {k} ELSE @]
  BY DEF SweepMark
<1>2. /\ phase[s] = "marking"
      /\ UNCHANGED <<payment, purchase, forDrop, grants, audit, charges, notices,
                     call, pc, phase>>
  BY DEF SweepMark, rows, callVars
<1>3. /\ todo' = [todo EXCEPT ![s] = todo[s] \ {k}]
      /\ marked' = [marked EXCEPT
                      ![s] = IF StillPending(k) THEN marked[s] \union {k} ELSE marked[s]]
  BY <1>1
<1>4. /\ todo'[s] = todo[s] \ {k}
      /\ marked'[s] = IF StillPending(k) THEN marked[s] \union {k} ELSE marked[s]
      /\ \A t \in Sweeps : t # s => todo'[t] = todo[t] /\ marked'[t] = marked[t]
  BY <1>3, SweepTyped
<1>5. \A t \in Sweeps : k \notin marked[t]
  BY <1>1 DEF Locked
<1>6. marked'[s] \subseteq marked[s] \union {k}
      /\ (k \in marked'[s] => payment[k] = "pending")
  BY <1>4, <1>5 DEF StillPending
<1>7. SweepRows'
  <2>1. /\ \A t \in Sweeps : marked'[t] # {} => phase'[t] = "marking"
        /\ \A t \in Sweeps : \A j \in marked'[t] : payment'[j] = "pending"
    BY <1>2, <1>4, <1>6 DEF IInv, SweepRows
  <2>2. /\ \A t \in Sweeps : \A j \in todo'[t] : payment'[j] # "none"
        /\ \A t \in Sweeps : phase'[t] = "dispatching" =>
             \A j \in todo'[t] : payment'[j] # "pending"
    BY <1>2, <1>4 DEF IInv, SweepRows
  <2>3. \A t, u \in Sweeps : t # u => marked'[t] \cap marked'[u] = {}
    BY <1>4, <1>5, <1>6 DEF IInv, SweepRows
  <2>4. \A t, u \in Sweeps :
          t # u /\ phase'[t] = "dispatching" /\ phase'[u] = "dispatching" =>
            todo'[t] \cap todo'[u] = {}
    BY <1>2, <1>4 DEF IInv, SweepRows
  <2> QED
    BY <2>1, <2>2, <2>3, <2>4 DEF SweepRows
<1>8. \A j \in Keys : SweepOwes(j)' <= SweepOwes(j)
  BY <1>2, <1>4 DEF SweepOwes
<1> QED
  BY <1>2, <1>7, <1>8, QuietSweepStep

LEMMA SweepCrashStep ==
  ASSUME IInv, TypeOK', NEW s \in Sweeps, SweepCrash(s)
  PROVE  IInv'
<1>1. /\ phase' = [phase EXCEPT ![s] = "idle"]
      /\ todo' = [todo EXCEPT ![s] = {}]
      /\ marked' = [marked EXCEPT ![s] = {}]
      /\ UNCHANGED <<payment, purchase, forDrop, grants, audit, charges, notices,
                     call, pc>>
  BY DEF SweepCrash, rows, callVars
<1>2. /\ phase'[s] = "idle" /\ todo'[s] = {} /\ marked'[s] = {}
      /\ \A t \in Sweeps : t # s =>
           phase'[t] = phase[t] /\ todo'[t] = todo[t] /\ marked'[t] = marked[t]
  BY <1>1, SweepTyped
<1>3. SweepRows'
  BY <1>1, <1>2 DEF IInv, SweepRows
<1>4. \A k \in Keys : SweepOwes(k)' <= SweepOwes(k)
  BY <1>2 DEF SweepOwes
<1> QED
  BY <1>1, <1>3, <1>4, QuietSweepStep

\* A sweep commits: every row it marked is still pending, so fails this once.
LEMMA SweepCommitStep ==
  ASSUME IInv, TypeOK', NEW s \in Sweeps, SweepCommit(s)
  PROVE  IInv'
<1> DEFINE M == marked[s]
<1>1. /\ phase[s] = "marking"
      /\ FailPairs(M)
      /\ Record(M, "failed_by_job")
      /\ phase' = [phase EXCEPT ![s] = "dispatching"]
      /\ todo' = [todo EXCEPT ![s] = M]
      /\ marked' = [marked EXCEPT ![s] = {}]
      /\ UNCHANGED <<grants, charges, notices, call, pc>>
  BY DEF SweepCommit, callVars
<1>2. /\ phase'[s] = "dispatching" /\ todo'[s] = M /\ marked'[s] = {}
      /\ \A t \in Sweeps : t # s =>
           phase'[t] = phase[t] /\ todo'[t] = todo[t] /\ marked'[t] = marked[t]
  BY <1>1, SweepTyped
<1>3. TypeOK /\ M \subseteq Keys
  BY SweepTyped DEF IInv
<1>4. \A k \in Keys :
        /\ k \notin M => payment'[k] = payment[k] /\ purchase'[k] = purchase[k]
        /\ k \in M => payment[k] = "pending" /\ payment'[k] = "failed"
                      /\ purchase'[k] = "failed"
        /\ forDrop'[k] = forDrop[k]
  BY <1>1, FailedRows DEF IInv, SweepRows
<1>5. \A k \in Keys :
        /\ k \notin M => audit'[k]["failed_by_job"] = audit[k]["failed_by_job"]
        /\ k \in M => audit'[k]["failed_by_job"] = audit[k]["failed_by_job"] + 1
        /\ audit'[k]["succeeded"] = audit[k]["succeeded"]
        /\ audit'[k]["failed_by_user"] = audit[k]["failed_by_user"]
  BY <1>1, <1>3, RecordCounts DEF AuditActions
<1>6. \A k \in M : /\ audit[k]["failed_by_job"] = 0 /\ audit[k]["failed_by_user"] = 0
                   /\ audit[k]["succeeded"] = 0
  BY <1>3, <1>4, CountTypes DEF IInv, AuditExplainsStatus
<1>7. OneHolder' /\ NoRow' /\ ChargedAtMostOnce'
  BY <1>1, <1>4 DEF IInv, OneHolder, NoRow, ChargedAtMostOnce, Holds, Open
<1>8. RowOfCall'
  <2> SUFFICES ASSUME NEW q \in Requests
               PROVE  LET l == call[q].key IN
                      /\ Holds(q) => payment'[l] # "none" /\ forDrop'[l] = call[q].drop
                      /\ Open(q) =>
                           /\ payment'[l] \in {"pending", "failed"}
                           /\ charges[l] = IF pc[q] = "charged" THEN 1 ELSE 0
                           /\ audit'[l]["failed_by_user"] = 0
                      /\ pc[q] = "unlocked" => /\ payment'[l] = "succeeded"
                                               /\ notices[l]["PurchaseCompleted"] = 0
                      /\ pc[q] = "replay" =>
                           payment'[l] = "succeeded" /\ forDrop'[l] = call[q].drop
    BY <1>1 DEF RowOfCall, Holds, Open
  <2>0. call[q].key \in Keys
    BY <1>3 DEF TypeOK
  <2> QED
    BY <2>0, <1>4, <1>5 DEF IInv, RowOfCall
<1>9. SweepRows'
  <2>1. /\ \A t \in Sweeps : marked'[t] # {} => phase'[t] = "marking"
        /\ \A t \in Sweeps : marked'[t] \subseteq marked[t] /\ marked'[t] \cap M = {}
    BY <1>2 DEF IInv, SweepRows
  <2>2. \A t \in Sweeps : todo'[t] \subseteq Keys /\ marked[t] \subseteq Keys
                          /\ todo[t] \subseteq Keys
    BY <1>2, <1>3, SweepTyped
  <2>3. \A t \in Sweeps : \A k \in marked'[t] : payment'[k] = "pending"
    BY <2>1, <2>2, <1>4 DEF IInv, SweepRows
  <2>4. \A t \in Sweeps : \A k \in todo'[t] : payment'[k] # "none"
    BY <2>2, <1>2, <1>4 DEF IInv, SweepRows
  <2>5. \A t \in Sweeps : phase'[t] = "dispatching" =>
          \A k \in todo'[t] : payment'[k] # "pending"
    BY <2>2, <1>2, <1>4 DEF IInv, SweepRows
  <2>6. \A t, u \in Sweeps : t # u => marked'[t] \cap marked'[u] = {}
    BY <2>1 DEF IInv, SweepRows
  <2>7. \A t \in Sweeps : t # s /\ phase[t] = "dispatching" => todo[t] \cap M = {}
    BY <2>2, <1>4 DEF IInv, SweepRows
  <2>8. \A t, u \in Sweeps :
          t # u /\ phase'[t] = "dispatching" /\ phase'[u] = "dispatching" =>
            todo'[t] \cap todo'[u] = {}
    BY <2>7, <1>2 DEF IInv, SweepRows
  <2> QED
    BY <2>1, <2>3, <2>4, <2>5, <2>6, <2>8 DEF SweepRows
<1>10. EventsOwed'
  <2> SUFFICES ASSUME NEW k \in Keys
               PROVE  /\ notices[k]["PurchaseCompleted"] <= audit[k]["succeeded"]
                      /\ notices[k]["PaymentFailed"] + CallOwes(k) + SweepOwes(k)'
                           <= audit[k]["failed_by_user"] + audit'[k]["failed_by_job"]
    BY <1>1, <1>5 DEF EventsOwed, CallOwes
  <2>1. CallOwes(k) \in {0, 1} /\ SweepOwes(k) \in {0, 1} /\ SweepOwes(k)' \in {0, 1}
    BY DEF CallOwes, SweepOwes
  <2>2. k \notin M => SweepOwes(k)' = SweepOwes(k)
    BY <1>1, <1>2 DEF SweepOwes
  <2>3. /\ notices[k]["PaymentFailed"] \in Nat /\ audit[k]["failed_by_user"] \in Nat
        /\ audit[k]["failed_by_job"] \in Nat
    BY <1>3, CountTypes
  <2>4. /\ notices[k]["PurchaseCompleted"] <= audit[k]["succeeded"]
        /\ notices[k]["PaymentFailed"] + CallOwes(k) + SweepOwes(k)
             <= audit[k]["failed_by_user"] + audit[k]["failed_by_job"]
    BY DEF IInv, EventsOwed
  <2>5. CASE k \in M
    BY <2>1, <2>3, <2>4, <2>5, <1>5
  <2>6. CASE k \notin M
    BY <2>2, <2>4, <2>6, <1>5
  <2> QED
    BY <2>5, <2>6
<1>11. PaidIsUnlocked'
  BY <1>1, <1>4 DEF IInv, PaidIsUnlocked
<1>12. AuditExplainsStatus' /\ SweepFailsOnce'
  <2> SUFFICES ASSUME NEW j \in Keys
               PROVE  LET n == audit[j]["failed_by_user"] + audit'[j]["failed_by_job"] IN
                      /\ payment'[j] \in {"none", "pending"} =>
                           audit[j]["succeeded"] = 0 /\ n = 0
                      /\ payment'[j] = "failed" => audit[j]["succeeded"] = 0 /\ n > 0
                      /\ payment'[j] = "succeeded" => audit[j]["succeeded"] = 1
                      /\ audit'[j]["failed_by_job"] <= 1
    BY <1>5 DEF AuditExplainsStatus, SweepFailsOnce
  <2> QED
    BY <1>4, <1>5, <1>6 DEF IInv, AuditExplainsStatus, SweepFailsOnce
<1> QED
  BY <1>7, <1>8, <1>9, <1>10, <1>11, <1>12 DEF IInv

\* The events of a committed sweep reach the handlers, one row at a time.
LEMMA SweepDispatchStep ==
  ASSUME IInv, TypeOK', NEW s \in Sweeps, SweepDispatch(s)
  PROVE  IInv'
<1>1. /\ phase[s] = "dispatching"
      /\ UNCHANGED <<payment, purchase, forDrop, grants, audit, charges, call, pc,
                     marked>>
  BY DEF SweepDispatch, rows, callVars
<1>2. CASE todo[s] = {} /\ phase' = [phase EXCEPT ![s] = "idle"]
           /\ UNCHANGED <<todo, notices>>
  <2>1. phase'[s] = "idle" /\ \A t \in Sweeps : t # s => phase'[t] = phase[t]
    BY <1>2, SweepTyped
  <2>2. SweepRows'
    BY <1>1, <1>2, <2>1 DEF IInv, SweepRows
  <2>3. \A k \in Keys : SweepOwes(k)' <= SweepOwes(k)
    BY <1>2, <2>1 DEF SweepOwes
  <2> QED
    BY <1>1, <1>2, <2>2, <2>3, QuietSweepStep
<1>3. ASSUME NEW k \in NextRow(s), Emit({k}, "PaymentFailed"),
             todo' = [todo EXCEPT ![s] = @ \ {k}], UNCHANGED phase
      PROVE  IInv'
  <2>0. TypeOK /\ k \in todo[s] /\ k \in Keys
    BY SweepTyped DEF IInv, NextRow, Oldest
  <2>1. /\ todo'[s] = todo[s] \ {k}
        /\ \A t \in Sweeps : t # s => todo'[t] = todo[t]
    BY <1>3, SweepTyped
  <2>2. \A j \in Keys :
          /\ j # k => notices'[j] = notices[j]
          /\ notices'[k]["PaymentFailed"] = notices[k]["PaymentFailed"] + 1
          /\ notices'[j]["PurchaseCompleted"] = notices[j]["PurchaseCompleted"]
    BY <1>3, <2>0, EmitCounts DEF EventTypes
  <2>3. OneHolder' /\ NoRow' /\ ChargedAtMostOnce' /\ PaidIsUnlocked'
    BY <1>1 DEF IInv, OneHolder, NoRow, ChargedAtMostOnce, PaidIsUnlocked, Holds, Open
  <2>4. AuditExplainsStatus' /\ SweepFailsOnce'
    BY <1>1 DEF IInv, AuditExplainsStatus, SweepFailsOnce
  <2>5. RowOfCall'
    <3>1. \A q \in Requests : call[q].key \in Keys
      BY <2>0 DEF TypeOK
    <3> QED
      BY <3>1, <1>1, <2>2 DEF IInv, RowOfCall, Holds, Open
  <2>6. SweepRows'
    BY <1>1, <1>3, <2>1 DEF IInv, SweepRows
  <2>7. EventsOwed'
    <3> SUFFICES ASSUME NEW j \in Keys
                 PROVE  /\ notices'[j]["PurchaseCompleted"] <= audit[j]["succeeded"]
                        /\ notices'[j]["PaymentFailed"] + CallOwes(j) + SweepOwes(j)'
                             <= audit[j]["failed_by_user"] + audit[j]["failed_by_job"]
      BY <1>1 DEF EventsOwed, CallOwes
    <3>1. CallOwes(j) \in {0, 1} /\ SweepOwes(j) \in {0, 1} /\ SweepOwes(j)' \in {0, 1}
      BY DEF CallOwes, SweepOwes
    <3>2. /\ notices[j]["PaymentFailed"] \in Nat /\ audit[j]["failed_by_user"] \in Nat
          /\ audit[j]["failed_by_job"] \in Nat
      BY <2>0, CountTypes
    <3>3. /\ notices[j]["PurchaseCompleted"] <= audit[j]["succeeded"]
          /\ notices[j]["PaymentFailed"] + CallOwes(j) + SweepOwes(j)
               <= audit[j]["failed_by_user"] + audit[j]["failed_by_job"]
      BY DEF IInv, EventsOwed
    <3>4. CASE j # k
      <4>1. SweepOwes(j)' <= SweepOwes(j)
        BY <3>4, <1>3, <2>1 DEF SweepOwes
      <4> QED
        BY <3>1, <3>2, <3>3, <3>4, <4>1, <2>2
    <3>5. CASE j = k
      <4>1. SweepOwes(j) = 1
        BY <3>5, <1>1, <2>0 DEF SweepOwes
      <4>2. SweepOwes(j)' = 0
        BY <3>5, <1>1, <1>3, <2>0, <2>1 DEF SweepOwes, IInv, SweepRows
      <4>3. /\ notices'[j]["PaymentFailed"] = notices[j]["PaymentFailed"] + 1
            /\ notices'[j]["PurchaseCompleted"] = notices[j]["PurchaseCompleted"]
        BY <3>5, <2>2
      <4> QED
        BY <3>1, <3>2, <3>3, <4>1, <4>2, <4>3
    <3> QED
      BY <3>4, <3>5
  <2> QED
    BY <2>3, <2>4, <2>5, <2>6, <2>7 DEF IInv
<1> QED
  BY <1>2, <1>3 DEF SweepDispatch

-----------------------------------------------------------------------------
(* The inductive invariant and what follows from it *)

LEMMA InitHolds == Init => IInv
<1> SUFFICES ASSUME Init PROVE IInv
  OBVIOUS
<1>1. TypeOK
  BY InitTypes
<1>2. OneHolder /\ RowOfCall
  BY DEF Init, OneHolder, RowOfCall, Holds, Open
<1>3. NoRow /\ SweepRows
  BY DEF Init, NoRow, SweepRows
<1>4. EventsOwed
  BY DEF Init, EventsOwed, CallOwes, SweepOwes, AuditActions, EventTypes
<1>5. ChargedAtMostOnce /\ PaidIsUnlocked
  BY DEF Init, ChargedAtMostOnce, PaidIsUnlocked
<1>6. AuditExplainsStatus /\ SweepFailsOnce
  BY DEF Init, AuditExplainsStatus, SweepFailsOnce, AuditActions
<1> QED
  BY <1>1, <1>2, <1>3, <1>4, <1>5, <1>6 DEF IInv

LEMMA CallPreserves ==
  ASSUME IInv, TypeOK', NEW r \in Requests, CallStep(r) \/ Crash(r)
  PROVE  IInv'
<1> DEFINE Moves(w) == pc' = [pc EXCEPT ![r] = w]
<1> DEFINE Rest == UNCHANGED <<call, payment, purchase, forDrop, grants, audit,
                              charges, notices, phase, todo, marked>>
<1>1. CASE Lookup(r)
  <2>1. Rest /\ (Moves("check") \/ Moves("done") \/ Moves("replay"))
    BY <1>1 DEF Lookup, Goto, Return, rows, sweepVars
  <2>2. CASE Goto(r, "replay") /\ payment[call[r].key] = "succeeded"
             /\ forDrop[call[r].key] = call[r].drop
    BY <2>1, <2>2, QuietCallStep DEF Goto
  <2>3. CASE Moves("check") \/ Moves("done")
    BY <2>1, <2>3, QuietCallStep
  <2> QED
    BY <1>1, <2>2, <2>3 DEF Lookup, Goto, Return
<1>2. CASE ReplayCompleted(r)
  <2>1. Rest /\ Moves("done")
    BY <1>2 DEF ReplayCompleted, Return, rows, sweepVars
  <2> QED
    BY <2>1, QuietCallStep
<1>3. CASE Check(r)
  <2>1. Rest /\ (Moves("insert") \/ Moves("done"))
    BY <1>3 DEF Check, Goto, Return, rows, sweepVars
  <2> QED
    BY <2>1, QuietCallStep
<1>4. CASE Insert(r)
  <2>1. CASE KeyTaken(r)
    <3>1. Rest /\ Moves("done")
      BY <1>4, <2>1 DEF Insert, Return, rows, sweepVars
    <3> QED
      BY <3>1, QuietCallStep
  <2> QED
    BY <1>4, <2>1, InsertStep
<1>5. CASE Charge(r)
  BY <1>5, ChargeStep
<1>6. CASE Decline(r)
  <2>1. Rest /\ Moves("declined") /\ pc[r] = "provider"
    BY <1>6 DEF Decline, Goto, rows, sweepVars
  <2> QED
    BY <2>1, QuietCallStep
<1>7. CASE Finalize(r)
  <2>1. CASE GrantTaken(r)
    <3>1. Rest /\ Moves("done")
      BY <1>7, <2>1 DEF Finalize, Return, rows, sweepVars
    <3> QED
      BY <3>1, QuietCallStep
  <2> QED
    BY <1>7, <2>1, FinalizeStep
<1>8. CASE FinalizeFailure(r)
  BY <1>8, FinalizeFailureStep
<1>9. CASE Dispatch(r)
  BY <1>9, DispatchStep
<1>10. CASE Crash(r)
  <2>1. Rest /\ Moves("done")
    BY <1>10 DEF Crash, Return, rows, sweepVars
  <2> QED
    BY <2>1, QuietCallStep
<1> QED
  BY <1>1, <1>2, <1>3, <1>4, <1>5, <1>6, <1>7, <1>8, <1>9, <1>10 DEF CallStep

LEMMA SweepPreserves ==
  ASSUME IInv, TypeOK', NEW s \in Sweeps, SweepStep(s) \/ SweepCrash(s)
  PROVE  IInv'
  BY SweepListStep, SweepMarkStep, SweepCommitStep, SweepDispatchStep,
     SweepCrashStep DEF SweepStep

LEMMA TickPreserves ==
  ASSUME IInv, TypeOK', Tick
  PROVE  IInv'
<1>1. UNCHANGED <<payment, purchase, forDrop, grants, audit, charges, notices,
                  call, pc, phase, todo, marked>>
  BY DEF Tick, callVars, sweepVars
<1>2. SweepRows' /\ \A k \in Keys : SweepOwes(k)' <= SweepOwes(k)
  BY <1>1 DEF IInv, SweepRows, SweepOwes
<1> QED
  BY <1>1, <1>2, QuietSweepStep

LEMMA Preserved == IInv /\ [Next]_vars => IInv'
<1> SUFFICES ASSUME IInv, [Next]_vars PROVE IInv'
  OBVIOUS
<1>1. TypeOK'
  BY TypesPreserved DEF IInv
<1>2. ASSUME NEW r \in Requests, CallStep(r) \/ Crash(r) PROVE IInv'
  BY <1>1, <1>2, CallPreserves
<1>3. ASSUME NEW s \in Sweeps, SweepStep(s) \/ SweepCrash(s) PROVE IInv'
  BY <1>1, <1>3, SweepPreserves
<1>4. CASE Tick
  BY <1>1, <1>4, TickPreserves
<1>5. CASE UNCHANGED vars
  <2>1. UNCHANGED <<payment, purchase, forDrop, grants, audit, charges, notices,
                    call, pc, phase, todo, marked>>
    BY <1>5 DEF vars, rows, callVars, sweepVars
  <2>2. SweepRows' /\ \A k \in Keys : SweepOwes(k)' <= SweepOwes(k)
    BY <2>1 DEF IInv, SweepRows, SweepOwes
  <2> QED
    BY <1>1, <2>1, <2>2, QuietSweepStep
<1> QED
  BY <1>2, <1>3, <1>4, <1>5 DEF Next

\* The inductive invariant: whoever holds a key, whatever a sweep has listed or
\* marked, and whatever crashed, rows, charges, grants, audits and events agree.
THEOREM Invariance == Spec => []IInv
<1>1. Init => IInv
  BY InitHolds
<1>2. IInv /\ [Next]_vars => IInv'
  BY Preserved
<1> QED
  BY <1>1, <1>2, PTL DEF Spec

\* However calls, replays, sweeps and crashes interleave, purchaseDrop has the
\* provider take the money of an idempotency key at most once.
THEOREM NeverChargedTwice == Spec => []ChargedAtMostOnce
<1>1. IInv => ChargedAtMostOnce
  BY DEF IInv
<1> QED
  BY <1>1, Invariance, PTL

\* Payment, purchase and grant of a key always tell the same story.
THEOREM PaidAndUnlockedAgree == Spec => []PaidIsUnlocked
<1>1. IInv => PaidIsUnlocked
  BY DEF IInv
<1> QED
  BY <1>1, Invariance, PTL

\* The audit trail accounts for the status of every payment, and the sweeps
\* fail a row at most once between them.
THEOREM AuditIsComplete == Spec => [](AuditExplainsStatus /\ SweepFailsOnce)
<1>1. IInv => AuditExplainsStatus /\ SweepFailsOnce
  BY DEF IInv
<1> QED
  BY <1>1, Invariance, PTL

\* No event reaches the handlers without a committed transition of its own.
THEOREM EventsAreCommitted == Spec => []NoPhantomEvents
<1>1. IInv => NoPhantomEvents
  <2> SUFFICES ASSUME IInv, NEW k \in Keys
               PROVE  /\ notices[k]["PurchaseCompleted"] <= audit[k]["succeeded"]
                      /\ notices[k]["PaymentFailed"] <=
                           audit[k]["failed_by_user"] + audit[k]["failed_by_job"]
    BY DEF NoPhantomEvents
  <2>1. CallOwes(k) \in {0, 1} /\ SweepOwes(k) \in {0, 1}
    BY DEF CallOwes, SweepOwes
  <2>2. /\ notices[k]["PaymentFailed"] \in Nat /\ audit[k]["failed_by_user"] \in Nat
        /\ audit[k]["failed_by_job"] \in Nat
    BY CountTypes DEF IInv
  <2> QED
    BY <2>1, <2>2 DEF IInv, EventsOwed
<1> QED
  BY <1>1, Invariance, PTL

-----------------------------------------------------------------------------
(* What the users of Payments rely on: a paid key stays paid, every step is a  *)
(* step of the ledger, answers are true, sweeps never wait in a circle.        *)

\* What any step does to the rows, the money and the grants.
LedgerStep ==
  \/ UNCHANGED <<payment, charges, grants>>
  \/ \E r \in Requests, k \in Keys :
       /\ k = call[r].key
       /\ \/ /\ payment[k] = "none"
             /\ payment' = [payment EXCEPT ![k] = "pending"]
             /\ UNCHANGED <<charges, grants>>
          \/ /\ payment[k] \in {"pending", "failed"} /\ charges[k] = 0
             /\ charges' = [charges EXCEPT ![k] = @ + 1]
             /\ UNCHANGED <<payment, grants>>
          \/ /\ payment[k] \in {"pending", "failed"} /\ charges[k] = 1
             /\ ~GrantTaken(r)
             /\ payment' = [payment EXCEPT ![k] = "succeeded"]
             /\ grants' = grants \union NewGrant(r)
             /\ UNCHANGED charges
  \/ \E S \in SUBSET Keys :
       /\ \A k \in S : payment[k] \in {"pending", "failed"}
       /\ payment' = [k \in Keys |-> IF k \in S THEN "failed" ELSE payment[k]]
       /\ UNCHANGED <<charges, grants>>

LEMMA EveryStepIsLedgerStep == IInv /\ [Next]_vars => LedgerStep
<1> SUFFICES ASSUME IInv, [Next]_vars PROVE LedgerStep
  OBVIOUS
<1>1. ASSUME NEW r \in Requests, CallStep(r) \/ Crash(r) PROVE LedgerStep
  <2>k. PICK k \in Keys : k = call[r].key
    BY DEF IInv, TypeOK
  <2>1. CASE Lookup(r) \/ ReplayCompleted(r) \/ Check(r) \/ Decline(r) \/ Dispatch(r)
             \/ Crash(r)
    BY <2>1 DEF Lookup, ReplayCompleted, Check, Decline, Dispatch, Crash, rows,
                LedgerStep
  <2>2. CASE Insert(r)
    <3>1. CASE KeyTaken(r)
      BY <2>2, <3>1 DEF Insert, rows, LedgerStep
    <3>2. CASE ~KeyTaken(r)
      <4>1. /\ payment[k] = "none" /\ payment' = [payment EXCEPT ![k] = "pending"]
            /\ UNCHANGED <<charges, grants>>
        BY <2>2, <2>k, <3>2 DEF Insert, KeyTaken, Created
      <4> QED
        BY <2>k, <4>1 DEF LedgerStep
    <3> QED
      BY <3>1, <3>2
  <2>3. CASE Charge(r)
    <3>1. /\ payment[k] \in {"pending", "failed"} /\ charges[k] = 0
      BY <2>3, <2>k DEF Charge, IInv, RowOfCall, Open
    <3> QED
      BY <2>3, <2>k, <3>1 DEF Charge, rows, LedgerStep
  <2>4. CASE Finalize(r)
    <3>1. /\ payment[k] \in {"pending", "failed"} /\ charges[k] = 1
      BY <2>4, <2>k DEF Finalize, IInv, RowOfCall, Open
    <3>2. CASE GrantTaken(r)
      BY <2>4, <3>2 DEF Finalize, rows, LedgerStep
    <3>3. CASE ~GrantTaken(r)
      <4>1. /\ payment' = [payment EXCEPT ![k] = "succeeded"]
            /\ grants' = grants \union NewGrant(r)
            /\ UNCHANGED charges
        BY <2>4, <2>k, <3>3 DEF Finalize
      <4> QED
        BY <2>k, <3>1, <3>3, <4>1 DEF LedgerStep
    <3> QED
      BY <3>2, <3>3
  <2>5. CASE FinalizeFailure(r)
    <3>1. payment[k] \in {"pending", "failed"}
      BY <2>5, <2>k DEF FinalizeFailure, IInv, RowOfCall, Open
    <3>2. /\ payment' = [j \in Keys |-> IF j \in {k} THEN "failed" ELSE payment[j]]
          /\ UNCHANGED <<charges, grants>>
      BY <2>5, <2>k DEF FinalizeFailure, FailPairs
    <3> QED
      BY <2>k, <3>1, <3>2 DEF LedgerStep
  <2> QED
    BY <1>1, <2>1, <2>2, <2>3, <2>4, <2>5 DEF CallStep
<1>2. ASSUME NEW s \in Sweeps, SweepStep(s) \/ SweepCrash(s) PROVE LedgerStep
  <2>1. CASE SweepCommit(s)
    <3>1. marked[s] \in SUBSET Keys /\ \A k \in marked[s] : payment[k] = "pending"
      BY SweepTyped DEF IInv, SweepRows
    <3>2. /\ payment' = [k \in Keys |-> IF k \in marked[s] THEN "failed" ELSE payment[k]]
          /\ UNCHANGED <<charges, grants>>
      BY <2>1 DEF SweepCommit, FailPairs
    <3> QED
      BY <3>1, <3>2 DEF LedgerStep
  <2>2. CASE SweepList(s) \/ SweepMark(s) \/ SweepDispatch(s) \/ SweepCrash(s)
    BY <2>2 DEF SweepList, SweepMark, SweepDispatch, SweepCrash, rows, LedgerStep
  <2> QED
    BY <1>2, <2>1, <2>2 DEF SweepStep
<1>3. CASE Tick
  BY <1>3 DEF Tick, LedgerStep
<1>4. CASE UNCHANGED vars
  BY <1>4 DEF vars, rows, LedgerStep
<1> QED
  BY <1>1, <1>2, <1>3, <1>4 DEF Next

\* A payment that succeeded is never moved again: not by a sweep that listed it
\* while it was pending, not by a replay, not by a call whose decline is late.
THEOREM PaidStaysPaid == Spec => SucceededIsFinal
<1>1. IInv /\ [Next]_vars =>
        [\A k \in Keys : payment[k] = "succeeded" => payment'[k] = "succeeded"]_vars
  <2> SUFFICES ASSUME IInv, [Next]_vars, NEW k \in Keys, payment[k] = "succeeded"
               PROVE  payment'[k] = "succeeded"
    OBVIOUS
  <2>1. LedgerStep
    BY EveryStepIsLedgerStep
  <2>2. payment \in [Keys -> Statuses \union {"succeeded"}]
    BY DEF IInv, TypeOK
  <2> QED
    BY <2>1, <2>2 DEF LedgerStep
<1> QED
  BY <1>1, Invariance, PTL DEF Spec, SucceededIsFinal

\* Calls, sweeps and crashes together implement the ledger: an attempt is
\* charged at most once, and paid only with its money and a fresh entitlement.
THEOREM Refinement == Spec => ImplementsLedger
<1>1. Init => Ledger!Init
  BY DEF Init, Ledger!Init
<1>2. IInv /\ [Next]_vars => [Ledger!Next]_(Ledger!vars)
  <2> SUFFICES ASSUME IInv, [Next]_vars PROVE [Ledger!Next]_(Ledger!vars)
    OBVIOUS
  <2> DEFINE paid == {k \in Keys : charges[k] > 0}
             bought == {<<g.user, g.drop>> : g \in grants}
  <2>0. TypeOK
    BY DEF IInv
  <2>1. CASE UNCHANGED <<payment, charges, grants>>
    BY <2>1 DEF Ledger!vars
  <2>2. ASSUME NEW r \in Requests, NEW k \in Keys, k = call[r].key,
               payment[k] = "none",
               payment' = [payment EXCEPT ![k] = "pending"],
               UNCHANGED <<charges, grants>>
        PROVE  Ledger!Next
    <3>1. Ledger!Open(k)
      BY <2>2 DEF Ledger!Open
    <3> QED
      BY <3>1 DEF Ledger!Next
  <2>3. ASSUME NEW r \in Requests, NEW k \in Keys, k = call[r].key,
               payment[k] \in {"pending", "failed"},
               charges[k] = 0,
               charges' = [charges EXCEPT ![k] = @ + 1],
               UNCHANGED <<payment, grants>>
        PROVE  Ledger!Next
    <3>1. charges \in [Keys -> Nat]
      BY <2>0 DEF TypeOK
    <3>2. k \notin paid /\ paid' = paid \union {k}
      BY <2>3, <3>1
    <3>3. Ledger!Charge(k)
      BY <2>3, <3>2 DEF Ledger!Charge
    <3> QED
      BY <3>3 DEF Ledger!Next
  <2>4. ASSUME NEW r \in Requests, NEW k \in Keys, k = call[r].key,
               payment[k] \in {"pending", "failed"},
               charges[k] = 1, ~GrantTaken(r),
               payment' = [payment EXCEPT ![k] = "succeeded"],
               grants' = grants \union NewGrant(r),
               UNCHANGED charges
        PROVE  Ledger!Next
    <3>1. PICK e \in Users \X Drops : e = <<User(r), call[r].drop>>
      BY <2>0, CallIsTyped, OwnerAssumption DEF User
    <3>2. k \in paid
      BY <2>4, <3>1
    <3>3. e \notin bought
      BY <2>4, <3>1 DEF GrantTaken, Owns
    <3>4. \A g \in NewGrant(r) : <<g.user, g.drop>> = e
      BY <3>1 DEF NewGrant
    <3>5. bought' = bought \union {e}
      BY <2>4, <3>4 DEF NewGrant
    <3>6. Ledger!Pay(k, e)
      BY <2>4, <3>2, <3>3, <3>5 DEF Ledger!Pay
    <3> QED
      BY <3>6 DEF Ledger!Next
  <2>5. ASSUME NEW S \in SUBSET Keys, \A k \in S : payment[k] \in {"pending", "failed"},
               payment' = [k \in Keys |-> IF k \in S THEN "failed" ELSE payment[k]],
               UNCHANGED <<charges, grants>>
        PROVE  Ledger!Next
    <3>1. Ledger!GiveUp(S)
      BY <2>5 DEF Ledger!GiveUp
    <3> QED
      BY <3>1 DEF Ledger!Next
  <2> QED
    BY EveryStepIsLedgerStep, <2>1, <2>2, <2>3, <2>4, <2>5 DEF LedgerStep
<1> QED
  BY <1>1, <1>2, Invariance, PTL DEF Spec, ImplementsLedger, Ledger!Spec

-----------------------------------------------------------------------------
(* Answers *)

LEMMA PaidRowIsOwned ==
  ASSUME IInv, NEW r \in Requests,
         payment[call[r].key] = "succeeded", forDrop[call[r].key] = call[r].drop
  PROVE  Owns(User(r), call[r].drop)
<1>1. call[r].key \in Keys
  BY CallIsTyped DEF IInv
<1>2. PICK g \in grants : g.key = call[r].key
  BY <1>1 DEF IInv, PaidIsUnlocked
<1>3. g.user = User(r) /\ g.drop = call[r].drop
  BY <1>1, <1>2 DEF IInv, PaidIsUnlocked, User
<1> QED
  BY <1>3 DEF Owns

\* What a step may answer to call q.
Truthful(q) ==
  \/ result'[q] = result[q]
  \/ result'[q] \notin {"unlocked", "already_owned", "no_grant"}
  \/ result'[q] # "no_grant" /\ Owns(User(q), call[q].drop)

LEMMA ReturnIsTruthful ==
  ASSUME IInv, NEW r \in Requests, NEW a, Return(r, a),
         \/ a \notin {"unlocked", "already_owned", "no_grant"}
         \/ a # "no_grant" /\ Owns(User(r), call[r].drop)
  PROVE  \A q \in Requests : Truthful(q)
<1>1. result'[r] = a /\ \A q \in Requests : q # r => result'[q] = result[q]
  BY DEF IInv, TypeOK, Return
<1> QED
  BY <1>1 DEF Truthful

LEMMA StepIsTruthful ==
  ASSUME IInv, [Next]_vars
  PROVE  call' = call /\ \A q \in Requests : Truthful(q)
<1>1. ASSUME NEW r \in Requests, CallStep(r) \/ Crash(r)
      PROVE  call' = call /\ \A q \in Requests : Truthful(q)
  <2>1. CASE Lookup(r)
    BY <2>1, ReturnIsTruthful DEF Lookup, Goto, Return, Truthful
  <2>2. CASE ReplayCompleted(r)
    <3>1. Owns(User(r), call[r].drop)
      BY <2>2, PaidRowIsOwned DEF ReplayCompleted, IInv, RowOfCall
    <3>2. Return(r, "unlocked")
      BY <2>2, <3>1 DEF ReplayCompleted
    <3> QED
      BY <3>1, <3>2, ReturnIsTruthful DEF Return
  <2>3. CASE Check(r)
    <3>1. \/ Return(r, "refused") \/ Goto(r, "insert")
          \/ Return(r, "already_owned") /\ Owns(User(r), call[r].drop)
      BY <2>3 DEF Check
    <3> QED
      BY <3>1, ReturnIsTruthful DEF Goto, Return, Truthful
  <2>4. CASE Insert(r)
    <3>1. Goto(r, "provider") \/ Return(r, "error")
      BY <2>4 DEF Insert
    <3> QED
      BY <3>1, ReturnIsTruthful DEF Goto, Return, Truthful
  <2>5. CASE Charge(r) \/ Decline(r) \/ FinalizeFailure(r)
    BY <2>5 DEF Charge, Decline, FinalizeFailure, Goto, Truthful
  <2>6. CASE Finalize(r)
    <3>1. Goto(r, "unlocked") \/ Return(r, "error")
      BY <2>6 DEF Finalize
    <3> QED
      BY <3>1, ReturnIsTruthful DEF Goto, Return, Truthful
  <2>7. CASE Dispatch(r)
    <3>1. CASE pc[r] = "unlocked" /\ Return(r, "unlocked")
      <4>1. Owns(User(r), call[r].drop)
        BY <3>1, PaidRowIsOwned DEF IInv, RowOfCall, Holds
      <4> QED
        BY <3>1, <4>1, ReturnIsTruthful DEF Return
    <3>2. CASE Return(r, "payment_failed")
      BY <3>2, ReturnIsTruthful DEF Return
    <3> QED
      BY <2>7, <3>1, <3>2 DEF Dispatch
  <2>8. CASE Crash(r)
    BY <2>8, ReturnIsTruthful DEF Crash, Return
  <2> QED
    BY <1>1, <2>1, <2>2, <2>3, <2>4, <2>5, <2>6, <2>7, <2>8 DEF CallStep
<1>2. ASSUME NEW s \in Sweeps, SweepStep(s) \/ SweepCrash(s)
      PROVE  UNCHANGED callVars
  BY <1>2 DEF SweepStep, SweepList, SweepMark, SweepCommit, SweepDispatch, SweepCrash
<1>3. Tick => UNCHANGED callVars
  BY DEF Tick
<1>4. UNCHANGED callVars => call' = call /\ \A q \in Requests : Truthful(q)
  BY DEF callVars, Truthful
<1> QED
  BY <1>1, <1>2, <1>3, <1>4 DEF Next, vars

\* Whoever is told "unlocked" or "already owned" owns the drop, and the replay
\* of a completed purchase always finds its grant.
THEOREM AnswersHold == Spec => []AnswersAreTrue
<1>1. Init => AnswersAreTrue
  BY DEF Init, AnswersAreTrue
<1>2. IInv /\ AnswersAreTrue /\ [Next]_vars => AnswersAreTrue'
  <2> SUFFICES ASSUME IInv, AnswersAreTrue, [Next]_vars, NEW q \in Requests
               PROVE  /\ result'[q] \in {"unlocked", "already_owned"} =>
                           Owns(User(q), call[q].drop)'
                      /\ result'[q] # "no_grant"
    BY DEF AnswersAreTrue
  <2>1. grants \subseteq grants'
    BY EveryStepIsLedgerStep DEF LedgerStep
  <2>2. call' = call /\ Truthful(q)
    BY StepIsTruthful
  <2>3. Owns(User(q), call[q].drop) => Owns(User(q), call[q].drop)'
    BY <2>1, <2>2 DEF Owns, User
  <2> QED
    BY <2>2, <2>3 DEF Truthful, AnswersAreTrue
<1> QED
  BY <1>1, <1>2, Invariance, PTL DEF Spec

-----------------------------------------------------------------------------
(* Deadlock *)

\* created_at orders the rows, and a sweep holds only rows older than those it
\* has still to visit.
Ranked ==
  /\ \A k \in Created : rank[k] < Cardinality(Created)
  /\ \A j, k \in Created : rank[j] = rank[k] => j = k

OldestFirst == \A s \in Sweeps : \A j \in marked[s], k \in todo[s] : rank[j] < rank[k]

LEMMA NextRowIsOldest ==
  ASSUME IInv, NEW s \in Sweeps, NEW k \in NextRow(s)
  PROVE  k \in todo[s] /\ \A j \in todo[s] : rank[k] <= rank[j]
<1> DEFINE Older == {j \in todo[s] : rank[j] < rank[k]}
<1>1. k \in todo[s] /\ Cardinality(Older) < 1
  BY DEF NextRow, Oldest
<1>2. IsFiniteSet(Older)
  <2>1. todo[s] \subseteq Keys
    BY SweepTyped
  <2>2. Older \subseteq Keys
    BY <2>1
  <2> QED
    BY <2>2, KeysAssumption, FS_Subset
<1>3. Older = {}
  BY <1>1, <1>2, FS_CardinalityType, FS_EmptySet
<1>4. \A j \in todo[s] : rank[j] \in Nat /\ rank[k] \in Nat
  BY <1>1, SweepTyped DEF IInv, TypeOK
<1> QED
  BY <1>1, <1>3, <1>4

LEMMA NewestIsLast ==
  ASSUME IInv, Ranked, NEW k \in Keys, payment[k] = "none",
         payment' = [payment EXCEPT ![k] = "pending"],
         rank' = [rank EXCEPT ![k] = Cardinality(Created)]
  PROVE  Ranked' /\ \A j \in Created : rank'[j] = rank[j]
<1>0. TypeOK
  BY DEF IInv
<1>1. k \notin Created /\ Created' = Created \union {k}
  BY <1>0 DEF Created, TypeOK
<1>2. Cardinality(Created') = Cardinality(Created) + 1
  BY <1>1, KeysAssumption, FS_Subset, FS_AddElement DEF Created
<1>3. rank'[k] = Cardinality(Created) /\ \A j \in Created : rank'[j] = rank[j]
  BY <1>0, <1>1 DEF Created, TypeOK
<1>4. \A j \in Created : rank[j] \in Nat
  BY <1>0 DEF TypeOK, Created
<1> HIDE DEF Created
<1>5. \A j \in Created' : rank'[j] < Cardinality(Created')
  BY <1>1, <1>2, <1>3, <1>4, RankIsNat DEF Ranked
<1>6. \A i, j \in Created' : rank'[i] = rank'[j] => i = j
  BY <1>1, <1>3, <1>4, RankIsNat DEF Ranked
<1> QED
  BY <1>3, <1>5, <1>6 DEF Ranked

LEMMA RankedStep == IInv /\ Ranked /\ OldestFirst /\ [Next]_vars => Ranked' /\ OldestFirst'
<1> SUFFICES ASSUME IInv, Ranked, OldestFirst, [Next]_vars
             PROVE  Ranked' /\ OldestFirst'
  OBVIOUS
<1>0. \A s \in Sweeps : marked[s] \subseteq Created /\ todo[s] \subseteq Created
  BY SweepTyped DEF IInv, SweepRows, Created
<1>1. ASSUME NEW r \in Requests, Insert(r), ~KeyTaken(r) PROVE Ranked' /\ OldestFirst'
  <2>1. PICK k \in Keys : k = call[r].key
    BY CallIsTyped DEF IInv
  <2>2. /\ payment[k] = "none" /\ payment' = [payment EXCEPT ![k] = "pending"]
        /\ rank' = [rank EXCEPT ![k] = Cardinality(Created)]
        /\ UNCHANGED <<todo, marked>>
    BY <1>1, <2>1 DEF Insert, KeyTaken, Created, sweepVars
  <2>3. Ranked' /\ \A j \in Created : rank'[j] = rank[j]
    BY <2>2, NewestIsLast
  <2> QED
    BY <1>0, <2>2, <2>3 DEF OldestFirst
<1>2. ASSUME UNCHANGED rank, LedgerStep,
             \A k \in Keys : payment[k] = "none" => payment'[k] = "none"
      PROVE  Ranked'
  <2>1. \A k \in Keys : payment[k] # "none" => payment'[k] # "none"
    BY <1>2 DEF IInv, TypeOK, LedgerStep
  <2>2. Created' = Created
    BY <1>2, <2>1 DEF Created
  <2> QED
    BY <1>2, <2>2 DEF Ranked
<1>3. LedgerStep
  BY EveryStepIsLedgerStep
<1>4. ASSUME NEW r \in Requests, CallStep(r) \/ Crash(r), ~(Insert(r) /\ ~KeyTaken(r))
      PROVE  Ranked' /\ OldestFirst'
  <2>1. UNCHANGED <<rank, todo, marked>>
    BY <1>4 DEF CallStep, Lookup, ReplayCompleted, Check, Insert, Charge, Decline,
                Finalize, FinalizeFailure, FailPairs, Dispatch, Crash, rows, sweepVars
  <2>2. \A k \in Keys : payment[k] = "none" => payment'[k] = "none"
    <3>1. CASE Finalize(r) \/ FinalizeFailure(r)
      <4>1. payment[call[r].key] # "none"
        BY <3>1 DEF Finalize, FinalizeFailure, IInv, RowOfCall, Open
      <4> QED
        BY <3>1, <4>1 DEF Finalize, FinalizeFailure, FailPairs, rows, IInv, TypeOK
    <3>2. CASE ~(Finalize(r) \/ FinalizeFailure(r))
      BY <1>4, <3>2 DEF CallStep, Lookup, ReplayCompleted, Check, Insert, Charge,
                        Decline, Dispatch, Crash, rows
    <3> QED
      BY <3>1, <3>2
  <2> QED
    BY <1>2, <1>3, <2>1, <2>2 DEF OldestFirst
<1>5. ASSUME NEW s \in Sweeps, SweepStep(s) \/ SweepCrash(s)
      PROVE  Ranked' /\ OldestFirst'
  <2>1. UNCHANGED rank
    BY <1>5 DEF SweepStep, SweepList, SweepMark, SweepCommit, SweepDispatch,
                SweepCrash, FailPairs, rows
  <2>2. \A k \in Keys : payment[k] = "none" => payment'[k] = "none"
    <3>1. \A k \in marked[s] : payment[k] # "none"
      BY DEF IInv, SweepRows
    <3> QED
      BY <1>5, <3>1 DEF SweepStep, SweepList, SweepMark, SweepCommit, SweepDispatch,
                        SweepCrash, FailPairs, rows
  <2>3. OldestFirst'
    <3>1. ASSUME marked'[s] = {} \/ todo'[s] = {},
                 \A t \in Sweeps : t # s => todo'[t] = todo[t] /\ marked'[t] = marked[t]
          PROVE  OldestFirst'
      BY <2>1, <3>1 DEF OldestFirst
    <3>2. CASE SweepList(s)
      BY <3>1, <3>2, SweepTyped DEF SweepList, IInv, SweepRows
    <3>3. CASE SweepMark(s)
      <4>1. PICK k \in NextRow(s) :
              /\ todo' = [todo EXCEPT ![s] = @ \ {k}]
              /\ marked' = [marked EXCEPT
                              ![s] = IF StillPending(k) THEN @ \union {k} ELSE @]
        BY <3>3 DEF SweepMark
      <4>2. /\ todo'[s] = todo[s] \ {k} /\ marked'[s] \subseteq marked[s] \union {k}
            /\ \A t \in Sweeps : t # s => todo'[t] = todo[t] /\ marked'[t] = marked[t]
        BY <4>1, SweepTyped
      <4>3. k \in todo[s] /\ \A j \in todo[s] : rank[k] <= rank[j]
        BY NextRowIsOldest
      <4>4. \A j \in todo[s] \ {k} : rank[k] < rank[j]
        <5>1. \A j \in todo[s] : rank[j] \in Nat /\ j \in Created
          BY <1>0 DEF IInv, TypeOK, Created
        <5> QED
          BY <4>3, <5>1 DEF Ranked
      <4> QED
        BY <2>1, <4>2, <4>4 DEF OldestFirst
    <3>4. CASE SweepCommit(s) \/ SweepCrash(s)
      BY <3>1, <3>4, SweepTyped DEF SweepCommit, SweepCrash
    <3>5. CASE SweepDispatch(s)
      <4>1. marked[s] = {} /\ UNCHANGED marked
        BY <3>5 DEF SweepDispatch, IInv, SweepRows
      <4>2. \A t \in Sweeps : t # s => todo'[t] = todo[t]
        BY <3>5, SweepTyped DEF SweepDispatch
      <4> QED
        BY <3>1, <4>1, <4>2
    <3> QED
      BY <1>5, <3>2, <3>3, <3>4, <3>5 DEF SweepStep
  <2> QED
    BY <1>2, <1>3, <2>1, <2>2, <2>3
<1>6. CASE Tick \/ UNCHANGED vars
  <2>1. UNCHANGED <<payment, rank, todo, marked>>
    BY <1>6 DEF Tick, vars, rows, sweepVars
  <2> QED
    BY <1>2, <1>3, <2>1 DEF OldestFirst
<1> QED
  BY <1>1, <1>4, <1>5, <1>6 DEF Next

\* Overlapping sweeps lock the rows they share in one order, that of
\* created_at, so no two of them ever wait for each other.
THEOREM NoDeadlock == Spec => []SweepsDoNotDeadlock
<1>1. Init => Ranked /\ OldestFirst
  BY DEF Init, Ranked, OldestFirst, Created
<1>2. IInv /\ Ranked /\ OldestFirst /\ [Next]_vars => Ranked' /\ OldestFirst'
  BY RankedStep
<1>3. IInv /\ OldestFirst => SweepsDoNotDeadlock
  <2> SUFFICES ASSUME IInv, OldestFirst, NEW s \in Sweeps, NEW t \in Sweeps,
                      NEW j \in NextRow(s), NEW k \in NextRow(t),
                      j \in marked[t], k \in marked[s]
               PROVE  FALSE
    BY DEF SweepsDoNotDeadlock
  <2>1. j \in todo[s] /\ k \in todo[t] /\ j \in Keys /\ k \in Keys
    BY NextRowIsOldest, SweepTyped
  <2>2. rank[k] < rank[j] /\ rank[j] < rank[k]
    BY <2>1 DEF OldestFirst
  <2>3. rank[j] \in Nat /\ rank[k] \in Nat
    BY <2>1 DEF IInv, TypeOK
  <2> QED
    BY <2>2, <2>3
<1> QED
  BY <1>1, <1>2, <1>3, Invariance, PTL DEF Spec
=============================================================================

----------------------------- MODULE BotProofs -----------------------------
(***************************************************************************)
(* The limiter is fair, a user is registered once, and he is shown and     *)
(* follows only what he opened or the default: for any updates, replicas,  *)
(* slugs, edits and failures, and any points and window of the limiter.    *)
(***************************************************************************)
EXTENDS Bot, FiniteSetTheorems, TLAPS

-----------------------------------------------------------------------------
(* The limiter *)

\* The counter is what the last increment left.
LastIsCounter(s) ==
  LET n == Len(log[s]) IN
  IF n = 0 THEN count[s] = 0
           ELSE log[s][n].value = count[s] /\ log[s][n].until = expires[s]

\* An increment falls in its window, and the counter has counted up to it.
HitIsRight(s, i) ==
  LET hit == log[s][i] IN
  /\ hit.value > 0 /\ hit.at <= now
  /\ hit.at < hit.until /\ hit.until <= hit.at + Window
  /\ hit.answer = "allowed" => hit.value <= Points
  /\ hit.answer = "refused" => hit.value > Points
  /\ \A n \in 1..hit.value : \E j \in 1..i : log[s][j].until = hit.until /\ log[s][j].value = n

\* A later increment is in the same window, or in one that began when that was over.
HitsInOrder(s, i, j) ==
  i < j => /\ log[s][i].at <= log[s][j].at
           /\ \/ log[s][i].until = log[s][j].until /\ log[s][i].value < log[s][j].value
              \/ log[s][i].until + Window <= log[s][j].until

LogInv(s) ==
  /\ LastIsCounter(s)
  /\ \A i \in DOMAIN log[s] : HitIsRight(s, i)
  /\ \A i, j \in DOMAIN log[s] : HitsInOrder(s, i, j)

LimitInv == LimitTypeOK /\ \A s \in Senders : LogInv(s)

\* What is known of the increments of a sender.
LEMMA HitsAre ==
  ASSUME LimitTypeOK, NEW s \in Senders
  PROVE  /\ Len(log[s]) \in Nat /\ DOMAIN log[s] = 1..Len(log[s])
         /\ \A i \in DOMAIN log[s] :
              /\ log[s][i] \in Hits
              /\ log[s][i].at \in Nat /\ log[s][i].until \in Nat /\ log[s][i].value \in Nat
         /\ now \in Nat /\ count[s] \in Nat /\ expires[s] \in Nat
         /\ Window \in Nat /\ Window > 0 /\ Points \in Nat /\ Points > 0
<1>1. log[s] \in Seq(Hits) /\ now \in Instants /\ count[s] \in Nat /\ expires[s] \in Nat
  BY DEF LimitTypeOK
<1>2. Len(log[s]) \in Nat /\ DOMAIN log[s] = 1..Len(log[s])
      /\ \A i \in DOMAIN log[s] : log[s][i] \in Hits
  BY <1>1
<1>3. Instants \subseteq Nat /\ Window \in Nat /\ Window > 0 /\ Points \in Nat /\ Points > 0
  BY WindowAssumption DEF Instants
<1>4. \A h \in Hits : h.at \in Nat /\ h.until \in Nat /\ h.value \in Nat
  BY <1>3 DEF Hits
<1> QED BY <1>1, <1>2, <1>3, <1>4

LEMMA IncrementTypes ==
  ASSUME LimitTypeOK, NEW s \in Senders, NEW answer \in {"allowed", "refused", "open"},
         Increment(s, answer)
  PROVE  /\ LimitTypeOK' /\ now' = now
         /\ count'[s] = Counted(s) /\ expires'[s] = Expiry(s)
         /\ log'[s] = Append(log[s], [at |-> now, value |-> Counted(s), until |-> Expiry(s),
                                      answer |-> answer])
         /\ \A q \in Senders \ {s} :
              count'[q] = count[q] /\ expires'[q] = expires[q] /\ log'[q] = log[q]
<1> DEFINE hit == [at |-> now, value |-> Counted(s), until |-> Expiry(s), answer |-> answer]
<1>1. Counted(s) \in Nat /\ Expiry(s) \in Nat
  BY HitsAre DEF Counted, Expiry
<1>2. hit \in Hits
  BY <1>1 DEF Hits, LimitTypeOK
<1> HIDE DEF hit
<1>3. log' = [log EXCEPT ![s] = Append(@, hit)]
  BY DEF Increment, hit
<1>4. Append(log[s], hit) \in Seq(Hits)
  BY <1>2 DEF LimitTypeOK
<1>5. log' \in [Senders -> Seq(Hits)] /\ log'[s] = Append(log[s], hit)
      /\ \A q \in Senders \ {s} : log'[q] = log[q]
  BY <1>3, <1>4 DEF LimitTypeOK
<1>6. /\ count' \in [Senders -> Nat] /\ expires' \in [Senders -> Nat] /\ now' = now
      /\ count'[s] = Counted(s) /\ expires'[s] = Expiry(s)
      /\ \A q \in Senders \ {s} : count'[q] = count[q] /\ expires'[q] = expires[q]
  BY <1>1 DEF LimitTypeOK, Increment
<1> QED BY <1>5, <1>6 DEF LimitTypeOK, hit

LEMMA LogStays ==
  ASSUME NEW s, LogInv(s), log'[s] = log[s], count'[s] = count[s], expires'[s] = expires[s], now' = now
  PROVE  LogInv(s)'
BY DEF LogInv, LastIsCounter, HitIsRight, HitsInOrder

LEMMA IncrementKeeps ==
  ASSUME LimitInv, NEW s \in Senders, NEW answer \in {"allowed", "refused", "open"},
         Increment(s, answer),
         answer = "allowed" => Counted(s) <= Points,
         answer = "refused" => Counted(s) > Points
  PROVE  LimitInv'
<1> DEFINE m == Len(log[s]) + 1
           hit == [at |-> now, value |-> Counted(s), until |-> Expiry(s), answer |-> answer]
<1>1. LimitTypeOK
  BY DEF LimitInv
<1>2. /\ LimitTypeOK' /\ now' = now
      /\ count'[s] = Counted(s) /\ expires'[s] = Expiry(s) /\ log'[s] = Append(log[s], hit)
      /\ \A q \in Senders \ {s} : count'[q] = count[q] /\ expires'[q] = expires[q] /\ log'[q] = log[q]
  BY <1>1, IncrementTypes
<1>3. \A q \in Senders \ {s} : LogInv(q)'
  BY <1>2, LogStays DEF LimitInv
<1>4. /\ Len(log[s]) \in Nat /\ DOMAIN log[s] = 1..Len(log[s])
      /\ \A i \in DOMAIN log[s] :
           /\ log[s][i].at \in Nat /\ log[s][i].until \in Nat /\ log[s][i].value \in Nat
      /\ now \in Nat /\ count[s] \in Nat /\ expires[s] \in Nat
      /\ Window \in Nat /\ Window > 0
  BY <1>1, HitsAre
<1>5. log[s] \in Seq(Hits)
  BY <1>1 DEF LimitTypeOK
<1>6. /\ hit.at = now /\ hit.value = Counted(s) /\ hit.until = Expiry(s) /\ hit.answer = answer
      /\ Counted(s) \in Nat /\ Expiry(s) \in Nat
  BY <1>4 DEF Counted, Expiry
<1> HIDE DEF hit
<1>7. /\ DOMAIN log'[s] = 1..m /\ Len(log'[s]) = m /\ log'[s][m] = hit
      /\ \A i \in DOMAIN log[s] : i \in 1..m /\ i < m /\ log'[s][i] = log[s][i]
      /\ \A i \in 1..m : i = m \/ i \in DOMAIN log[s]
  BY <1>2, <1>4, <1>5
<1>8. LastIsCounter(s)'
  BY <1>2, <1>4, <1>6, <1>7 DEF LastIsCounter
<1>9. /\ \A i \in DOMAIN log[s] : HitIsRight(s, i)
      /\ \A i, j \in DOMAIN log[s] : HitsInOrder(s, i, j)
      /\ LastIsCounter(s)
  BY DEF LimitInv, LogInv
\* The new increment against an earlier one.
<1>10. ASSUME NEW i \in DOMAIN log[s]
       PROVE  /\ log[s][i].at <= now
              /\ IF Live(s) THEN \/ log[s][i].until = expires[s] /\ log[s][i].value <= count[s]
                                 \/ log[s][i].until + Window <= expires[s]
                            ELSE log[s][i].until <= now
  <2> DEFINE n == Len(log[s])
  <2>1. n \in DOMAIN log[s] /\ n > 0
    BY <1>4
  <2>2. log[s][n].value = count[s] /\ log[s][n].until = expires[s]
    BY <1>9, <2>1 DEF LastIsCounter
  <2>3. HitIsRight(s, i) /\ HitIsRight(s, n) /\ HitsInOrder(s, i, n)
    BY <1>9, <2>1
  <2>4. log[s][i].at <= now
    BY <2>3 DEF HitIsRight
  <2>5. \/ log[s][i].until = expires[s] /\ log[s][i].value <= count[s]
        \/ log[s][i].until + Window <= expires[s]
    BY <1>4, <2>1, <2>2, <2>3 DEF HitsInOrder
  <2>6. count[s] > 0
    BY <2>2, <2>3 DEF HitIsRight
  <2> QED BY <1>4, <2>4, <2>5, <2>6 DEF Live
<1>11. ASSUME NEW i \in 1..m PROVE HitIsRight(s, i)'
  <2>1. CASE i # m
    <3>1. i \in DOMAIN log[s] /\ HitIsRight(s, i)
      BY <1>7, <1>9, <2>1
    <3>2. \A j \in 1..i : log'[s][j] = log[s][j]
      BY <1>4, <1>7, <3>1
    <3>3. log'[s][i] = log[s][i]
      BY <1>7, <3>1
    <3> QED BY <1>2, <3>1, <3>2, <3>3 DEF HitIsRight
  <2>2. CASE i = m
    <3>1. /\ hit.value > 0 /\ hit.at <= now'
          /\ hit.answer = "allowed" => hit.value <= Points
          /\ hit.answer = "refused" => hit.value > Points
      BY <1>2, <1>4, <1>6 DEF Counted
    <3>2. hit.at < hit.until /\ hit.until <= hit.at + Window
      <4>1. CASE ~Live(s)
        BY <1>4, <1>6, <4>1 DEF Expiry
      <4>2. CASE Live(s)
        <5> DEFINE n == Len(log[s])
        <5>1. n \in DOMAIN log[s] /\ log[s][n].until = expires[s]
          BY <1>4, <1>9, <4>2 DEF LastIsCounter, Live
        <5>2. expires[s] <= log[s][n].at + Window /\ log[s][n].at <= now
          BY <1>9, <5>1 DEF HitIsRight
        <5> QED BY <1>4, <1>6, <4>2, <5>1, <5>2 DEF Expiry, Live
      <4> QED BY <4>1, <4>2
    <3>3. ASSUME NEW n \in 1..hit.value
          PROVE  \E j \in 1..m : log'[s][j].until = hit.until /\ log'[s][j].value = n
      <4>1. CASE n = hit.value
        <5>1. m \in 1..m
          BY <1>4
        <5> QED BY <1>7, <4>1, <5>1
      <4>2. CASE n # hit.value
        <5> DEFINE k == Len(log[s])
        <5>1. Live(s) /\ n \in 1..count[s]
          BY <1>4, <1>6, <4>2 DEF Counted
        <5>2. k \in DOMAIN log[s] /\ log[s][k].until = expires[s] /\ log[s][k].value = count[s]
          BY <1>4, <1>9, <5>1 DEF LastIsCounter, Live
        <5>3. PICK j \in 1..k : log[s][j].until = log[s][k].until /\ log[s][j].value = n
          BY <1>9, <5>1, <5>2 DEF HitIsRight
        <5>4. j \in DOMAIN log[s] /\ hit.until = expires[s]
          BY <1>4, <1>6, <5>1, <5>3 DEF Expiry
        <5> QED BY <1>7, <5>2, <5>3, <5>4
      <4> QED BY <4>1, <4>2
    <3> QED BY <1>7, <2>2, <3>1, <3>2, <3>3 DEF HitIsRight
  <2> QED BY <2>1, <2>2
<1>12. ASSUME NEW i \in 1..m, NEW j \in 1..m PROVE HitsInOrder(s, i, j)'
  <2>1. CASE i \in DOMAIN log[s] /\ j \in DOMAIN log[s]
    BY <1>7, <1>9, <2>1 DEF HitsInOrder
  <2>2. CASE i \in DOMAIN log[s] /\ j = m
    <3>1. /\ log'[s][i] = log[s][i] /\ log'[s][j] = hit /\ hit.at = now
          /\ log[s][i].at <= now /\ log[s][i].until \in Nat /\ log[s][i].value \in Nat
      BY <1>4, <1>6, <1>7, <1>10, <2>2
    <3>2. CASE Live(s)
      <4>1. hit.until = expires[s] /\ hit.value = count[s] + 1
        BY <1>6, <3>2 DEF Expiry, Counted
      <4>2. \/ log[s][i].until = expires[s] /\ log[s][i].value <= count[s]
            \/ log[s][i].until + Window <= expires[s]
        BY <1>10, <2>2, <3>2
      <4>3. \/ log[s][i].until = hit.until /\ log[s][i].value < hit.value
            \/ log[s][i].until + Window <= hit.until
        BY <1>4, <3>1, <4>1, <4>2
      <4> QED BY <3>1, <4>3 DEF HitsInOrder
    <3>3. CASE ~Live(s)
      <4>1. hit.until = now + Window
        BY <1>6, <3>3 DEF Expiry
      <4>2. log[s][i].until <= now
        BY <1>10, <2>2, <3>3
      <4>3. log[s][i].until + Window <= hit.until
        BY <1>4, <3>1, <4>1, <4>2
      <4> QED BY <3>1, <4>3 DEF HitsInOrder
    <3> QED BY <3>2, <3>3
  <2>3. CASE i = m
    BY <1>4, <2>3 DEF HitsInOrder
  <2> QED BY <1>7, <2>1, <2>2, <2>3
<1>13. LogInv(s)'
  BY <1>7, <1>8, <1>11, <1>12 DEF LogInv
<1> QED BY <1>2, <1>3, <1>13 DEF LimitInv

\* Time passing, and a limiter that is left alone.
LEMMA TimeKeeps ==
  ASSUME LimitInv, UNCHANGED counterVars, now' \in Instants, now <= now'
  PROVE  LimitInv'
<1>1. LimitTypeOK /\ LimitTypeOK' /\ count' = count /\ expires' = expires /\ log' = log
  BY DEF LimitInv, LimitTypeOK, counterVars
<1>2. ASSUME NEW s \in Senders PROVE LogInv(s)'
  <2>1. LogInv(s) /\ \A i \in DOMAIN log[s] : log[s][i].at \in Nat /\ now \in Nat /\ now' \in Nat
    BY <1>1, HitsAre DEF LimitInv, Instants
  <2>2. ASSUME NEW i \in DOMAIN log[s] PROVE HitIsRight(s, i)'
    BY <1>1, <2>1 DEF LogInv, HitIsRight
  <2> QED BY <1>1, <2>1, <2>2 DEF LogInv, LastIsCounter, HitsInOrder
<1> QED BY <1>1, <1>2 DEF LimitInv

LEMMA TickKeeps ==
  ASSUME LimitInv, Tick
  PROVE  LimitInv'
<1>1. now' \in Instants /\ now <= now'
  BY WindowAssumption DEF Tick, Instants, LimitInv, LimitTypeOK
<1> QED BY <1>1, TimeKeeps DEF Tick

LEMMA LimiterKeeps ==
  ASSUME LimitInv, NEW s \in Senders, Allow(s) \/ Refuse(s) \/ FailOpen(s)
  PROVE  LimitInv'
<1>1. CASE UNCHANGED limitVars
  <2>1. now' \in Instants /\ now <= now'
    BY <1>1 DEF limitVars, Instants, LimitInv, LimitTypeOK
  <2> QED BY <1>1, <2>1, TimeKeeps DEF limitVars
<1>2. CASE Allow(s) \/ Refuse(s) \/ Increment(s, "open")
  BY <1>2, IncrementKeeps DEF Allow, Refuse
<1> QED BY <1>1, <1>2 DEF FailOpen

\* Admitted increments of one span have at most two windows, and at most
\* Points numbers.
LEMMA FewAreAdmitted == LimitInv => AdmittedAreFew
<1> SUFFICES ASSUME LimitInv, NEW s \in Senders, NEW t \in Instants
             PROVE  Cardinality({i \in During(s, t, t + Window - 1) : log[s][i].answer = "allowed"})
                      <= 2 * Points
  BY DEF AdmittedAreFew
<1> DEFINE S == {i \in During(s, t, t + Window - 1) : log[s][i].answer = "allowed"}
           T == (1..2) \X (1..Points)
<1>1. /\ DOMAIN log[s] = 1..Len(log[s]) /\ Len(log[s]) \in Nat
      /\ \A i \in DOMAIN log[s] :
           /\ log[s][i].at \in Nat /\ log[s][i].until \in Nat /\ log[s][i].value \in Nat
           /\ HitIsRight(s, i)
      /\ \A i, j \in DOMAIN log[s] : HitsInOrder(s, i, j)
      /\ Points \in Nat /\ Window \in Nat /\ Window > 0 /\ t \in Nat
  BY HitsAre DEF LimitInv, LogInv, Instants
<1>2. ASSUME NEW i \in S
      PROVE  /\ i \in DOMAIN log[s] /\ t <= log[s][i].at /\ log[s][i].at < t + Window
             /\ t < log[s][i].until /\ log[s][i].until < t + Window + Window
             /\ log[s][i].value \in 1..Points /\ log[s][i].until \in Nat
  <2>1. i \in DOMAIN log[s] /\ log[s][i].at \in t..(t + Window - 1) /\ log[s][i].answer = "allowed"
    BY DEF During
  <2>2. /\ log[s][i].at \in Nat /\ log[s][i].until \in Nat /\ log[s][i].value \in Nat
        /\ log[s][i].value > 0 /\ log[s][i].value <= Points
        /\ log[s][i].at < log[s][i].until /\ log[s][i].until <= log[s][i].at + Window
    BY <1>1, <2>1 DEF HitIsRight
  <2>3. t <= log[s][i].at /\ log[s][i].at < t + Window
    BY <1>1, <2>1
  <2> DEFINE a == log[s][i].at  b == log[s][i].until
  <2>4. a \in Nat /\ b \in Nat /\ t <= a /\ a < t + Window /\ a < b /\ b <= a + Window
    BY <2>2, <2>3
  <2> HIDE DEF a, b
  <2>5. t < b /\ b < t + Window + Window
    BY <1>1, <2>4
  <2>6. log[s][i].value \in 1..Points
    BY <1>1, <2>2
  <2> QED BY <2>1, <2>3, <2>4, <2>5, <2>6 DEF a, b
<1>3. ASSUME NEW i \in S, NEW j \in S
      PROVE  \/ i = j
             \/ log[s][i].until = log[s][j].until /\ log[s][i].value # log[s][j].value
             \/ log[s][i].until + Window <= log[s][j].until
             \/ log[s][j].until + Window <= log[s][i].until
  <2>1. i \in DOMAIN log[s] /\ j \in DOMAIN log[s] /\ (i < j \/ j < i \/ i = j)
    BY <1>1, <1>2
  <2>2. log[s][i].value \in Nat /\ log[s][j].value \in Nat
    BY <1>1, <2>1
  <2>3. HitsInOrder(s, i, j) /\ HitsInOrder(s, j, i)
    BY <1>1, <2>1
  <2> HIDE DEF S
  <2> QED BY <2>1, <2>2, <2>3 DEF HitsInOrder
<1>4. \E u : \A i, j \in S : log[s][i].until # u /\ log[s][j].until # u => log[s][i].until = log[s][j].until
  <2>1. CASE S = {}
    BY <2>1
  <2>2. CASE S # {}
    <3>1. PICK k \in S : TRUE
      BY <2>2
    <3> DEFINE u == log[s][k].until
    <3>2. ASSUME NEW i \in S, NEW j \in S, log[s][i].until # u, log[s][j].until # u
          PROVE  log[s][i].until = log[s][j].until
      <4> DEFINE a == log[s][i].until  b == log[s][j].until
      <4>1. /\ a \in Nat /\ b \in Nat /\ u \in Nat /\ Window \in Nat /\ t \in Nat
            /\ t < a /\ a < t + Window + Window /\ t < b /\ b < t + Window + Window
            /\ t < u /\ u < t + Window + Window
        BY <1>1, <1>2, <3>1
      <4>2. /\ a = b \/ a + Window <= b \/ b + Window <= a
            /\ a = u \/ a + Window <= u \/ u + Window <= a
            /\ b = u \/ b + Window <= u \/ u + Window <= b
        BY <1>3, <3>1
      <4> HIDE DEF a, b, u
      <4>3. a # u /\ b # u => a = b
        BY <4>1, <4>2
      <4> QED BY <3>2, <4>3 DEF a, b, u
    <3> QED BY <3>2
  <2> QED BY <2>1, <2>2
<1>5. PICK u : \A i, j \in S : log[s][i].until # u /\ log[s][j].until # u => log[s][i].until = log[s][j].until
  BY <1>4
<1> DEFINE f == [i \in S |-> <<IF log[s][i].until = u THEN 1 ELSE 2, log[s][i].value>>]
<1> HIDE DEF S
<1>6. f \in [S -> T]
  BY <1>2
<1>7. ASSUME NEW i \in S, NEW j \in S, f[i] = f[j] PROVE i = j
  <2>1. /\ log[s][i].value = log[s][j].value
        /\ (IF log[s][i].until = u THEN 1 ELSE 2) = (IF log[s][j].until = u THEN 1 ELSE 2)
    BY <1>7
  <2>2. log[s][i].until = log[s][j].until
    BY <1>5, <2>1
  <2>3. log[s][i].until \in Nat /\ log[s][j].until \in Nat
    BY <1>2
  <2>4. ~(log[s][i].until + Window <= log[s][j].until) /\ ~(log[s][j].until + Window <= log[s][i].until)
    BY <1>1, <2>2, <2>3
  <2> QED BY <1>3, <2>1, <2>2, <2>4
<1>8. f \in Injection(S, T)
  BY <1>6, <1>7 DEF Injection, IsInjective
<1>9. IsFiniteSet(T) /\ Cardinality(T) = 2 * Points
  <2>1. /\ IsFiniteSet(1..2) /\ Cardinality(1..2) = 2
        /\ IsFiniteSet(1..Points) /\ Cardinality(1..Points) = Points
    <3>1. IsFiniteSet(1..2) /\ Cardinality(1..2) = 2
      <4>1. 1 \in Int /\ 2 \in Int /\ ~(1 > 2) /\ 2 - 1 + 1 = 2
        OBVIOUS
      <4>2. IsFiniteSet(1..2) /\ Cardinality(1..2) = IF 1 > 2 THEN 0 ELSE 2 - 1 + 1
        BY <4>1, FS_Interval
      <4> QED BY <4>1, <4>2
    <3>2. IsFiniteSet(1..Points) /\ Cardinality(1..Points) = Points
      <4>1. 1 \in Int /\ Points \in Int
        BY <1>1
      <4>2. IsFiniteSet(1..Points)
            /\ Cardinality(1..Points) = IF 1 > Points THEN 0 ELSE Points - 1 + 1
        BY <4>1, FS_Interval
      <4>3. (IF 1 > Points THEN 0 ELSE Points - 1 + 1) = Points
        BY <1>1
      <4> QED BY <4>2, <4>3
    <3> QED BY <3>1, <3>2
  <2> HIDE DEF T
  <2>2. /\ IsFiniteSet((1..2) \X (1..Points))
        /\ Cardinality((1..2) \X (1..Points)) = Cardinality(1..2) * Cardinality(1..Points)
    BY <2>1, FS_Product
  <2> QED BY <2>1, <2>2 DEF T
<1> HIDE DEF f, T
<1>10. Cardinality(S) <= Cardinality(T)
  BY <1>8, <1>9, FS_Injection
<1> QED BY <1>9, <1>10 DEF S

\* The increments the counter counted up to a refused one fall in a window's
\* length before it, and the window ends within one after it.
LEMMA RefusalsAreFair == LimitInv => RefusedHadTheirs
<1> SUFFICES ASSUME LimitInv, NEW s \in Senders, NEW i \in DOMAIN log[s], log[s][i].answer = "refused"
             PROVE  LET t == log[s][i].at IN
                    /\ Cardinality(During(s, t - Window + 1, t)) > Points
                    /\ now >= t + Window /\ During(s, t + 1, now) = {} => ~Live(s)
  BY DEF RefusedHadTheirs
<1> DEFINE t == log[s][i].at
           v == log[s][i].value
           S == During(s, t - Window + 1, t)
<1>1. /\ DOMAIN log[s] = 1..Len(log[s]) /\ Len(log[s]) \in Nat
      /\ \A j \in DOMAIN log[s] :
           /\ log[s][j].at \in Nat /\ log[s][j].until \in Nat /\ log[s][j].value \in Nat
           /\ HitIsRight(s, j)
      /\ \A j, k \in DOMAIN log[s] : HitsInOrder(s, j, k)
      /\ Points \in Nat /\ Window \in Nat /\ Window > 0 /\ now \in Nat /\ expires[s] \in Nat
      /\ LastIsCounter(s)
  BY HitsAre DEF LimitInv, LogInv
<1>2. Cardinality(S) > Points
  <2>1. /\ v > Points /\ v \in Nat /\ t \in Nat /\ t < log[s][i].until
        /\ \A n \in 1..v : \E j \in 1..i : log[s][j].until = log[s][i].until /\ log[s][j].value = n
    BY <1>1 DEF HitIsRight
  <2>2. ASSUME NEW n \in 1..v
        PROVE  \E j \in S : log[s][j].value = n
    <3>1. PICK j \in 1..i : log[s][j].until = log[s][i].until /\ log[s][j].value = n
      BY <2>1
    <3>2. j \in DOMAIN log[s] /\ log[s][j].until <= log[s][j].at + Window
      <4>1. j \in DOMAIN log[s]
        BY <1>1
      <4> QED BY <1>1, <4>1 DEF HitIsRight
    <3>3. log[s][j].at <= t
      <4>1. i \in DOMAIN log[s] /\ (j < i \/ j = i)
        BY <1>1
      <4>2. HitsInOrder(s, j, i)
        BY <1>1, <3>2, <4>1
      <4> QED BY <2>1, <4>1, <4>2 DEF HitsInOrder
    <3>4. log[s][j].at \in (t - Window + 1)..t
      <4> DEFINE a == log[s][j].at
      <4>1. a \in Nat /\ a <= t /\ log[s][i].until <= a + Window /\ log[s][i].until \in Nat
        BY <1>1, <3>1, <3>2, <3>3
      <4> HIDE DEF a
      <4>2. a \in (t - Window + 1)..t
        BY <1>1, <2>1, <4>1
      <4> QED BY <4>2 DEF a
    <3> QED BY <3>1, <3>2, <3>4 DEF During
  <2>3. IsFiniteSet(S)
    <3>1. S \in SUBSET (1..Len(log[s])) /\ IsFiniteSet(1..Len(log[s]))
      BY <1>1, FS_Interval DEF During
    <3> QED BY <3>1, FS_Subset
  <2> DEFINE f == [n \in 1..v |-> CHOOSE j \in S : log[s][j].value = n]
  <2> HIDE DEF S, v
  <2>4. \A n \in 1..v : f[n] \in S /\ log[s][f[n]].value = n
    BY <2>2
  <2>5. f \in Injection(1..v, S)
    BY <2>4 DEF Injection, IsInjective
  <2> HIDE DEF f
  <2>6. Cardinality(1..v) <= Cardinality(S)
    BY <2>3, <2>5, FS_Injection
  <2>7. Cardinality(1..v) = v
    BY <2>1, FS_Interval
  <2>8. Cardinality(S) \in Nat
    BY <2>3, FS_CardinalityType
  <2> QED BY <1>1, <2>1, <2>6, <2>7, <2>8
<1>3. ASSUME now >= t + Window, During(s, t + 1, now) = {} PROVE ~Live(s)
  <2> DEFINE n == Len(log[s])
  <2>1. n \in DOMAIN log[s] /\ log[s][n].until = expires[s]
    BY <1>1 DEF LastIsCounter
  <2>2. log[s][n].at <= now /\ expires[s] <= log[s][n].at + Window
    BY <1>1, <2>1 DEF HitIsRight
  <2>3. log[s][n].at \notin (t + 1)..now
    BY <1>3, <2>1 DEF During
  <2>4. log[s][n].at <= t
    BY <1>1, <2>1, <2>2, <2>3
  <2>5. expires[s] <= now
    <3> DEFINE a == log[s][n].at
    <3>1. a \in Nat /\ a <= t /\ t \in Nat /\ expires[s] <= a + Window /\ now >= t + Window
      BY <1>1, <1>3, <2>1, <2>2, <2>4
    <3> HIDE DEF a, t
    <3> QED BY <1>1, <3>1
  <2> QED BY <1>1, <2>5 DEF Live
<1> QED BY <1>2, <1>3

-----------------------------------------------------------------------------
(* The invariant of the bot *)

Carrying == {"link", "remember", "current", "default", "act"}
Handled == Carrying \union {"find", "insert"}

\* Storefronts user u may be shown: those he opened, and defaults.
Chosen(u, c) == <<u, c>> \in opened \/ c \in defaults

\* A handler runs on a replica; from its commands on it is of a registered
\* user, and the creator it has found is one he may be shown.
HandlerInv(x) ==
  /\ pc[x] \in Handled => at[x] \in Replicas
  /\ pc[x] \in Carrying => From[x] \in users
  /\ pc[x] = "link" => says[x].name = "start"
  /\ pc[x] = "remember" => target[x] \in Creators /\ <<From[x], target[x]>> \in opened
  /\ pc[x] = "act" => target[x] \in Creators /\ Chosen(From[x], target[x])

\* One registration for each user, and what sessions, the caches of the
\* replicas and the default slug lead to.
Registered(u) == registrations[u] = IF u \in users THEN 1 ELSE 0
SessionIsOpened(u) == session[u] # NoCreator => <<u, session[u]>> \in opened
DefaultsAreKnown ==
  /\ \A p \in Replicas : default[p] \in Creators => default[p] \in defaults
  /\ bySlug[DefaultSlug] # NoCreator => bySlug[DefaultSlug] \in defaults
ActedOnChosen == \A u \in Users, c \in Creators : <<u, c>> \in shown \union follows => Chosen(u, c)

RowsInv ==
  /\ \A u \in Users : Registered(u) /\ SessionIsOpened(u)
  /\ DefaultsAreKnown /\ ActedOnChosen

IInv ==
  /\ TypeOK /\ LimitInv
  /\ \A x \in Updates : HandlerInv(x)
  /\ RowsInv
-----------------------------------------------------------------------------
(* What a step leaves alone *)

\* Rows and what handlers hold stay right while users, links that were opened
\* and defaults are only added to.
LEMMA HandlersStay ==
  ASSUME NEW x, HandlerInv(x), pc'[x] = pc[x], at'[x] = at[x], target'[x] = target[x],
         says'[x] = says[x], users \subseteq users', opened \subseteq opened', defaults \subseteq defaults'
  PROVE  HandlerInv(x)'
BY DEF HandlerInv, Chosen

LEMMA RowsStay ==
  ASSUME RowsInv,
         UNCHANGED <<users, registrations, session, bySlug, default, shown, follows>>,
         opened \subseteq opened', defaults \subseteq defaults'
  PROVE  RowsInv'
BY DEF RowsInv, Registered, SessionIsOpened, DefaultsAreKnown, ActedOnChosen, Chosen

LEMMA LimitStays ==
  ASSUME LimitInv, UNCHANGED limitVars
  PROVE  LimitInv'
<1>1. now' \in Instants /\ now <= now'
  BY DEF limitVars, Instants, LimitInv, LimitTypeOK
<1> QED BY <1>1, TimeKeeps DEF limitVars

Places == Over \union Handled \union {"offered"}

LEMMA Goes ==
  ASSUME TypeOK, NEW x \in Updates, NEW where \in Places, Goto(x, where)
  PROVE  /\ pc' \in [Updates -> Places] /\ at' \in [Updates -> Replicas \union {NoReplica}]
         /\ pc'[x] = where /\ at'[x] = IF where \in Over THEN NoReplica ELSE at[x]
         /\ \A y \in Updates \ {x} : pc'[y] = pc[y] /\ at'[y] = at[y]
<1>1. pc \in [Updates -> Places] /\ at \in [Updates -> Replicas \union {NoReplica}]
  BY DEF TypeOK, Places, Handled, Carrying
<1> QED BY <1>1 DEF Goto

LEMMA FailuresAreCounted ==
  ASSUME TypeOK, UNCHANGED failures \/ Error
  PROVE  failures' \in 0..MaxFailures
BY BotBoundAssumption DEF TypeOK, Error

\* All a step of one handler has to show that leaves the limiter, the slugs
\* and the sessions alone.
LEMMA HandlerStepKeeps ==
  ASSUME IInv, NEW x \in Updates, NEW where \in Places, Goto(x, where),
         UNCHANGED <<limitVars, says, slugVars>>, UNCHANGED failures \/ Error,
         target' \in [Updates -> Creators \union {NoCreator}],
         \A y \in Updates \ {x} : target'[y] = target[y],
         HandlerInv(x)', RowsInv',
         users \subseteq users', opened \subseteq opened',
         users' \subseteq Users, registrations' \in [Users -> Nat],
         session' \in [Users -> Creators \union {NoCreator}],
         default' \in [Replicas -> Creators \union {NoCreator, Unresolved}],
         follows' \union shown' \union opened' \subseteq Users \X Creators
  PROVE  IInv'
<1>1. /\ pc' \in [Updates -> Places] /\ at' \in [Updates -> Replicas \union {NoReplica}]
      /\ \A y \in Updates \ {x} : pc'[y] = pc[y] /\ at'[y] = at[y]
  BY Goes DEF IInv
<1>2. LimitInv'
  BY LimitStays DEF IInv
<1>3. failures' \in 0..MaxFailures
  BY FailuresAreCounted DEF IInv
<1>4. says' = says /\ bySlug' = bySlug /\ edits' = edits /\ defaults' = defaults
  BY DEF slugVars
<1>5. TypeOK'
  BY <1>1, <1>2, <1>3, <1>4 DEF IInv, TypeOK, LimitInv, Places, Handled, Carrying
<1>6. \A y \in Updates \ {x} : HandlerInv(y)'
  BY <1>1, <1>4, HandlersStay DEF IInv
<1> QED BY <1>2, <1>5, <1>6 DEF IInv

\* The same for one that also leaves the rows alone.
LEMMA QuietStepKeeps ==
  ASSUME IInv, NEW x \in Updates, NEW where \in Places, Goto(x, where),
         UNCHANGED <<limitVars, says, slugVars, users, registrations, session, follows, default,
                     shown, opened>>,
         UNCHANGED failures \/ Error,
         target' \in [Updates -> Creators \union {NoCreator}],
         \A y \in Updates \ {x} : target'[y] = target[y],
         HandlerInv(x)'
  PROVE  IInv'
<1>1. /\ users' \subseteq Users /\ registrations' \in [Users -> Nat]
      /\ session' \in [Users -> Creators \union {NoCreator}]
      /\ default' \in [Replicas -> Creators \union {NoCreator, Unresolved}]
      /\ follows' \union shown' \union opened' \subseteq Users \X Creators
      /\ opened' = opened /\ users' = users
  BY DEF IInv, TypeOK
<1>2. RowsInv'
  BY RowsStay DEF IInv, slugVars
<1> QED BY <1>1, <1>2, HandlerStepKeeps

-----------------------------------------------------------------------------
(* The middleware *)

LEMMA EntryIs ==
  ASSUME NEW x
  PROVE  Entry(x) \in {"link", "current"} /\ (Entry(x) = "link" => says[x].name = "start")
BY DEF Entry

LEMMA LimitKeeps ==
  ASSUME IInv, NEW x \in Updates, NEW p \in Replicas, Limit(x, p)
  PROVE  IInv'
<1>1. /\ pc[x] = "offered"
      /\ UNCHANGED <<says, target, users, registrations, session, follows, default, shown, opened,
                     slugVars>>
      /\ Allow(From[x]) \/ FailOpen(From[x]) \/ Refuse(From[x])
  BY DEF Limit
<1>2. \/ pc' = [pc EXCEPT ![x] = "find"] /\ at' = [at EXCEPT ![x] = p]
      \/ pc' = [pc EXCEPT ![x] = "limited"] /\ at' = [at EXCEPT ![x] = NoReplica]
  BY DEF Limit, Goto, Over
<1>3. /\ pc' \in [Updates -> Places] /\ at' \in [Updates -> Replicas \union {NoReplica}]
      /\ (pc'[x] = "find" /\ at'[x] = p) \/ pc'[x] = "limited"
      /\ \A y \in Updates \ {x} : pc'[y] = pc[y] /\ at'[y] = at[y]
  BY <1>2 DEF IInv, TypeOK, Places, Handled, Carrying, Over
<1>4. LimitInv'
  <2>1. From[x] \in Senders
    BY UpdateAssumption DEF Users
  <2> QED BY <1>1, <2>1, LimiterKeeps DEF IInv
<1>5. failures' \in 0..MaxFailures
  <2>1. UNCHANGED failures \/ Error
    BY DEF Limit
  <2> QED BY <2>1, FailuresAreCounted DEF IInv
<1>6. TypeOK'
  BY <1>1, <1>3, <1>4, <1>5 DEF IInv, TypeOK, LimitInv, slugVars, Places, Handled, Carrying
<1>7. RowsInv'
  BY <1>1, RowsStay DEF IInv, slugVars
<1>8. \A y \in Updates \ {x} : HandlerInv(y)'
  BY <1>1, <1>3, HandlersStay DEF IInv, slugVars
<1>9. HandlerInv(x)'
  BY <1>3 DEF HandlerInv, Handled, Carrying
<1> QED BY <1>4, <1>6, <1>7, <1>8, <1>9 DEF IInv

LEMMA FailKeeps ==
  ASSUME IInv, NEW x \in Updates, Fail(x)
  PROVE  IInv'
<1>1. "apology" \in Places /\ "apology" \notin Handled
  BY DEF Places, Over, Handled, Carrying
<1>2. /\ Error /\ Goto(x, "apology")
      /\ UNCHANGED <<limitVars, says, target, users, registrations, session, follows, default,
                     shown, opened, slugVars>>
  BY DEF Fail
<1>3. HandlerInv(x)'
  BY <1>1, <1>2, Goes DEF IInv, HandlerInv, Handled, Carrying
<1> QED BY <1>1, <1>2, <1>3, QuietStepKeeps DEF IInv, TypeOK

LEMMA FindKeeps ==
  ASSUME IInv, NEW x \in Updates, Find(x)
  PROVE  IInv'
<1> DEFINE where == IF From[x] \in users THEN Entry(x) ELSE "insert"
<1>1. /\ where \in Places /\ where \notin Over
      /\ where = "insert" \/ (where \in {"link", "current"} /\ From[x] \in users)
      /\ where = "link" => says[x].name = "start"
  <2>1. CASE From[x] \in users
    BY <2>1, EntryIs DEF Places, Over, Handled, Carrying
  <2>2. CASE From[x] \notin users
    BY <2>2 DEF Places, Over, Handled, Carrying
  <2> QED BY <2>1, <2>2
<1>2. /\ pc[x] = "find" /\ Goto(x, where)
      /\ UNCHANGED <<limitVars, says, target, users, registrations, session, follows, default,
                     failures, shown, opened, slugVars>>
  BY DEF Find
<1> HIDE DEF where
<1>3. at[x] \in Replicas
  BY <1>2 DEF IInv, HandlerInv, Handled
<1>4. pc'[x] = where /\ at'[x] = at[x]
  BY <1>1, <1>2, Goes DEF IInv
<1>5. HandlerInv(x)'
  <2>1. says' = says /\ users' = users
    BY <1>2
  <2>2. CASE where = "insert"
    BY <1>3, <1>4, <2>2 DEF HandlerInv, Carrying
  <2>3. CASE where \in {"link", "current"} /\ From[x] \in users
    BY <1>1, <1>3, <1>4, <2>1, <2>3 DEF HandlerInv
  <2> QED BY <1>1, <2>2, <2>3
<1> QED BY <1>1, <1>2, <1>5, QuietStepKeeps DEF IInv, TypeOK

\* The insert of a user who is there already fails, so he has one registration.
LEMMA InsertKeeps ==
  ASSUME IInv, NEW x \in Updates, Insert(x)
  PROVE  IInv'
<1> DEFINE u == From[x]
<1>1. /\ pc[x] = "insert"
      /\ UNCHANGED <<limitVars, says, target, session, follows, default, failures, shown, opened,
                     slugVars>>
  BY DEF Insert
<1>2. at[x] \in Replicas /\ u \in Users
  BY <1>1, UpdateAssumption DEF IInv, HandlerInv, Handled
<1>3. CASE Taken(u)
  <2>1. Goto(x, "apology") /\ users' = users /\ registrations' = registrations
    BY <1>3 DEF Insert
  <2>2. "apology" \in Places /\ "apology" \notin Handled
    BY DEF Places, Over, Handled, Carrying
  <2>3. HandlerInv(x)'
    BY <2>1, <2>2, Goes DEF IInv, HandlerInv, Handled, Carrying
  <2> QED BY <1>1, <2>1, <2>2, <2>3, QuietStepKeeps DEF IInv, TypeOK
<1>4. CASE ~Taken(u)
  <2>1. /\ users' = users \union {u} /\ registrations' = [registrations EXCEPT ![u] = @ + 1]
        /\ Goto(x, Entry(x)) /\ u \notin users
    BY <1>4 DEF Insert, Taken
  <2>2. Entry(x) \in Places /\ Entry(x) \notin Over /\ Entry(x) \in {"link", "current"}
        /\ (Entry(x) = "link" => says[x].name = "start")
    BY EntryIs DEF Places, Over, Handled, Carrying
  <2>3. pc'[x] = Entry(x) /\ at'[x] = at[x]
    BY <2>1, <2>2, Goes DEF IInv
  <2>4. HandlerInv(x)'
    BY <1>1, <1>2, <2>1, <2>2, <2>3 DEF HandlerInv
  <2>5. registrations \in [Users -> Nat] /\ users \subseteq Users
    BY DEF IInv, TypeOK
  <2>6. ASSUME NEW v \in Users PROVE Registered(v)'
    <3>1. Registered(v)
      BY DEF IInv, RowsInv
    <3>2. CASE v = u
      BY <2>1, <2>5, <3>1, <3>2 DEF Registered
    <3>3. CASE v # u
      BY <2>1, <2>5, <3>1, <3>3 DEF Registered
    <3> QED BY <3>2, <3>3
  <2>7. RowsInv'
    BY <1>1, <2>6 DEF IInv, RowsInv, SessionIsOpened, DefaultsAreKnown, ActedOnChosen, Chosen, slugVars
  <2>8. users' \subseteq Users /\ registrations' \in [Users -> Nat] /\ users \subseteq users'
    BY <1>2, <2>1, <2>5
  <2>9. /\ session' \in [Users -> Creators \union {NoCreator}]
        /\ default' \in [Replicas -> Creators \union {NoCreator, Unresolved}]
        /\ follows' \union shown' \union opened' \subseteq Users \X Creators
        /\ target' \in [Updates -> Creators \union {NoCreator}]
        /\ opened \subseteq opened' /\ \A y \in Updates \ {x} : target'[y] = target[y]
    BY <1>1 DEF IInv, TypeOK
  <2> QED BY <1>1, <2>1, <2>2, <2>4, <2>7, <2>8, <2>9, HandlerStepKeeps
<1> QED BY <1>3, <1>4

-----------------------------------------------------------------------------
(* CreatorContext and the commands *)

\* A handler that resolves a creator who may be shown, or none.
LEMMA ResolvedKeeps ==
  ASSUME IInv, NEW x \in Updates, pc[x] \in {"current", "default"},
         NEW c \in Creators \union {NoCreator}, Resolved(x, c),
         c # NoCreator => Chosen(From[x], c),
         UNCHANGED <<limitVars, says, users, registrations, session, follows, failures, shown,
                     opened, slugVars>>,
         default' \in [Replicas -> Creators \union {NoCreator, Unresolved}],
         \A p \in Replicas : default'[p] \in Creators => default'[p] \in defaults
  PROVE  IInv'
<1> DEFINE where == IF c = NoCreator THEN "answered" ELSE "act"
<1>1. where \in Places /\ where \in {"answered", "act"} /\ "answered" \in Over /\ "act" \notin Over
      /\ (where = "act" => c # NoCreator) /\ "answered" \notin Handled
  BY DEF Places, Over, Handled, Carrying
<1>2. Goto(x, where) /\ target' = [target EXCEPT ![x] = c]
  BY DEF Resolved
<1> HIDE DEF where
<1>3. at[x] \in Replicas /\ From[x] \in users
  BY DEF IInv, HandlerInv, Handled, Carrying
<1>4. /\ target' \in [Updates -> Creators \union {NoCreator}] /\ target'[x] = c
      /\ \A y \in Updates \ {x} : target'[y] = target[y]
  BY <1>2 DEF IInv, TypeOK
<1>5. pc'[x] = where /\ (where = "act" => at'[x] = at[x])
  BY <1>1, <1>2, Goes DEF IInv
<1>6. HandlerInv(x)'
  BY <1>1, <1>3, <1>4, <1>5 DEF HandlerInv, Chosen, Handled, Carrying, slugVars
<1>7. RowsInv'
  BY DEF IInv, RowsInv, Registered, SessionIsOpened, DefaultsAreKnown, ActedOnChosen, Chosen, slugVars
<1>8. /\ users' \subseteq Users /\ registrations' \in [Users -> Nat]
      /\ session' \in [Users -> Creators \union {NoCreator}]
      /\ follows' \union shown' \union opened' \subseteq Users \X Creators
      /\ opened \subseteq opened' /\ users \subseteq users'
  BY DEF IInv, TypeOK
<1> QED BY <1>1, <1>2, <1>4, <1>6, <1>7, <1>8, HandlerStepKeeps

LEMMA CurrentKeeps ==
  ASSUME IInv, NEW x \in Updates, Current(x)
  PROVE  IInv'
<1> DEFINE c == session[From[x]]  d == default[at[x]]
<1>1. /\ pc[x] = "current"
      /\ UNCHANGED <<limitVars, says, users, registrations, session, follows, default, failures,
                     shown, opened, slugVars>>
  BY DEF Current
<1>2. From[x] \in Users /\ at[x] \in Replicas
  BY <1>1, UpdateAssumption DEF IInv, HandlerInv, Handled, Carrying
<1>3. /\ c \in Creators \union {NoCreator} /\ (c # NoCreator => Chosen(From[x], c))
      /\ d \in Creators \union {NoCreator, Unresolved}
      /\ (d \in Creators => Chosen(From[x], d))
  BY <1>2 DEF IInv, TypeOK, RowsInv, SessionIsOpened, DefaultsAreKnown, Chosen
<1>4. /\ default' \in [Replicas -> Creators \union {NoCreator, Unresolved}]
      /\ \A p \in Replicas : default'[p] \in Creators => default'[p] \in defaults
  BY <1>1 DEF IInv, TypeOK, RowsInv, DefaultsAreKnown
<1>5. CASE c # NoCreator
  <2>1. Resolved(x, c)
    BY <1>5 DEF Current
  <2> QED BY <1>1, <1>3, <1>4, <1>5, <2>1, ResolvedKeeps
<1>6. CASE c = NoCreator /\ d # Unresolved
  <2>1. Resolved(x, d) /\ d \in Creators \union {NoCreator} /\ (d # NoCreator => d \in Creators)
    BY <1>3, <1>6 DEF Current
  <2> QED BY <1>1, <1>3, <1>4, <1>6, <2>1, ResolvedKeeps
<1>7. CASE c = NoCreator /\ d = Unresolved
  <2>1. Goto(x, "default") /\ target' = target
    BY <1>7 DEF Current
  <2>2. "default" \in Places /\ "default" \notin Over
    BY DEF Places, Over, Handled, Carrying
  <2>3. pc'[x] = "default" /\ at'[x] = at[x] /\ From[x] \in users'
    BY <1>1, <2>1, <2>2, Goes DEF IInv, HandlerInv, Carrying
  <2>4. HandlerInv(x)'
    BY <1>2, <2>3 DEF HandlerInv
  <2> QED BY <1>1, <2>1, <2>2, <2>4, QuietStepKeeps DEF IInv, TypeOK
<1> QED BY <1>5, <1>6, <1>7

LEMMA DefaultKeeps ==
  ASSUME IInv, NEW x \in Updates, Default(x)
  PROVE  IInv'
<1> DEFINE c == bySlug[DefaultSlug]
<1>1. /\ pc[x] = "default" /\ default' = [default EXCEPT ![at[x]] = c] /\ Resolved(x, c)
      /\ UNCHANGED <<limitVars, says, users, registrations, session, follows, failures, shown,
                     opened, slugVars>>
  BY DEF Default
<1>2. c \in Creators \union {NoCreator} /\ (c # NoCreator => c \in defaults /\ Chosen(From[x], c))
  BY SlugAssumption DEF IInv, TypeOK, RowsInv, DefaultsAreKnown, Chosen
<1>3. at[x] \in Replicas
  BY <1>1 DEF IInv, HandlerInv, Handled, Carrying
<1>4. /\ default' \in [Replicas -> Creators \union {NoCreator, Unresolved}]
      /\ \A p \in Replicas : default'[p] \in Creators => default'[p] \in defaults
  BY <1>1, <1>2, <1>3, SlugAssumption DEF IInv, TypeOK, RowsInv, DefaultsAreKnown
<1> QED BY <1>1, <1>2, <1>4, ResolvedKeeps

LEMMA LinkKeeps ==
  ASSUME IInv, NEW x \in Updates, Link(x)
  PROVE  IInv'
<1> DEFINE c == bySlug[says[x].slug]
<1>1. /\ pc[x] = "link"
      /\ UNCHANGED <<limitVars, says, users, registrations, session, follows, default, failures,
                     shown, slugVars>>
  BY DEF Link
<1>2. From[x] \in users /\ at[x] \in Replicas /\ From[x] \in Users
  BY <1>1, UpdateAssumption DEF IInv, HandlerInv, Handled, Carrying
<1>3. {"current", "remember"} \subseteq Places /\ "current" \notin Over /\ "remember" \notin Over
  BY DEF Places, Over, Handled, Carrying
<1>4. CASE c = NoCreator
  <2>1. Goto(x, "current") /\ target' = target /\ opened' = opened
    BY <1>4 DEF Link
  <2>2. pc'[x] = "current" /\ at'[x] = at[x] /\ From[x] \in users'
    BY <1>1, <1>2, <1>3, <2>1, Goes DEF IInv
  <2>3. HandlerInv(x)'
    BY <1>2, <2>2 DEF HandlerInv
  <2> QED BY <1>1, <1>3, <2>1, <2>3, QuietStepKeeps DEF IInv, TypeOK
<1>5. CASE c # NoCreator
  <2>1. /\ Goto(x, "remember") /\ target' = [target EXCEPT ![x] = c]
        /\ opened' = opened \union {<<From[x], c>>}
    BY <1>5 DEF Link
  <2>2. c \in Creators
    <3>1. says[x] \in Commands /\ says[x].name = "start"
      BY <1>1 DEF IInv, TypeOK, HandlerInv
    <3>2. says[x].slug \in Slugs
      BY <3>1 DEF Commands
    <3> QED BY <1>5, <3>2 DEF IInv, TypeOK
  <2>3. /\ target' \in [Updates -> Creators \union {NoCreator}] /\ target'[x] = c
        /\ \A y \in Updates \ {x} : target'[y] = target[y]
    BY <2>1, <2>2 DEF IInv, TypeOK
  <2>4. pc'[x] = "remember" /\ at'[x] = at[x] /\ From[x] \in users'
    BY <1>1, <1>2, <1>3, <2>1, Goes DEF IInv
  <2>5. HandlerInv(x)'
    BY <1>2, <2>1, <2>2, <2>3, <2>4 DEF HandlerInv
  <2>6. RowsInv'
    BY <1>1, <2>1, RowsStay DEF IInv, slugVars
  <2>7. /\ users' \subseteq Users /\ registrations' \in [Users -> Nat]
        /\ session' \in [Users -> Creators \union {NoCreator}]
        /\ default' \in [Replicas -> Creators \union {NoCreator, Unresolved}]
        /\ follows' \union shown' \union opened' \subseteq Users \X Creators
        /\ opened \subseteq opened' /\ users \subseteq users'
    BY <1>1, <1>2, <2>1, <2>2 DEF IInv, TypeOK
  <2> QED BY <1>1, <1>3, <2>1, <2>3, <2>5, <2>6, <2>7, HandlerStepKeeps
<1> QED BY <1>4, <1>5

\* The session of the user is written, and nobody else's.
LEMMA RememberKeeps ==
  ASSUME IInv, NEW x \in Updates, Remember(x)
  PROVE  IInv'
<1>1. /\ pc[x] = "remember"
      /\ session' = [u \in Users |-> IF u = From[x] THEN target[x] ELSE session[u]]
      /\ UNCHANGED <<limitVars, says, target, users, registrations, follows, default, shown,
                     opened, slugVars>>
  BY DEF Remember, SessionKey
<1>2. PICK where \in {"act", "apology"} : Goto(x, where) /\ (UNCHANGED failures \/ Error)
  BY DEF Remember
<1>3. where \in Places /\ (where = "apology" => where \notin Handled) /\ (where = "act" => where \notin Over)
  BY DEF Places, Over, Handled, Carrying
<1>4. /\ From[x] \in users /\ at[x] \in Replicas /\ From[x] \in Users
      /\ target[x] \in Creators /\ <<From[x], target[x]>> \in opened
  BY <1>1, UpdateAssumption DEF IInv, HandlerInv, Handled, Carrying
<1>5. pc'[x] = where /\ (where = "act" => at'[x] = at[x])
  BY <1>2, <1>3, Goes DEF IInv
<1>6. HandlerInv(x)'
  <2>1. users' = users /\ target' = target /\ opened' = opened
    BY <1>1
  <2>2. CASE where = "apology"
    BY <1>3, <1>5, <2>2 DEF HandlerInv, Handled, Carrying
  <2>3. CASE where = "act"
    BY <1>4, <1>5, <2>1, <2>3 DEF HandlerInv, Chosen
  <2> QED BY <2>2, <2>3
<1>7. RowsInv'
  <2>1. \A u \in Users : SessionIsOpened(u)'
    BY <1>1, <1>4 DEF IInv, RowsInv, SessionIsOpened
  <2> QED BY <1>1, <2>1 DEF IInv, RowsInv, Registered, DefaultsAreKnown, ActedOnChosen, Chosen, slugVars
<1>8. /\ users' \subseteq Users /\ registrations' \in [Users -> Nat]
      /\ session' \in [Users -> Creators \union {NoCreator}]
      /\ default' \in [Replicas -> Creators \union {NoCreator, Unresolved}]
      /\ follows' \union shown' \union opened' \subseteq Users \X Creators
      /\ target' \in [Updates -> Creators \union {NoCreator}]
      /\ opened \subseteq opened' /\ users \subseteq users'
      /\ \A y \in Updates \ {x} : target'[y] = target[y]
  BY <1>1, <1>4 DEF IInv, TypeOK
<1> QED BY <1>1, <1>2, <1>3, <1>6, <1>7, <1>8, HandlerStepKeeps

\* A command is carried out for a creator who may be shown.
LEMMA ActKeeps ==
  ASSUME IInv, NEW x \in Updates, Act(x)
  PROVE  IInv'
<1> DEFINE uc == <<From[x], target[x]>>
<1>1. /\ pc[x] = "act"
      /\ shown' \subseteq shown \union {uc} /\ follows' \subseteq follows \union {uc}
      /\ UNCHANGED <<limitVars, says, target, users, registrations, session, default, opened,
                     slugVars>>
  BY DEF Act, Following
<1>2. PICK where \in {"answered", "apology"} : Goto(x, where) /\ (UNCHANGED failures \/ Error)
  BY DEF Act
<1>3. where \in Places /\ where \notin Handled
  BY DEF Places, Over, Handled, Carrying
<1>4. From[x] \in Users /\ target[x] \in Creators /\ Chosen(From[x], target[x])
  BY <1>1, UpdateAssumption DEF IInv, HandlerInv
<1>5. HandlerInv(x)'
  BY <1>2, <1>3, Goes DEF IInv, HandlerInv, Handled, Carrying
<1>6. ASSUME NEW u \in Users, NEW c \in Creators, <<u, c>> \in shown' \union follows'
      PROVE  Chosen(u, c)'
  <2>1. Chosen(u, c)
    BY <1>1, <1>4, <1>6 DEF IInv, RowsInv, ActedOnChosen
  <2> QED BY <1>1, <2>1 DEF Chosen, slugVars
<1>7. RowsInv'
  BY <1>1, <1>6 DEF IInv, RowsInv, Registered, SessionIsOpened, DefaultsAreKnown, ActedOnChosen, slugVars
<1>8. /\ users' \subseteq Users /\ registrations' \in [Users -> Nat]
      /\ session' \in [Users -> Creators \union {NoCreator}]
      /\ default' \in [Replicas -> Creators \union {NoCreator, Unresolved}]
      /\ target' \in [Updates -> Creators \union {NoCreator}]
      /\ opened \subseteq opened' /\ users \subseteq users'
      /\ \A y \in Updates \ {x} : target'[y] = target[y]
  BY <1>1 DEF IInv, TypeOK
<1>9. follows' \union shown' \union opened' \subseteq Users \X Creators
  BY <1>1, <1>4 DEF IInv, TypeOK
<1> QED BY <1>1, <1>2, <1>3, <1>5, <1>7, <1>8, <1>9, HandlerStepKeeps

-----------------------------------------------------------------------------
(* Around the handlers *)

LEMMA RedeliverKeeps ==
  ASSUME IInv, NEW x \in Updates, Redeliver(x)
  PROVE  IInv'
<1>1. /\ Goto(x, "offered") /\ target' = [target EXCEPT ![x] = NoCreator] /\ Error
      /\ UNCHANGED <<limitVars, says, users, registrations, session, follows, default,
                     shown, opened, slugVars>>
  BY DEF Redeliver
<1>2. "offered" \in Places /\ "offered" \notin Handled
  BY DEF Places, Over, Handled, Carrying
<1>3. HandlerInv(x)'
  BY <1>1, <1>2, Goes DEF IInv, HandlerInv, Handled, Carrying
<1>4. /\ target' \in [Updates -> Creators \union {NoCreator}]
      /\ \A y \in Updates \ {x} : target'[y] = target[y]
  BY <1>1 DEF IInv, TypeOK
<1> QED BY <1>1, <1>2, <1>3, <1>4, QuietStepKeeps

LEMMA CrashKeeps ==
  ASSUME IInv, NEW p \in Replicas, Crash(p)
  PROVE  IInv'
<1> DEFINE cut == {x \in Updates : at[x] = p}
<1>1. /\ pc' = [x \in Updates |-> IF x \in cut THEN "offered" ELSE pc[x]]
      /\ at' = [x \in Updates |-> IF x \in cut THEN NoReplica ELSE at[x]]
      /\ target' = [x \in Updates |-> IF x \in cut THEN NoCreator ELSE target[x]]
      /\ default' = [default EXCEPT ![p] = Unresolved]
      /\ UNCHANGED <<limitVars, says, users, registrations, session, follows, shown, opened, slugVars>>
      /\ Error
  BY DEF Crash
<1> HIDE DEF cut
<1>2. LimitInv' /\ failures' \in 0..MaxFailures
  BY <1>1, LimitStays, FailuresAreCounted DEF IInv
<1>3. says' = says /\ bySlug' = bySlug /\ edits' = edits /\ defaults' = defaults
  BY <1>1 DEF slugVars
<1>4. TypeOK'
  BY <1>1, <1>2, <1>3 DEF IInv, TypeOK, LimitInv
<1>5. ASSUME NEW x \in Updates PROVE HandlerInv(x)'
  <2>1. CASE x \in cut
    BY <1>1, <2>1 DEF HandlerInv, Handled, Carrying
  <2>2. CASE x \notin cut
    BY <1>1, <1>3, <2>2, HandlersStay DEF IInv
  <2> QED BY <2>1, <2>2
<1>6. \A q \in Replicas : default'[q] = default[q] \/ default'[q] = Unresolved
  BY <1>1 DEF IInv, TypeOK
<1>7. RowsInv'
  <2>1. Unresolved \notin Creators
    BY UnresolvedAssumption
  <2> QED BY <1>1, <1>3, <1>6, <2>1
    DEF IInv, RowsInv, Registered, SessionIsOpened, DefaultsAreKnown, ActedOnChosen, Chosen
<1> QED BY <1>2, <1>4, <1>5, <1>7 DEF IInv

LEMMA ExpireSessionKeeps ==
  ASSUME IInv, NEW u \in Users, ExpireSession(u)
  PROVE  IInv'
<1>1. /\ session' = [session EXCEPT ![u] = NoCreator]
      /\ UNCHANGED <<limitVars, says, pc, at, target, default, shown, opened, users, registrations,
                     follows, failures, bySlug, edits, defaults>>
  BY DEF ExpireSession, handlerVars, slugVars
<1>2. LimitInv'
  BY <1>1, LimitStays DEF IInv
<1>3. TypeOK'
  BY <1>1, <1>2 DEF IInv, TypeOK, LimitInv
<1>4. \A x \in Updates : HandlerInv(x)'
  BY <1>1, HandlersStay DEF IInv
<1>5. \A v \in Users : SessionIsOpened(v)'
  BY <1>1 DEF IInv, TypeOK, RowsInv, SessionIsOpened
<1>6. RowsInv'
  BY <1>1, <1>5 DEF IInv, RowsInv, Registered, DefaultsAreKnown, ActedOnChosen, Chosen
<1> QED BY <1>2, <1>3, <1>4, <1>6 DEF IInv

LEMMA ChangeSlugKeeps ==
  ASSUME IInv, NEW c \in Creators, NEW slug \in Slugs, ChangeSlug(c, slug)
  PROVE  IInv'
<1>1. /\ edits < MaxEdits /\ edits' = edits + 1
      /\ bySlug' = [s \in Slugs |->
                      IF s = slug THEN c ELSE IF bySlug[s] = c THEN NoCreator ELSE bySlug[s]]
      /\ defaults' = IF slug = DefaultSlug THEN defaults \union {c} ELSE defaults
      /\ UNCHANGED <<limitVars, says, pc, at, target, default, shown, opened, users, registrations,
                     session, follows, failures>>
  BY DEF ChangeSlug, handlerVars
<1>2. LimitInv'
  BY <1>1, LimitStays DEF IInv
<1>3. /\ bySlug' \in [Slugs -> Creators \union {NoCreator}] /\ edits' \in 0..MaxEdits
      /\ defaults' \subseteq Creators /\ defaults \subseteq defaults'
  BY <1>1, BotBoundAssumption DEF IInv, TypeOK
<1>4. TypeOK'
  BY <1>1, <1>2, <1>3 DEF IInv, TypeOK, LimitInv
<1>5. \A x \in Updates : HandlerInv(x)'
  BY <1>1, <1>3, HandlersStay DEF IInv
<1>6. bySlug'[DefaultSlug] # NoCreator => bySlug'[DefaultSlug] \in defaults'
  BY <1>1, SlugAssumption DEF IInv, RowsInv, DefaultsAreKnown
<1>7. RowsInv'
  BY <1>1, <1>3, <1>6
    DEF IInv, RowsInv, Registered, SessionIsOpened, DefaultsAreKnown, ActedOnChosen, Chosen
<1> QED BY <1>2, <1>4, <1>5, <1>7 DEF IInv

\* Time passes, or nothing happens.
LEMMA PassingKeeps ==
  ASSUME IInv, Passing \/ UNCHANGED vars
  PROVE  IInv'
<1>1. UNCHANGED <<says, pc, at, target, default, shown, opened, users, registrations, session,
                  follows, failures, bySlug, edits, defaults>>
  BY DEF Passing, vars, handlerVars, slugVars
<1>2. LimitInv'
  <2>1. CASE UNCHANGED vars
    BY <2>1, LimitStays DEF IInv, vars
  <2>2. CASE Tick
    BY <2>2, TickKeeps DEF IInv
  <2> QED BY <2>1, <2>2 DEF Passing
<1>3. TypeOK'
  BY <1>1, <1>2 DEF IInv, TypeOK, LimitInv
<1>4. \A x \in Updates : HandlerInv(x)'
  BY <1>1, HandlersStay DEF IInv
<1>5. RowsInv'
  BY <1>1, RowsStay DEF IInv
<1> QED BY <1>2, <1>3, <1>4, <1>5 DEF IInv

-----------------------------------------------------------------------------

LEMMA InitKeeps ==
  ASSUME Init
  PROVE  IInv
<1>1. LimitInv
  <2>1. LimitTypeOK
    BY WindowAssumption DEF Init, LimitInit, LimitTypeOK, Instants
  <2> QED BY <2>1 DEF Init, LimitInit, LimitInv, LogInv, LastIsCounter
<1>2. TypeOK
  <2>1. 0 \in 0..MaxEdits /\ 0 \in 0..MaxFailures
    BY BotBoundAssumption
  <2>2. says \in [Updates -> Commands]
    BY ScriptAssumption DEF Init
  <2>3. bySlug \in [Slugs -> Creators \union {NoCreator}] /\ defaults \subseteq Creators
    BY SlugAssumption DEF Init, Owners
  <2> QED BY <1>1, <2>1, <2>2, <2>3 DEF Init, TypeOK, LimitInv
<1>3. \A x \in Updates : HandlerInv(x)
  BY DEF Init, HandlerInv, Handled, Carrying
<1>4. RowsInv
  BY <1>2, UnresolvedAssumption
    DEF Init, TypeOK, RowsInv, Registered, SessionIsOpened, DefaultsAreKnown, ActedOnChosen, Owners
<1> QED BY <1>1, <1>2, <1>3, <1>4 DEF IInv

LEMMA NextKeeps ==
  ASSUME IInv, [Next]_vars
  PROVE  IInv'
<1>1. ASSUME NEW x \in Updates, Middleware(x) PROVE IInv'
  BY <1>1, LimitKeeps, FindKeeps, InsertKeeps DEF Middleware
<1>2. ASSUME NEW x \in Updates, Context(x) PROVE IInv'
  BY <1>2, LinkKeeps, RememberKeeps, CurrentKeeps, DefaultKeeps DEF Context
<1>3. ASSUME NEW x \in Updates, Act(x) \/ Fail(x) \/ Redeliver(x) PROVE IInv'
  BY <1>3, ActKeeps, FailKeeps, RedeliverKeeps
<1>4. ASSUME NEW u \in Users, ExpireSession(u) PROVE IInv'
  BY <1>4, ExpireSessionKeeps
<1>5. ASSUME NEW c \in Creators, NEW slug \in Slugs, ChangeSlug(c, slug) PROVE IInv'
  BY <1>5, ChangeSlugKeeps
<1>6. ASSUME NEW p \in Replicas, Crash(p) PROVE IInv'
  BY <1>6, CrashKeeps
<1>7. CASE Passing \/ UNCHANGED vars
  BY <1>7, PassingKeeps
<1> QED BY <1>1, <1>2, <1>3, <1>4, <1>5, <1>6, <1>7 DEF Next

\* The invariant holds in every state the bot reaches.
LEMMA Inductive == Spec => []IInv
<1>1. Init => IInv
  BY InitKeeps
<1>2. IInv /\ [Next]_vars => IInv'
  BY NextKeeps
<1> QED BY <1>1, <1>2, PTL DEF Spec

-----------------------------------------------------------------------------
(* What a reader should know *)

\* The fixed window admits at most twice its points in any span of its length,
\* refuses only who has used them up, and its Retry-After is true, however
\* requests race and the cache fails (INCR_WITH_TTL, checkRateLimit).
THEOREM LimiterIsFair == Spec => []LimitIsFair
<1>1. IInv => LimitIsFair
  BY FewAreAdmitted, RefusalsAreFair DEF IInv, LimitIsFair
<1> QED BY <1>1, Inductive, PTL

\* However the first updates of a user race, ensureRegistered registers him
\* once, before any command of his; and every variable keeps its type.
THEOREM OneRegistration == Spec => []RegisteredOnce
<1>1. IInv => RegisteredOnce
  BY DEF IInv, RowsInv, Registered, HandlerInv, Carrying, RegisteredOnce
<1> QED BY <1>1, Inductive, PTL

\* A user is shown and follows only storefronts he opened by their link or
\* that have been the default, whatever CreatorContext has cached.
THEOREM ChosenOnly == Spec => []ActsOnChosen
<1>1. IInv => ActsOnChosen
  <2> SUFFICES ASSUME IInv, NEW uc \in shown \union follows
               PROVE  uc \in opened \/ uc[2] \in defaults
    BY DEF ActsOnChosen
  <2>1. PICK u \in Users, c \in Creators : uc = <<u, c>>
    BY DEF IInv, TypeOK
  <2> QED BY <2>1 DEF IInv, RowsInv, ActedOnChosen, Chosen
<1> QED BY <1>1, Inductive, PTL
=============================================================================

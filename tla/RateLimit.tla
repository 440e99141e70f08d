----------------------------- MODULE RateLimit -----------------------------
(***************************************************************************)
(* The fixed-window limiter of rateLimitMiddleware and checkRateLimit, on  *)
(* CacheProvider.incr: a counter per sender that gets its TTL when it is   *)
(* created and only then.  A cache that cannot be reached lets the request *)
(* pass; the increment may have reached it all the same.                   *)
(***************************************************************************)
EXTENDS Integers, Sequences, FiniteSets

CONSTANTS Senders,
          Points,  \* allowed in a window
          Window,  \* windowSeconds
          MaxTime  \* bound: the clock

ASSUME WindowAssumption == Points \in Nat \ {0} /\ Window \in Nat \ {0} /\ MaxTime \in Nat

Instants == 0..MaxTime

VARIABLES now,
          count, expires,  \* the counter of each sender and its expiry
          log  \* increments that reached the cache, by sender: when, the value and the
               \* expiry they left, and what became of the request

counterVars == <<count, expires, log>>
limitVars == <<now, counterVars>>

LimitInit ==
  /\ now = 0
  /\ count = [s \in Senders |-> 0]
  /\ expires = [s \in Senders |-> 0]
  /\ log = [s \in Senders |-> <<>>]

\* The counter exists and has not expired; an expired one is as good as gone.
Live(s) == count[s] > 0 /\ now < expires[s]

\* Slip: the TTL is passed in the wrong unit and is over at once.
NoWindow(s) == now
\* EXPIRE only when INCR created the counter.
Expiry(s) == IF Live(s) THEN expires[s] ELSE now + Window

Counted(s) == IF Live(s) THEN count[s] + 1 ELSE 1

\* The script INCR_WITH_TTL.
Increment(s, answer) ==
  /\ count' = [count EXCEPT ![s] = Counted(s)]
  /\ expires' = [expires EXCEPT ![s] = Expiry(s)]
  /\ log' = [log EXCEPT ![s] =
       Append(@, [at |-> now, value |-> Counted(s), until |-> Expiry(s), answer |-> answer])]
  /\ UNCHANGED now

Allow(s) == Counted(s) <= Points /\ Increment(s, "allowed")

Refuse(s) == Counted(s) > Points /\ Increment(s, "refused")

\* incr throws: the request is let through.
FailOpen(s) == Increment(s, "open") \/ UNCHANGED limitVars

Tick ==
  /\ now < MaxTime
  /\ now' = now + 1
  /\ UNCHANGED counterVars

-----------------------------------------------------------------------------

Hits == [at : Instants, value : Nat, until : Nat, answer : {"allowed", "refused", "open"}]

LimitTypeOK ==
  /\ now \in Instants
  /\ count \in [Senders -> Nat] /\ expires \in [Senders -> Nat]
  /\ log \in [Senders -> Seq(Hits)]

During(s, from, to) == {i \in DOMAIN log[s] : log[s][i].at \in from..to}

\* However requests race, no span as long as a window has more than two
\* windows' worth of them in it.
AdmittedAreFew ==
  \A s \in Senders, t \in Instants :
    Cardinality({i \in During(s, t, t + Window - 1) : log[s][i].answer = "allowed"}) <= 2 * Points

\* Who is refused had used up the points within the length of a window, and
\* Retry-After is true: who then keeps quiet for a window starts afresh.
RefusedHadTheirs ==
  \A s \in Senders : \A i \in DOMAIN log[s] :
    log[s][i].answer = "refused" =>
      LET t == log[s][i].at IN
      /\ Cardinality(During(s, t - Window + 1, t)) > Points
      /\ now >= t + Window /\ During(s, t + 1, now) = {} => ~Live(s)

\* Nobody gets much more than the limit allows, and nobody less.
LimitIsFair == AdmittedAreFew /\ RefusedHadTheirs
=============================================================================

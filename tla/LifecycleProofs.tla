-------------------------- MODULE LifecycleProofs --------------------------
(***************************************************************************)
(* A graceful stop closes the pool after the work somebody waits for: for  *)
(* any number of replicas, requests, restarts, crashes and errors.         *)
(***************************************************************************)
EXTENDS Lifecycle, TLAPS

\* Nothing in the process can be given work, and nobody waits for any.
Idle(p) == server[p] = "off" /\ ~armed[p] /\ ~job[p] /\ Connected(p) = {}

\* A process that is not up yet, or not any more, has no work; and until it
\* is told to stop, while it awaits the database, the pool is open.
IdleUnlessUp(p) ==
  /\ boot[p] \in {"down", "ping", "failed"} => Idle(p)
  /\ boot[p] = "down" => p \notin early /\ halt[p]["shutdown"] = "no"
  /\ boot[p] # "failed" => halt[p]["failure"] = "no"
  /\ boot[p] = "ping" /\ p \notin early => halt[p]["shutdown"] = "no" /\ pool[p]

\* What is still up of a process that was, at each place of app.stop: first
\* the server and its connections end, then the scheduler and its jobs, then the
\* pool.
StopsInOrder(p) ==
  LET stage == halt[p]["shutdown"] IN
  boot[p] \in {"register", "serving"} /\ p \notin early =>
    /\ stage = "no" => server[p] = "listening"
    /\ stage = "drain" => server[p] = "closing"
    /\ stage \in {"webhook", "jobs", "close"} => server[p] = "off" /\ Connected(p) = {}
    /\ armed[p] <=> stage \in {"no", "drain", "webhook"}
    /\ stage = "close" => ~job[p]
    /\ stage # "close" => pool[p]

ProcessInv(p) == IdleUnlessUp(p) /\ StopsInOrder(p)
IInv == TypeOK /\ \A p \in Replicas : ProcessInv(p)

-----------------------------------------------------------------------------
(* What a step leaves alone *)

\* What holds of a process depends on its own variables and connections.
LEMMA OthersStay ==
  ASSUME NEW q \in Replicas, ProcessInv(q),
         boot'[q] = boot[q], halt'[q] = halt[q], server'[q] = server[q], armed'[q] = armed[q],
         job'[q] = job[q], pool'[q] = pool[q], q \in early' <=> q \in early,
         Connected(q)' = Connected(q)
  PROVE  ProcessInv(q)'
BY DEF ProcessInv, IdleUnlessUp, StopsInOrder, Idle

Stops == {"no", "drain", "webhook", "jobs", "close"}

LEMMA HaltedIs ==
  ASSUME TypeOK, NEW p \in Replicas, NEW c \in Callers, NEW where \in Stops, Halted(p, c, where)
  PROVE  /\ halt' \in [Replicas -> [Callers -> Stops]]
         /\ halt'[p][c] = where
         /\ \A d \in Callers \ {c} : halt'[p][d] = halt[p][d]
         /\ \A q \in Replicas \ {p} : halt'[q] = halt[q]
<1>1. halt \in [Replicas -> [Callers -> Stops]]
  BY DEF TypeOK, Stops
<1>2. halt' = [halt EXCEPT ![p] = [halt[p] EXCEPT ![c] = where]]
  BY <1>1 DEF Halted
<1>3. [halt[p] EXCEPT ![c] = where] \in [Callers -> Stops]
  BY <1>1
<1> QED BY <1>1, <1>2, <1>3

\* A call that fails is counted within its bound.
LEMMA ErrorsAreCounted ==
  ASSUME TypeOK, UNCHANGED errors \/ Error
  PROVE  errors' \in 0..MaxErrors
BY BoundAssumption DEF TypeOK, Error

-----------------------------------------------------------------------------
(* app.start *)

LEMMA BootKeeps ==
  ASSUME IInv, NEW p \in Replicas, Boot(p)
  PROVE  IInv'
<1>1. /\ boot[p] = "down" /\ starts < MaxStarts /\ starts' = starts + 1
      /\ boot' = [boot EXCEPT ![p] = "ping"] /\ pool' = [pool EXCEPT ![p] = TRUE]
      /\ UNCHANGED <<halt, server, armed, job, early, webhook, at, open, crashes, errors>>
  BY DEF Boot
<1>2. TypeOK'
  BY <1>1, BoundAssumption DEF IInv, TypeOK
<1>3. \A q \in Replicas \ {p} : ProcessInv(q)'
  BY <1>1, OthersStay DEF IInv, TypeOK, Connected, AtReplica
<1>4. ProcessInv(p)'
  BY <1>1 DEF IInv, TypeOK, ProcessInv, IdleUnlessUp, StopsInOrder, Idle, Connected, AtReplica
<1> QED BY <1>2, <1>3, <1>4 DEF IInv

LEMMA ListenKeeps ==
  ASSUME IInv, NEW p \in Replicas, Listen(p)
  PROVE  IInv'
<1>1. /\ boot[p] = "ping"
      /\ boot' = [boot EXCEPT ![p] = "register"] /\ server' = [server EXCEPT ![p] = "listening"]
      /\ armed' = [armed EXCEPT ![p] = TRUE]
      /\ UNCHANGED <<halt, job, pool, early, webhook, at, open, starts, crashes, errors>>
  BY DEF Listen
<1>2. TypeOK'
  BY <1>1 DEF IInv, TypeOK
<1>3. \A q \in Replicas \ {p} : ProcessInv(q)'
  BY <1>1, OthersStay DEF IInv, TypeOK, Connected, AtReplica
<1>4. ProcessInv(p)'
  BY <1>1 DEF IInv, TypeOK, ProcessInv, IdleUnlessUp, StopsInOrder, Idle, Connected, AtReplica
<1> QED BY <1>2, <1>3, <1>4 DEF IInv

LEMMA StartFailsKeeps ==
  ASSUME IInv, NEW p \in Replicas, StartFails(p)
  PROVE  IInv'
<1>1. /\ boot[p] = "ping" /\ boot' = [boot EXCEPT ![p] = "failed"]
      /\ Halted(p, "failure", "webhook")
      /\ UNCHANGED <<server, armed, job, pool, early, webhook, at, open, starts, crashes>>
  BY DEF StartFails
<1>2. /\ halt' \in [Replicas -> [Callers -> Stops]]
      /\ \A q \in Replicas \ {p} : halt'[q] = halt[q]
  BY <1>1, HaltedIs DEF IInv, Callers, Stops
<1>3. errors' \in 0..MaxErrors
  BY ErrorsAreCounted DEF IInv, StartFails
<1>4. TypeOK'
  BY <1>1, <1>2, <1>3 DEF IInv, TypeOK, Stops
<1>5. \A q \in Replicas \ {p} : ProcessInv(q)'
  BY <1>1, <1>2, OthersStay DEF IInv, TypeOK, Connected, AtReplica
<1>6. ProcessInv(p)'
  BY <1>1 DEF IInv, TypeOK, ProcessInv, IdleUnlessUp, StopsInOrder, Idle, Connected, AtReplica
<1> QED BY <1>4, <1>5, <1>6 DEF IInv

LEMMA RegisterKeeps ==
  ASSUME IInv, NEW p \in Replicas, Register(p)
  PROVE  IInv'
<1>1. /\ boot[p] = "register" /\ boot' = [boot EXCEPT ![p] = "serving"] /\ webhook' \in BOOLEAN
      /\ UNCHANGED <<halt, server, armed, job, pool, early, at, open, starts, crashes>>
  BY DEF Register, IInv, TypeOK
<1>2. errors' \in 0..MaxErrors
  BY ErrorsAreCounted DEF IInv, Register
<1>3. TypeOK'
  BY <1>1, <1>2 DEF IInv, TypeOK
<1>4. \A q \in Replicas \ {p} : ProcessInv(q)'
  BY <1>1, OthersStay DEF IInv, TypeOK, Connected, AtReplica
<1>5. ProcessInv(p)'
  BY <1>1 DEF IInv, TypeOK, ProcessInv, IdleUnlessUp, StopsInOrder, Idle, Connected, AtReplica
<1> QED BY <1>3, <1>4, <1>5 DEF IInv

-----------------------------------------------------------------------------
(* app.stop *)

LEMMA ShutdownKeeps ==
  ASSUME IInv, NEW p \in Replicas, Shutdown(p)
  PROVE  IInv'
<1>1. /\ boot[p] # "down" /\ halt[p]["shutdown"] = "no"
      /\ early' = IF boot[p] = "ping" THEN early \union {p} ELSE early
      /\ UNCHANGED <<boot, armed, job, pool, webhook, at, open, starts, crashes, errors>>
  BY DEF Shutdown
<1>2. \/ /\ server[p] = "listening" /\ Halted(p, "shutdown", "drain")
         /\ server' = [server EXCEPT ![p] = "closing"]
      \/ server[p] # "listening" /\ Halted(p, "shutdown", "webhook") /\ server' = server
  BY DEF Shutdown
<1>3. /\ halt' \in [Replicas -> [Callers -> Stops]]
      /\ halt'[p]["shutdown"] = IF server[p] = "listening" THEN "drain" ELSE "webhook"
      /\ halt'[p]["failure"] = halt[p]["failure"]
      /\ \A q \in Replicas \ {p} : halt'[q] = halt[q]
  <2>1. "shutdown" \in Callers /\ "failure" \in Callers \ {"shutdown"} /\ {"drain", "webhook"} \subseteq Stops
    BY DEF Callers, Stops
  <2>2. CASE server[p] = "listening"
    BY <1>2, <2>1, <2>2, HaltedIs DEF IInv
  <2>3. CASE server[p] # "listening"
    BY <1>2, <2>1, <2>3, HaltedIs DEF IInv
  <2> QED BY <2>2, <2>3
<1>4. TypeOK'
  BY <1>1, <1>2, <1>3 DEF IInv, TypeOK, Stops
<1>5. \A q \in Replicas \ {p} : ProcessInv(q)'
  BY <1>1, <1>2, <1>3, OthersStay DEF IInv, TypeOK, Connected, AtReplica
<1>6. ProcessInv(p)'
  <2>1. IdleUnlessUp(p)'
    BY <1>1, <1>2, <1>3 DEF IInv, TypeOK, ProcessInv, IdleUnlessUp, Idle, Connected, AtReplica
  <2>2. StopsInOrder(p)'
    BY <1>1, <1>2, <1>3 DEF IInv, TypeOK, ProcessInv, StopsInOrder, Idle, Connected, AtReplica
  <2> QED BY <2>1, <2>2 DEF ProcessInv
<1> QED BY <1>4, <1>5, <1>6 DEF IInv

LEMMA DrainKeeps ==
  ASSUME IInv, NEW p \in Replicas, Drain(p)
  PROVE  IInv'
<1>1. /\ halt[p]["shutdown"] = "drain" /\ Connected(p) = {}
      /\ server' = [server EXCEPT ![p] = "off"] /\ Halted(p, "shutdown", "webhook")
      /\ UNCHANGED <<boot, armed, job, pool, early, webhook, at, open, starts, crashes, errors>>
  BY DEF Drain, Drained
<1>2. /\ halt' \in [Replicas -> [Callers -> Stops]]
      /\ halt'[p]["shutdown"] = "webhook" /\ halt'[p]["failure"] = halt[p]["failure"]
      /\ \A q \in Replicas \ {p} : halt'[q] = halt[q]
  BY <1>1, HaltedIs DEF IInv, Callers, Stops
<1>3. TypeOK'
  BY <1>1, <1>2 DEF IInv, TypeOK, Stops
<1>4. \A q \in Replicas \ {p} : ProcessInv(q)'
  BY <1>1, <1>2, OthersStay DEF IInv, TypeOK, Connected, AtReplica
<1>5. ProcessInv(p)'
  BY <1>1, <1>2 DEF IInv, TypeOK, ProcessInv, IdleUnlessUp, StopsInOrder, Idle, Connected, AtReplica
<1> QED BY <1>3, <1>4, <1>5 DEF IInv

LEMMA DeleteWebhookKeeps ==
  ASSUME IInv, NEW p \in Replicas, NEW c \in Callers, DeleteWebhook(p, c)
  PROVE  IInv'
<1>1. /\ halt[p][c] = "webhook" /\ webhook' \in BOOLEAN
      /\ armed' = [armed EXCEPT ![p] = FALSE]
      /\ UNCHANGED <<boot, server, job, early, at, open, starts, crashes>>
  BY DEF DeleteWebhook, IInv, TypeOK
<1>2. \/ armed[p] /\ Halted(p, c, "jobs") /\ pool' = pool
      \/ ~armed[p] /\ Halted(p, c, "close") /\ pool' = [pool EXCEPT ![p] = FALSE]
  BY DEF DeleteWebhook
<1>3. errors' \in 0..MaxErrors
  BY ErrorsAreCounted DEF IInv, DeleteWebhook
<1>4. /\ halt' \in [Replicas -> [Callers -> Stops]]
      /\ halt'[p][c] = IF armed[p] THEN "jobs" ELSE "close"
      /\ \A d \in Callers \ {c} : halt'[p][d] = halt[p][d]
      /\ \A q \in Replicas \ {p} : halt'[q] = halt[q]
  <2>1. {"jobs", "close"} \subseteq Stops
    BY DEF Stops
  <2>2. CASE armed[p]
    BY <1>2, <2>1, <2>2, HaltedIs DEF IInv
  <2>3. CASE ~armed[p]
    BY <1>2, <2>1, <2>3, HaltedIs DEF IInv
  <2> QED BY <2>2, <2>3
<1>5. TypeOK'
  <2>1. pool' \in [Replicas -> BOOLEAN]
    BY <1>2 DEF IInv, TypeOK
  <2> QED BY <1>1, <1>3, <1>4, <2>1 DEF IInv, TypeOK, Stops
<1>6. \A q \in Replicas \ {p} : ProcessInv(q)'
  BY <1>1, <1>2, <1>4, OthersStay DEF IInv, TypeOK, Connected, AtReplica
<1>7. ProcessInv(p)'
  <2>1. c = "shutdown" \/ boot[p] = "failed"
    BY <1>1 DEF IInv, ProcessInv, IdleUnlessUp, Callers
  <2>2. CASE boot[p] = "failed"
    BY <1>1, <2>2 DEF IInv, TypeOK, ProcessInv, IdleUnlessUp, StopsInOrder, Idle, Connected, AtReplica
  <2>3. CASE c = "shutdown" /\ boot[p] # "failed"
    <3>1. halt'[p]["shutdown"] = (IF armed[p] THEN "jobs" ELSE "close") /\ halt'[p]["failure"] = halt[p]["failure"]
      BY <1>4, <2>3 DEF Callers
    <3>2. IdleUnlessUp(p)'
      BY <1>1, <1>2, <2>3, <3>1 DEF IInv, TypeOK, ProcessInv, IdleUnlessUp, Idle, Connected, AtReplica
    <3>3. StopsInOrder(p)'
      BY <1>1, <1>2, <2>3, <3>1 DEF IInv, TypeOK, ProcessInv, StopsInOrder, Idle, Connected, AtReplica
    <3> QED BY <3>2, <3>3 DEF ProcessInv
  <2> QED BY <2>1, <2>2, <2>3
<1> QED BY <1>5, <1>6, <1>7 DEF IInv

LEMMA ClosePoolKeeps ==
  ASSUME IInv, NEW p \in Replicas, NEW c \in Callers, ClosePool(p, c)
  PROVE  IInv'
<1>1. /\ halt[p][c] = "jobs" /\ ~job[p]
      /\ pool' = [pool EXCEPT ![p] = FALSE] /\ Halted(p, c, "close")
      /\ UNCHANGED <<boot, server, armed, job, early, webhook, at, open, starts, crashes, errors>>
  BY DEF ClosePool, Settled
<1>2. /\ halt' \in [Replicas -> [Callers -> Stops]]
      /\ halt'[p][c] = "close" /\ \A d \in Callers \ {c} : halt'[p][d] = halt[p][d]
      /\ \A q \in Replicas \ {p} : halt'[q] = halt[q]
  BY <1>1, HaltedIs DEF IInv, Stops
<1>3. TypeOK'
  BY <1>1, <1>2 DEF IInv, TypeOK, Stops
<1>4. \A q \in Replicas \ {p} : ProcessInv(q)'
  BY <1>1, <1>2, OthersStay DEF IInv, TypeOK, Connected, AtReplica
<1>5. ProcessInv(p)'
  <2>1. c = "shutdown" \/ boot[p] = "failed"
    BY <1>1 DEF IInv, ProcessInv, IdleUnlessUp, Callers
  <2>2. CASE boot[p] = "failed"
    BY <1>1, <2>2 DEF IInv, TypeOK, ProcessInv, IdleUnlessUp, StopsInOrder, Idle, Connected, AtReplica
  <2>3. CASE c = "shutdown" /\ boot[p] # "failed"
    <3>1. halt'[p]["shutdown"] = "close" /\ halt'[p]["failure"] = halt[p]["failure"]
      BY <1>2, <2>3 DEF Callers
    <3> QED BY <1>1, <2>3, <3>1 DEF IInv, TypeOK, ProcessInv, IdleUnlessUp, StopsInOrder, Idle, Connected, AtReplica
  <2> QED BY <2>1, <2>2, <2>3
<1> QED BY <1>3, <1>4, <1>5 DEF IInv

\* A process that dies, by itself or not, takes its requests with it.
LEMMA DieKeeps ==
  ASSUME IInv, NEW p \in Replicas, Die(p), crashes' \in 0..MaxCrashes
  PROVE  IInv'
<1>1. /\ boot' = [boot EXCEPT ![p] = "down"]
      /\ halt' = [halt EXCEPT ![p] = [c \in Callers |-> "no"]]
      /\ server' = [server EXCEPT ![p] = "off"]
      /\ armed' = [armed EXCEPT ![p] = FALSE] /\ job' = [job EXCEPT ![p] = FALSE]
      /\ pool' = [pool EXCEPT ![p] = FALSE] /\ early' = early \ {p}
      /\ at' = [r \in Requests |-> IF at[r] = p THEN CutOff(r) ELSE at[r]]
      /\ open' = open \ AtReplica(p)
      /\ UNCHANGED <<webhook, starts, errors>>
  BY DEF Die
<1>2. \A r \in Requests : CutOff(r) \in {"outside", "cut"}
  BY DEF CutOff
<1>3. TypeOK'
  <2>1. halt' \in [Replicas -> [Callers -> {"no", "drain", "webhook", "jobs", "close"}]]
    BY <1>1 DEF IInv, TypeOK
  <2>2. at' \in [Requests -> Replicas \union {"outside", "handled", "failed", "cut"}]
    BY <1>1, <1>2 DEF IInv, TypeOK
  <2> QED BY <1>1, <2>1, <2>2 DEF IInv, TypeOK
<1>4. Connected(p)' = {}
  BY <1>1, <1>2, ReplicaAssumption DEF Connected, AtReplica
<1>5. ASSUME NEW q \in Replicas \ {p} PROVE Connected(q)' = Connected(q)
  BY <1>1, <1>2, ReplicaAssumption DEF Connected, AtReplica
<1>6. \A q \in Replicas \ {p} : ProcessInv(q)'
  BY <1>1, <1>5, OthersStay DEF IInv, TypeOK
<1>7. ProcessInv(p)'
  BY <1>1, <1>4 DEF IInv, TypeOK, ProcessInv, IdleUnlessUp, StopsInOrder, Idle, Callers
<1> QED BY <1>3, <1>6, <1>7 DEF IInv

-----------------------------------------------------------------------------
(* Requests and jobs *)

LEMMA ArriveKeeps ==
  ASSUME IInv, NEW r \in Requests, NEW p \in Replicas, Arrive(r, p)
  PROVE  IInv'
<1>1. /\ at[r] = "outside" /\ server[p] = "listening" /\ at' = [at EXCEPT ![r] = p]
      /\ open' = open \union {r}
      /\ UNCHANGED <<boot, halt, server, armed, job, pool, early, webhook, starts, crashes, errors>>
  BY DEF Arrive, processVars
<1>2. TypeOK'
  BY <1>1 DEF IInv, TypeOK
<1>3. ASSUME NEW q \in Replicas \ {p} PROVE Connected(q)' = Connected(q)
  BY <1>1, ReplicaAssumption DEF IInv, TypeOK, Connected, AtReplica
<1>4. \A q \in Replicas \ {p} : ProcessInv(q)'
  BY <1>1, <1>3, OthersStay DEF IInv, TypeOK
<1>5. ProcessInv(p)'
  BY <1>1 DEF IInv, TypeOK, ProcessInv, IdleUnlessUp, StopsInOrder, Idle
<1> QED BY <1>2, <1>4, <1>5 DEF IInv

\* A step that ends a connection, whether the handler goes on or not.
LEMMA EndingKeeps ==
  ASSUME IInv, NEW r \in Requests, NEW p \in Replicas, at[r] = p,
         NEW where \in {p, "outside", "handled", "failed"}, at' = [at EXCEPT ![r] = where],
         open' = open \ {r},
         errors' \in 0..MaxErrors,
         UNCHANGED <<boot, halt, server, armed, job, pool, early, webhook, starts, crashes>>
  PROVE  IInv'
<1>1. TypeOK'
  BY DEF IInv, TypeOK
<1>2. ASSUME NEW q \in Replicas \ {p} PROVE Connected(q)' = Connected(q)
  BY ReplicaAssumption DEF IInv, TypeOK, Connected, AtReplica
<1>3. \A q \in Replicas \ {p} : ProcessInv(q)'
  BY <1>2, OthersStay DEF IInv, TypeOK
<1>4. Connected(p)' \subseteq Connected(p)
  BY ReplicaAssumption DEF IInv, TypeOK, Connected, AtReplica
<1>5. ProcessInv(p)'
  BY <1>4 DEF IInv, TypeOK, ProcessInv, IdleUnlessUp, StopsInOrder, Idle
<1> QED BY <1>1, <1>3, <1>5 DEF IInv

LEMMA AnswerKeeps ==
  ASSUME IInv, NEW r \in Requests, NEW p \in Replicas,
         Acknowledge(r, p) \/ HangUp(r, p) \/ Answer(r, p)
  PROVE  IInv'
<1>1. /\ at[r] = p /\ open' = open \ {r}
      /\ UNCHANGED <<boot, halt, server, armed, job, pool, early, webhook, starts, crashes>>
  BY DEF Acknowledge, HangUp, Answer, Connected, AtReplica, processVars
<1>2. \E where \in {p, "outside", "handled", "failed"} : at' = [at EXCEPT ![r] = where]
  BY <1>1 DEF Acknowledge, HangUp, Answer, IInv, TypeOK
<1>3. errors' \in 0..MaxErrors
  BY ErrorsAreCounted DEF Acknowledge, HangUp, Answer, IInv, TypeOK
<1> QED BY <1>1, <1>2, <1>3, EndingKeeps

LEMMA JobKeeps ==
  ASSUME IInv, NEW p \in Replicas, Tick(p) \/ JobEnds(p)
  PROVE  IInv'
<1>1. /\ armed[p] \/ ~job'[p]
      /\ \E b \in BOOLEAN : job' = [job EXCEPT ![p] = b]
      /\ UNCHANGED <<boot, halt, server, armed, pool, early, webhook, at, open, starts, crashes, errors>>
  BY DEF Tick, JobEnds, IInv, TypeOK
<1>2. TypeOK'
  BY <1>1 DEF IInv, TypeOK
<1>3. \A q \in Replicas \ {p} : ProcessInv(q)'
  BY <1>1, OthersStay DEF IInv, TypeOK, Connected, AtReplica
<1>4. ProcessInv(p)'
  BY <1>1 DEF IInv, TypeOK, ProcessInv, IdleUnlessUp, StopsInOrder, Idle, Connected, AtReplica
<1> QED BY <1>2, <1>3, <1>4 DEF IInv

-----------------------------------------------------------------------------
(* The invariant *)

LEMMA InitKeeps ==
  ASSUME Init
  PROVE  IInv
<1>1. TypeOK
  <2>1. starts \in 0..MaxStarts /\ crashes \in 0..MaxCrashes /\ errors \in 0..MaxErrors
    BY BoundAssumption DEF Init
  <2>2. halt \in [Replicas -> [Callers -> {"no", "drain", "webhook", "jobs", "close"}]]
    BY DEF Init
  <2> QED BY <2>1, <2>2 DEF Init, TypeOK
<1>2. ASSUME NEW p \in Replicas PROVE ProcessInv(p)
  BY ReplicaAssumption DEF Init, ProcessInv, IdleUnlessUp, StopsInOrder, Idle, Connected, Callers
<1> QED BY <1>1, <1>2 DEF IInv

LEMMA NextKeeps ==
  ASSUME IInv, [Next]_vars
  PROVE  IInv'
<1>1. ASSUME NEW p \in Replicas, Boot(p) \/ Start(p) \/ Shutdown(p) PROVE IInv'
  BY <1>1, BootKeeps, ListenKeeps, StartFailsKeeps, RegisterKeeps, ShutdownKeeps DEF Start
<1>2. ASSUME NEW p \in Replicas, Stop(p) \/ ForceExit(p) \/ Crash(p) PROVE IInv'
  <2>1. Die(p) /\ (UNCHANGED crashes \/ (crashes < MaxCrashes /\ crashes' = crashes + 1)) => IInv'
    BY DieKeeps, BoundAssumption DEF IInv, TypeOK
  <2>2. CASE Stop(p)
    BY <2>1, <2>2, DrainKeeps, DeleteWebhookKeeps, ClosePoolKeeps DEF Stop, Exit
  <2>3. CASE ForceExit(p) \/ Crash(p)
    BY <2>1, <2>3 DEF ForceExit, Crash
  <2> QED BY <1>2, <2>2, <2>3
<1>3. ASSUME NEW p \in Replicas, Tick(p) \/ JobEnds(p) PROVE IInv'
  BY <1>3, JobKeeps
<1>4. ASSUME NEW p \in Replicas, NEW r \in Requests, Arrive(r, p) \/ Acknowledge(r, p) \/ HangUp(r, p) \/ Answer(r, p)
      PROVE IInv'
  BY <1>4, ArriveKeeps, AnswerKeeps
<1>5. CASE UNCHANGED vars
  BY <1>5 DEF vars, processVars, IInv, TypeOK, ProcessInv, IdleUnlessUp, StopsInOrder, Idle, Connected, AtReplica
<1> QED BY <1>1, <1>2, <1>3, <1>4, <1>5 DEF Next

\* The invariant holds in every state the replicas reach.
LEMMA Inductive == Spec => []IInv
<1>1. Init => IInv
  BY InitKeeps
<1>2. IInv /\ [Next]_vars => IInv'
  BY NextKeeps
<1> QED BY <1>1, <1>2, PTL DEF Spec

-----------------------------------------------------------------------------
(* What a reader should know *)

\* app.stop closes the pool of a process when no job of it and no request that
\* has its connection is left to meet it closed, unless it was told to stop before it was listening;
\* and every variable keeps its type.
THEOREM PoolIsClosedLast == Spec => []PoolOutlivesWork
<1>1. IInv => PoolOutlivesWork
  <2> SUFFICES ASSUME IInv, NEW p \in Replicas, ~pool[p], p \notin early
               PROVE  ~job[p] /\ Connected(p) = {}
    BY DEF IInv, PoolOutlivesWork
  <2>1. CASE boot[p] \in {"down", "ping", "failed"}
    BY <2>1 DEF IInv, ProcessInv, IdleUnlessUp, Idle
  <2>2. CASE boot[p] \in {"register", "serving"}
    <3>1. halt[p]["shutdown"] \in Stops
      BY DEF IInv, TypeOK, Callers, Stops
    <3> QED BY <2>2, <3>1 DEF IInv, ProcessInv, StopsInOrder, Idle, Stops
  <2> QED BY <2>1, <2>2 DEF IInv, TypeOK
<1> QED BY <1>1, Inductive, PTL
=============================================================================

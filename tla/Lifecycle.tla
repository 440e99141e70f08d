----------------------------- MODULE Lifecycle -----------------------------
(***************************************************************************)
(* Boot and graceful shutdown of the replicas of one bot, in webhook mode: *)
(* app.start and app.stop, which interleave at their awaits in the one     *)
(* process that runs both, HttpServer, Scheduler.start and stop, and the   *)
(* registration of the webhook, of which Telegram keeps one per bot.       *)
(*                                                                         *)
(* A handler and the connection its request came by end apart.  A command  *)
(* is answered when its handler ends; a press of a button is answered when *)
(* its handler begins, because answerCbQuery is the reply to the webhook   *)
(* call; and whoever called may hang up.  HttpServer.stop waits for the    *)
(* connections, and nothing waits for the handlers.  Telegram offers an    *)
(* update again until a replica has answered it.                           *)
(*                                                                         *)
(* Of the jobs only whether one is in flight matters here (Jobs has the    *)
(* rest), of the database only whether the pool of the process is open.    *)
(***************************************************************************)
EXTENDS Naturals

CONSTANTS Replicas,
          Commands, Presses,  \* the updates: messages, and presses of buttons
          Calls,              \* of the API
          MaxStarts,          \* bound: processes started
          MaxCrashes,         \* bound: processes killed
          MaxErrors           \* bound: calls to or from Telegram, the database or listen() that fail

ASSUME BoundAssumption == MaxStarts \in Nat /\ MaxCrashes \in Nat /\ MaxErrors \in Nat
ASSUME RequestAssumption == Presses \cap Commands = {} /\ (Commands \union Presses) \cap Calls = {}
ASSUME ReplicaAssumption == Replicas \cap {"outside", "handled", "failed", "cut"} = {}

Updates == Commands \union Presses
Requests == Updates \union Calls

\* Who called app.stop: shutdown(), or the catch around app.start.
Callers == {"shutdown", "failure"}

VARIABLES
  boot,     \* where app.start is
  halt,     \* where each app.stop is
  server,   \* the HTTP server of each replica
  armed,    \* Scheduler.running
  job,      \* whether a job is in flight
  pool,     \* whether the database pool is open
  webhook,  \* whether Telegram has the webhook
  at,       \* where each request is: outside, in a handler of a replica, or over
  open,     \* the requests whose connection is open
  starts, crashes, errors,
  early     \* processes told to stop before their server was listening

processVars == <<boot, halt, server, armed, job, pool, early>>
vars == <<processVars, webhook, at, open, starts, crashes, errors>>

AtReplica(p) == {r \in Requests : at[r] = p}
Connected(p) == AtReplica(p) \cap open

Error == errors < MaxErrors /\ errors' = errors + 1

\* Where app.stop continues when httpServer.stop() returns.
Halted(p, c, where) == halt' = [halt EXCEPT ![p][c] = where]

Init ==
  /\ boot = [p \in Replicas |-> "down"]
  /\ halt = [p \in Replicas |-> [c \in Callers |-> "no"]]
  /\ server = [p \in Replicas |-> "off"]
  /\ armed = [p \in Replicas |-> FALSE]
  /\ job = [p \in Replicas |-> FALSE]
  /\ pool = [p \in Replicas |-> FALSE]
  /\ webhook = FALSE
  /\ at = [r \in Requests |-> "outside"]
  /\ open = {}
  /\ starts = 0 /\ crashes = 0 /\ errors = 0
  /\ early = {}

-----------------------------------------------------------------------------
(* app.start *)

\* The platform starts a process, which awaits database.ping().
Boot(p) ==
  /\ boot[p] = "down"
  /\ starts < MaxStarts
  /\ starts' = starts + 1
  /\ boot' = [boot EXCEPT ![p] = "ping"]
  /\ pool' = [pool EXCEPT ![p] = TRUE]
  /\ UNCHANGED <<halt, server, armed, job, early, webhook, at, open, crashes, errors>>

\* The ping answers: the server listens, the scheduler is armed, and the calls
\* of Telegram begin.  Nothing here asks whether app.stop has been called.
Listen(p) ==
  /\ boot[p] = "ping"
  /\ pool[p]
  /\ boot' = [boot EXCEPT ![p] = "register"]
  /\ server' = [server EXCEPT ![p] = "listening"]
  /\ armed' = [armed EXCEPT ![p] = TRUE]
  /\ UNCHANGED <<halt, job, pool, early, webhook, at, open, starts, crashes, errors>>

\* The database does not answer or the port is taken: app.start undoes what
\* it did, which is nothing others see, and its caller runs app.stop.
StartFails(p) ==
  /\ boot[p] = "ping"
  /\ IF pool[p] THEN Error ELSE UNCHANGED errors
  /\ boot' = [boot EXCEPT ![p] = "failed"]
  /\ Halted(p, "failure", "webhook")
  /\ UNCHANGED <<server, armed, job, pool, early, webhook, at, open, starts, crashes>>

\* setWebhook, with the retries of registerWithRetry.  When they are used up
\* the replica serves all the same; its last call may have come through.
Register(p) ==
  /\ boot[p] = "register"
  /\ boot' = [boot EXCEPT ![p] = "serving"]
  /\ \/ webhook' = TRUE /\ (UNCHANGED errors \/ Error)
     \/ Error /\ UNCHANGED webhook
  /\ UNCHANGED <<halt, server, armed, job, pool, early, at, open, starts, crashes>>

-----------------------------------------------------------------------------
(* app.stop *)

\* A signal, an uncaught exception or an unhandled rejection: shutdown(), once.
\* HttpServer.stop closes the server, if there is one by now.
Shutdown(p) ==
  /\ boot[p] # "down"
  /\ halt[p]["shutdown"] = "no"
  /\ IF server[p] = "listening"
     THEN Halted(p, "shutdown", "drain") /\ server' = [server EXCEPT ![p] = "closing"]
     ELSE Halted(p, "shutdown", "webhook") /\ UNCHANGED server
  /\ early' = IF boot[p] = "ping" THEN early \union {p} ELSE early
  /\ UNCHANGED <<boot, armed, job, pool, webhook, at, open, starts, crashes, errors>>

\* Slip: close() is called and its callback not awaited.
NotDrained(p) == TRUE
\* The callback of server.close(): every connection has ended.
Drained(p) == Connected(p) = {}

Drain(p) ==
  /\ halt[p]["shutdown"] = "drain"
  /\ Drained(p)
  /\ server' = [server EXCEPT ![p] = "off"]
  /\ Halted(p, "shutdown", "webhook")
  /\ UNCHANGED <<boot, armed, job, pool, early, webhook, at, open, starts, crashes, errors>>

\* deleteTelegramWebhook, whose failure is ignored, and the call of
\* Scheduler.stop, which returns at once when the scheduler is not armed.
DeleteWebhook(p, c) ==
  /\ halt[p][c] = "webhook"
  /\ \/ webhook' = FALSE /\ (UNCHANGED errors \/ Error)
     \/ Error /\ UNCHANGED webhook
  /\ armed' = [armed EXCEPT ![p] = FALSE]
  /\ IF armed[p]
     THEN Halted(p, c, "jobs") /\ UNCHANGED pool
     ELSE Halted(p, c, "close") /\ pool' = [pool EXCEPT ![p] = FALSE]
  /\ UNCHANGED <<boot, server, job, early, at, open, starts, crashes>>

\* Slip: the jobs in flight are not awaited.
NotSettled(p) == TRUE
\* Promise.allSettled(inFlight)
Settled(p) == ~job[p]

ClosePool(p, c) ==
  /\ halt[p][c] = "jobs"
  /\ Settled(p)
  /\ pool' = [pool EXCEPT ![p] = FALSE]
  /\ Halted(p, c, "close")
  /\ UNCHANGED <<boot, server, armed, job, early, webhook, at, open, starts, crashes, errors>>

\* Slip: every update is answered when it arrives.
Forgotten(r) == "cut"
\* Where a request is whose process has gone: Telegram keeps what it has no
\* answer to.
CutOff(r) == IF r \in Updates \cap open THEN "outside" ELSE "cut"

Die(p) ==
  /\ boot' = [boot EXCEPT ![p] = "down"]
  /\ halt' = [halt EXCEPT ![p] = [c \in Callers |-> "no"]]
  /\ server' = [server EXCEPT ![p] = "off"]
  /\ armed' = [armed EXCEPT ![p] = FALSE]
  /\ job' = [job EXCEPT ![p] = FALSE]
  /\ pool' = [pool EXCEPT ![p] = FALSE]
  /\ early' = early \ {p}
  /\ at' = [r \in Requests |-> IF at[r] = p THEN CutOff(r) ELSE at[r]]
  /\ open' = open \ AtReplica(p)
  /\ UNCHANGED <<webhook, starts, errors>>

\* The pool and Redis are closed, and the process exits.
Exit(p, c) == halt[p][c] = "close" /\ Die(p) /\ UNCHANGED crashes

\* Slip: the watchdog is set once the server has closed.
LateWatchdog(p) == halt[p]["shutdown"] \notin {"no", "drain"}
\* The watchdog of shutdown() is running.
Watched(p) == halt[p]["shutdown"] # "no"

\* SHUTDOWN_TIMEOUT_MS is over.
ForceExit(p) == Watched(p) /\ Die(p) /\ UNCHANGED crashes

Crash(p) ==
  /\ boot[p] # "down"
  /\ crashes < MaxCrashes
  /\ crashes' = crashes + 1
  /\ Die(p)

-----------------------------------------------------------------------------
(* Requests and jobs *)

\* HttpServer.route: an update, or a call of the API.
Arrive(r, p) ==
  /\ at[r] = "outside"
  /\ server[p] = "listening"
  /\ r \in Updates => webhook
  /\ at' = [at EXCEPT ![r] = p]
  /\ open' = open \union {r}
  /\ UNCHANGED <<processVars, webhook, starts, crashes, errors>>

\* ctx.answerCbQuery, the first thing the handler of a press does, is the
\* reply to the webhook call.
Acknowledge(r, p) ==
  /\ r \in Presses
  /\ r \in Connected(p)
  /\ open' = open \ {r}
  /\ UNCHANGED <<processVars, webhook, at, starts, crashes, errors>>

\* Whoever called waits no longer, and the handler goes on.  Telegram will
\* offer its update again: the handler it gave up is not followed from here on
\* (Callbacks has an update in two handlers).
HangUp(r, p) ==
  /\ r \in Connected(p)
  /\ open' = open \ {r}
  /\ Error
  /\ at' = [at EXCEPT ![r] = IF r \in Updates THEN "outside" ELSE p]
  /\ UNCHANGED <<processVars, webhook, starts, crashes>>

\* The handler ends, and with it a connection that is still open.  One that
\* finds the pool closed throws; it is caught and answered with an apology,
\* and an update is used up.
Answer(r, p) ==
  /\ at[r] = p
  /\ at' = [at EXCEPT ![r] = IF pool[p] THEN "handled" ELSE "failed"]
  /\ open' = open \ {r}
  /\ UNCHANGED <<processVars, webhook, starts, crashes, errors>>

\* A timer of the scheduler fires.
Tick(p) ==
  /\ armed[p] /\ ~job[p]
  /\ job' = [job EXCEPT ![p] = TRUE]
  /\ UNCHANGED <<boot, halt, server, armed, pool, early, webhook, at, open, starts, crashes, errors>>

JobEnds(p) ==
  /\ job[p]
  /\ job' = [job EXCEPT ![p] = FALSE]
  /\ UNCHANGED <<boot, halt, server, armed, pool, early, webhook, at, open, starts, crashes, errors>>

Start(p) == Listen(p) \/ StartFails(p) \/ Register(p)
Stop(p) == Drain(p) \/ \E c \in Callers : DeleteWebhook(p, c) \/ ClosePool(p, c) \/ Exit(p, c)

Next ==
  \/ \E p \in Replicas :
       \/ Boot(p) \/ Start(p) \/ Shutdown(p) \/ Stop(p) \/ ForceExit(p) \/ Crash(p)
       \/ Tick(p) \/ JobEnds(p)
       \/ \E r \in Requests : Arrive(r, p) \/ Acknowledge(r, p) \/ HangUp(r, p) \/ Answer(r, p)

Spec == Init /\ [][Next]_vars

\* The process runs, its timers fire, and Telegram keeps offering an update
\* wherever it can be received.  A handler may take forever, and nobody need
\* start or stop a replica.
Fairness ==
  /\ \A p \in Replicas : WF_vars(Start(p) \/ Stop(p) \/ ForceExit(p))
  /\ \A u \in Updates : WF_vars(\E p \in Replicas : Arrive(u, p))

FairSpec == Spec /\ Fairness

-----------------------------------------------------------------------------

\* The type of every variable.
TypeOK ==
  /\ boot \in [Replicas -> {"down", "ping", "register", "serving", "failed"}]
  /\ halt \in [Replicas -> [Callers -> {"no", "drain", "webhook", "jobs", "close"}]]
  /\ server \in [Replicas -> {"off", "listening", "closing"}]
  /\ armed \in [Replicas -> BOOLEAN] /\ job \in [Replicas -> BOOLEAN]
  /\ pool \in [Replicas -> BOOLEAN]
  /\ webhook \in BOOLEAN
  /\ at \in [Requests -> Replicas \union {"outside", "handled", "failed", "cut"}]
  /\ open \subseteq Requests
  /\ starts \in 0..MaxStarts /\ crashes \in 0..MaxCrashes /\ errors \in 0..MaxErrors
  /\ early \subseteq Replicas

\* A graceful stop closes the pool when no job and no request that still has
\* its connection is left to meet it closed, also while app.start is still at
\* its registration: whoever waits for an answer gets it from a handler that
\* had the database.  Only a process told to stop before it was listening goes
\* on to listen behind the back of app.stop.  A handler that outlives its
\* connection, as that of a press does, may meet the pool closed.
PoolOutlivesWork ==
  /\ TypeOK
  /\ \A p \in Replicas :
       pool[p] \/ p \in early \/ (~job[p] /\ Connected(p) = {})

\* A process told to stop is gone in the end, even when a request or a job
\* never ends.
ShutdownEnds == \A p \in Replicas : halt[p]["shutdown"] # "no" ~> boot[p] = "down"

Reachable == webhook /\ \E p \in Replicas : server[p] = "listening"

\* An update that can be received from some time on reaches a handler.
\* Deploys, crashes, forced exits and calls given up lose no command; a press
\* they may lose, once it is in a handler.
UpdatesArrive ==
  \A u \in Updates :
    <>[]Reachable => <>[](at[u] # "outside" /\ (at[u] = "cut" => u \in Presses))

-----------------------------------------------------------------------------
(* What the repository says and the code does not keep *)

\* registerWithRetry: a boot may do without its registration, because the
\* webhook is "already set by another replica or the prior deploy", which is
\* "shared + persistent" (bot.ts).  Every stop of a replica deletes it for all.
WebhookStays == [][\A p \in Replicas :
  boot[p] = "serving" /\ halt[p]["shutdown"] = "no" => (webhook => webhook')]_vars
=============================================================================

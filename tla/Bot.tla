-------------------------------- MODULE Bot --------------------------------
(***************************************************************************)
(* The bot: the middleware every update goes through (RateLimit, then      *)
(* UserService.ensureRegistered), CreatorContext, which finds out whose    *)
(* storefront a command is about, and the commands /start, /browse,        *)
(* /follow and /unfollow.  /unlock, /subscribe and /my_access show         *)
(* something of the same storefront, as /browse does.                      *)
(*                                                                         *)
(* Updates of one user are handled concurrently, on any replica.  Telegram *)
(* offers an update again when its answer is lost or its replica dies, and *)
(* the handlers run again from the start.  Purchases, subscriptions and    *)
(* deliveries that callbacks ask for carry the id of their drop or plan    *)
(* and are in Payments, Subscriptions and Delivery.                        *)
(***************************************************************************)
EXTENDS RateLimit

CONSTANTS Updates, From,   \* From[x]: the user update x is from
          Scripts,         \* what the updates say: functions of Updates to Commands
          Replicas, NoReplica, Creators, NoCreator,
          Slugs, DefaultSlug,
          MaxEdits,        \* bound: slugs taken or given up
          MaxFailures      \* bound: calls that fail, replicas that die

Users == Senders

ASSUME UpdateAssumption == From \in [Updates -> Users]
ASSUME SlugAssumption == DefaultSlug \in Slugs /\ NoCreator \notin Creators
ASSUME ReplicaAssumption == NoReplica \notin Replicas
Commands == [name : {"start"}, slug : Slugs] \union [name : {"browse", "follow", "unfollow"}]

ASSUME ScriptAssumption == Scripts \subseteq [Updates -> Commands]
ASSUME BotBoundAssumption == MaxEdits \in Nat /\ MaxFailures \in Nat

\* CreatorContext.defaultCreatorId before its first use.
Unresolved == "unresolved"
ASSUME UnresolvedAssumption == Unresolved \notin Creators

VARIABLES
  says,      \* the command of each update
  pc, at,    \* where each update is in its handler, and on which replica
  target,    \* the creator its handler has found
  users, registrations,   \* rows of users, user.registered audits
  bySlug,    \* creators.slug
  session,   \* creator-ctx:<telegram id>
  default,   \* CreatorContext.defaultCreatorId of each replica
  follows,
  edits, failures,
  shown,     \* storefronts shown, <<user, creator>>
  opened,    \* storefronts users opened by their link
  defaults   \* creators who have had the default slug

slugVars == <<bySlug, edits, defaults>>
handlerVars == <<pc, at, target, default, shown, opened>>
vars == <<limitVars, says, handlerVars, users, registrations, session, follows, failures, slugVars>>

\* A call of the database, of Redis or of Telegram fails.
Error == failures < MaxFailures /\ failures' = failures + 1

Over == {"answered", "limited", "apology"}

\* The handler goes on, or is over and leaves its replica.
Goto(x, where) ==
  /\ pc' = [pc EXCEPT ![x] = where]
  /\ at' = [at EXCEPT ![x] = IF where \in Over THEN NoReplica ELSE @]

Owners(slug) == {bySlug[slug]} \ {NoCreator}

Init ==
  /\ LimitInit
  /\ says \in Scripts
  /\ pc = [x \in Updates |-> "offered"]
  /\ at = [x \in Updates |-> NoReplica]
  /\ target = [x \in Updates |-> NoCreator]
  /\ users = {} /\ registrations = [u \in Users |-> 0]
  /\ bySlug \in {f \in [Slugs -> Creators \union {NoCreator}] :
                   \A s, t \in Slugs : f[s] = f[t] => s = t \/ f[s] = NoCreator}
  /\ session = [u \in Users |-> NoCreator]
  /\ default = [p \in Replicas |-> Unresolved]
  /\ follows = {}
  /\ edits = 0 /\ failures = 0
  /\ shown = {} /\ opened = {}
  /\ defaults = Owners(DefaultSlug)

-----------------------------------------------------------------------------
(* The middleware *)

\* An update reaches a replica, whose limiter counts it.
Limit(x, p) ==
  /\ pc[x] = "offered"
  /\ \/ /\ (Allow(From[x]) /\ UNCHANGED failures) \/ (FailOpen(From[x]) /\ Error)
        /\ pc' = [pc EXCEPT ![x] = "find"]
        /\ at' = [at EXCEPT ![x] = p]
     \/ Refuse(From[x]) /\ Goto(x, "limited") /\ UNCHANGED failures
  /\ UNCHANGED <<says, target, users, registrations, session, follows, default, shown, opened,
                 slugVars>>

\* The first step of the handler of a command.
Entry(x) == IF says[x].name = "start" THEN "link" ELSE "current"

\* Any call of a handler throws: errorMiddleware or bot.catch apologises.
Fail(x) ==
  /\ pc[x] \notin Over \union {"offered"}
  /\ Error
  /\ Goto(x, "apology")
  /\ UNCHANGED <<limitVars, says, target, users, registrations, session, follows, default,
                 shown, opened, slugVars>>

\* ensureRegistered reads the row of the user.
Find(x) ==
  /\ pc[x] = "find"
  /\ Goto(x, IF From[x] \in users THEN Entry(x) ELSE "insert")
  /\ UNCHANGED <<limitVars, says, target, users, registrations, session, follows, default,
                 failures, shown, opened, slugVars>>

\* Slip: users.telegram_id is not unique.
NotUnique(u) == FALSE
\* The unique index on users.telegram_id.
Taken(u) == u \in users

\* It found none, and inserts the row and the audit in one transaction.
Insert(x) ==
  LET u == From[x] IN
  /\ pc[x] = "insert"
  /\ IF Taken(u)
     THEN Goto(x, "apology") /\ UNCHANGED <<users, registrations>>
     ELSE /\ users' = users \union {u}
          /\ registrations' = [registrations EXCEPT ![u] = @ + 1]
          /\ Goto(x, Entry(x))
  /\ UNCHANGED <<limitVars, says, target, session, follows, default, failures, shown, opened,
                 slugVars>>

-----------------------------------------------------------------------------
(* CreatorContext *)

\* fromPayload: /start with the slug of a storefront.
Link(x) ==
  LET c == bySlug[says[x].slug] IN
  /\ pc[x] = "link"
  /\ IF c = NoCreator
     THEN Goto(x, "current") /\ UNCHANGED <<target, opened>>
     ELSE /\ Goto(x, "remember")
          /\ target' = [target EXCEPT ![x] = c]
          /\ opened' = opened \union {<<From[x], c>>}
  /\ UNCHANGED <<limitVars, says, users, registrations, session, follows, default, failures,
                 shown, slugVars>>

\* Slip: one session for all.
SharedKey(x) == Users
\* sessionKey: whose session a handler writes.
SessionKey(x) == {From[x]}

\* remember: the session may be written although the call fails.
Remember(x) ==
  /\ pc[x] = "remember"
  /\ session' = [u \in Users |-> IF u \in SessionKey(x) THEN target[x] ELSE session[u]]
  /\ \/ Goto(x, "act") /\ UNCHANGED failures
     \/ Goto(x, "apology") /\ Error
  /\ UNCHANGED <<limitVars, says, target, users, registrations, follows, default, shown,
                 opened, slugVars>>

\* The creator is known: the command is carried out.  There is none: it is
\* answered with NO_STOREFRONT, or with the bare welcome.
Resolved(x, c) ==
  /\ Goto(x, IF c = NoCreator THEN "answered" ELSE "act")
  /\ target' = [target EXCEPT ![x] = c]

\* current: the session, or else the default of the replica.
Current(x) ==
  LET c == session[From[x]]  d == default[at[x]] IN
  /\ pc[x] = "current"
  /\ CASE c # NoCreator -> Resolved(x, c)
       [] c = NoCreator /\ d # Unresolved -> Resolved(x, d)
       [] OTHER -> Goto(x, "default") /\ UNCHANGED target
  /\ UNCHANGED <<limitVars, says, users, registrations, session, follows, default, failures,
                 shown, opened, slugVars>>

\* The default slug is looked up, once per replica: also that it has no
\* creator is kept until the process ends.
Default(x) ==
  LET c == bySlug[DefaultSlug] IN
  /\ pc[x] = "default"
  /\ default' = [default EXCEPT ![at[x]] = c]
  /\ Resolved(x, c)
  /\ UNCHANGED <<limitVars, says, users, registrations, session, follows, failures, shown,
                 opened, slugVars>>

-----------------------------------------------------------------------------
(* The commands *)

\* Who follows whom after a command, given twice or not.
Following(uc, name) ==
  CASE name = "follow"   -> follows \union {uc}
    [] name = "unfollow" -> follows \ {uc}
    [] OTHER             -> follows

\* What the command does with the storefront, and its answer, which may fail.
Act(x) ==
  LET uc == <<From[x], target[x]>>  name == says[x].name IN
  /\ pc[x] = "act"
  /\ shown' = IF name \in {"start", "browse"} THEN shown \union {uc} ELSE shown
  /\ follows' = Following(uc, name)
  /\ \/ Goto(x, "answered") /\ UNCHANGED failures
     \/ Goto(x, "apology") /\ Error
  /\ UNCHANGED <<limitVars, says, target, users, registrations, session, default, opened,
                 slugVars>>

-----------------------------------------------------------------------------
(* Around the handlers *)

\* The 30 days of a session are over.
ExpireSession(u) ==
  /\ session[u] # NoCreator
  /\ session' = [session EXCEPT ![u] = NoCreator]
  /\ UNCHANGED <<limitVars, says, handlerVars, users, registrations, follows, failures, slugVars>>

\* A creator registers with a slug, or edits it.
ChangeSlug(c, slug) ==
  /\ edits < MaxEdits
  /\ bySlug[slug] = NoCreator
  /\ edits' = edits + 1
  /\ bySlug' = [s \in Slugs |-> IF s = slug THEN c ELSE IF bySlug[s] = c THEN NoCreator ELSE bySlug[s]]
  /\ defaults' = IF slug = DefaultSlug THEN defaults \union {c} ELSE defaults
  /\ UNCHANGED <<limitVars, says, handlerVars, users, registrations, session, follows, failures>>

\* The answer of an update is lost on its way.
Redeliver(x) ==
  /\ pc[x] \in Over
  /\ Error
  /\ Goto(x, "offered")
  /\ target' = [target EXCEPT ![x] = NoCreator]
  /\ UNCHANGED <<limitVars, says, users, registrations, session, follows, default,
                 shown, opened, slugVars>>

\* A replica dies, and what it knew with it.
Crash(p) ==
  /\ Error
  /\ LET cut == {x \in Updates : at[x] = p} IN
     /\ pc' = [x \in Updates |-> IF x \in cut THEN "offered" ELSE pc[x]]
     /\ at' = [x \in Updates |-> IF x \in cut THEN NoReplica ELSE at[x]]
     /\ target' = [x \in Updates |-> IF x \in cut THEN NoCreator ELSE target[x]]
  /\ default' = [default EXCEPT ![p] = Unresolved]
  /\ UNCHANGED <<limitVars, says, users, registrations, session, follows, shown,
                 opened, slugVars>>

Passing == Tick /\ UNCHANGED <<says, handlerVars, users, registrations, session, follows, failures, slugVars>>

Middleware(x) == Find(x) \/ Insert(x) \/ \E p \in Replicas : Limit(x, p)
Context(x) == Link(x) \/ Remember(x) \/ Current(x) \/ Default(x)

Next ==
  \/ \E x \in Updates : Middleware(x) \/ Context(x) \/ Act(x) \/ Fail(x) \/ Redeliver(x)
  \/ \E u \in Users : ExpireSession(u)
  \/ \E c \in Creators, slug \in Slugs : ChangeSlug(c, slug)
  \/ \E p \in Replicas : Crash(p)
  \/ Passing

Spec == Init /\ [][Next]_vars

-----------------------------------------------------------------------------

\* The type of every variable.
TypeOK ==
  /\ LimitTypeOK
  /\ says \in [Updates -> Commands]
  /\ pc \in [Updates -> Over \union {"offered", "find", "insert", "link", "remember", "current",
                                     "default", "act"}]
  /\ at \in [Updates -> Replicas \union {NoReplica}]
  /\ target \in [Updates -> Creators \union {NoCreator}]
  /\ users \subseteq Users /\ registrations \in [Users -> Nat]
  /\ bySlug \in [Slugs -> Creators \union {NoCreator}]
  /\ session \in [Users -> Creators \union {NoCreator}]
  /\ default \in [Replicas -> Creators \union {NoCreator, Unresolved}]
  /\ follows \union shown \union opened \subseteq Users \X Creators
  /\ edits \in 0..MaxEdits /\ failures \in 0..MaxFailures
  /\ defaults \subseteq Creators

\* However the first updates of a user race, he is registered once and it is
\* audited once, and no command of somebody unregistered is carried out.
RegisteredOnce ==
  /\ TypeOK
  /\ \A u \in Users : registrations[u] = IF u \in users THEN 1 ELSE 0
  /\ \A x \in Updates : pc[x] \in {"link", "remember", "current", "default", "act"} => From[x] \in users

\* Whatever is cached, has expired or was written by another update, a user is
\* shown and follows only storefronts whose link he opened, or one that has
\* been the default.
ActsOnChosen ==
  \A uc \in shown \union follows : uc \in opened \/ uc[2] \in defaults
=============================================================================

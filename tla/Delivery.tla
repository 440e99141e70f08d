------------------------------ MODULE Delivery ------------------------------
(***************************************************************************)
(* Access and delivery: AccessService.canAccess, DeliveryEngine.deliver    *)
(* and TelegramContentTransport.send, while creators add content and       *)
(* publish, users pay, and time and the expiration sweep end               *)
(* subscriptions.                                                          *)
(*                                                                         *)
(* A delivery decides on access in a read-only transaction, sends the      *)
(* assets it listed there one by one with no transaction open, and records *)
(* what was delivered in a transaction of its own.  All drops are of one   *)
(* creator.                                                                *)
(***************************************************************************)
EXTENDS Integers

CONSTANTS Users, Drops,
          Positions,   \* drop_assets.position, of which only the order matters
          Media,       \* assets that are not text
          Deliveries, Asker, Wants, Home,  \* who asks for which drop, on which replica
          Replicas,
          Period,      \* of the subscription plan
          MaxTime, MaxSubscribes,
          MaxFailures  \* bounds: the clock, subscribes, calls that fail or crashes

Assets == Drops \X Positions

ASSUME CatalogAssumption ==
  /\ Positions \subseteq Nat
  /\ Media \subseteq Assets
ASSUME DeliveryAssumption ==
  /\ Asker \in [Deliveries -> Users]
  /\ Wants \in [Deliveries -> Drops]
  /\ Home \in [Deliveries -> Replicas]
ASSUME BoundAssumption ==
  /\ Period \in Nat /\ MaxTime \in Nat /\ MaxSubscribes \in Nat
  /\ MaxFailures \in Nat

VARIABLES
  accessType,  \* of each drop, chosen when it is created
  now,
  subscription,  \* the latest row of each user
  lapsed,        \* users the expiration sweep has listed
  grants,        \* live access grants
  published,
  publishing,    \* drops found ready by a publishDrop that has not updated them
  rows,          \* drop_assets
  cached,        \* assets with a file id in transport_cache
  botId,         \* the getMe promise of each replica
  pc,
  todo,          \* listed assets a delivery has still to send
  known,         \* listed assets whose row had a file id
  before,        \* whether a delivery found an earlier one on record
  delivered,     \* content.delivered rows
  announced,     \* ContentUnlocked events raised in transactions that committed
  subscribes, failures,
  listed,        \* what a delivery listed
  entitled,      \* whether the user was entitled when access was decided
  copies,        \* messages of a delivery that reached the user, by asset
  unsure         \* those whose answer was lost

catalogVars == <<accessType, lapsed, published, publishing, rows, grants, now,
                 subscription, subscribes>>
deliveryVars == <<todo, known, listed, entitled>>
mailVars == <<copies, unsure>>
recordVars == <<before, delivered, announced>>
vars == <<catalogVars, deliveryVars, mailVars, recordVars, failures, cached, botId, pc>>

What(d) == <<Asker[d], Wants[d]>>

Goto(d, where) == pc' = [pc EXCEPT ![d] = where]

\* A call of the database, of the storage or of Telegram fails.
Error == failures < MaxFailures /\ failures' = failures + 1

\* Slip: a subscription lasts until the sweep has been.
NotExpired(u) == subscription[u].status = "active"
\* hasActiveForUserAndCreator
HasActive(u) == subscription[u].status = "active" /\ subscription[u].expires > now

\* canAccess, for a drop that is published
Allowed(u, x) ==
  \/ accessType[x] = "free"
  \/ accessType[x] = "premium" /\ HasActive(u)
  \/ accessType[x] = "pay_per_unlock" /\ <<u, x>> \in grants

\* The asset a delivery sends next: assets go out by position.
Current(d) == CHOOSE a \in todo[d] : \A b \in todo[d] : a[2] <= b[2]

AccessTypes == {"free", "premium", "pay_per_unlock"}

Init ==
  /\ accessType \in [Drops -> AccessTypes]
  /\ now = 0
  /\ subscription = [u \in Users |-> [status |-> "none", expires |-> 0]]
  /\ lapsed = {} /\ grants = {} /\ published = {} /\ publishing = {} /\ rows = {}
  /\ cached = {}
  /\ botId = [p \in Replicas |-> "unknown"]
  /\ pc = [d \in Deliveries |-> "idle"]
  /\ todo = [d \in Deliveries |-> {}]
  /\ known = [d \in Deliveries |-> {}]
  /\ before = [d \in Deliveries |-> FALSE]
  /\ delivered = [w \in Users \X Drops |-> 0]
  /\ announced = [w \in Users \X Drops |-> 0]
  /\ subscribes = 0 /\ failures = 0
  /\ listed = [d \in Deliveries |-> {}]
  /\ entitled = [d \in Deliveries |-> FALSE]
  /\ copies = [d \in Deliveries |-> [a \in Assets |-> 0]]
  /\ unsure = [d \in Deliveries |-> [a \in Assets |-> 0]]

-----------------------------------------------------------------------------
(* Creators, payments, time *)

OthersStay ==
  UNCHANGED <<accessType, deliveryVars, mailVars, recordVars, failures, cached, botId, pc>>

\* addAsset, of a draft or of a published drop
AddAsset(a) ==
  /\ a \notin rows  \* drop_assets_drop_position_uq
  /\ rows' = rows \union {a}
  /\ UNCHANGED <<lapsed, published, publishing, grants, now, subscription, subscribes>>
  /\ OthersStay

\* publishDrop, up to its update
CheckPublish(x) ==
  /\ x \notin published \union publishing
  /\ \E a \in rows : a[1] = x
  /\ publishing' = publishing \union {x}
  /\ UNCHANGED <<lapsed, published, rows, grants, now, subscription, subscribes>>
  /\ OthersStay

\* drops.publish
Publish(x) ==
  /\ x \in publishing
  /\ published' = published \union {x}
  /\ publishing' = publishing \ {x}
  /\ UNCHANGED <<lapsed, rows, grants, now, subscription, subscribes>>
  /\ OthersStay

\* A purchase mints its grant.
Grant(u, x) ==
  /\ x \in published /\ accessType[x] = "pay_per_unlock"
  /\ grants' = grants \union {<<u, x>>}
  /\ UNCHANGED <<lapsed, published, publishing, rows, now, subscription, subscribes>>
  /\ OthersStay

\* A subscribe creates a row or renews the active one.
Subscribe(u) ==
  /\ subscribes < MaxSubscribes
  /\ subscribes' = subscribes + 1
  /\ LET s == subscription[u]
         from == IF s.status = "active" /\ s.expires > now THEN s.expires ELSE now
     IN subscription' = [subscription EXCEPT ![u] = [status |-> "active", expires |-> from + Period]]
  /\ UNCHANGED <<lapsed, published, publishing, rows, grants, now>>
  /\ OthersStay

TimePasses ==
  /\ now < MaxTime
  /\ now' = now + 1
  /\ UNCHANGED <<lapsed, published, publishing, rows, grants, subscription, subscribes>>
  /\ OthersStay

\* expireLapsed lists rows and then updates each, renewed or not.
SweepLists ==
  /\ lapsed' = {u \in Users : subscription[u].status = "active" /\ subscription[u].expires <= now}
  /\ UNCHANGED <<published, publishing, rows, grants, now, subscription, subscribes>>
  /\ OthersStay

SweepExpires(u) ==
  /\ u \in lapsed
  /\ lapsed' = lapsed \ {u}
  /\ subscription' = [subscription EXCEPT ![u].status = "expired"]
  /\ UNCHANGED <<published, publishing, rows, grants, now, subscribes>>
  /\ OthersStay

-----------------------------------------------------------------------------
(* deliver: the read-only transaction *)

CatalogStays == UNCHANGED <<catalogVars, cached>>

\* The user taps, or taps again after a refusal or an error.
Ask(d) ==
  /\ pc[d] \in {"idle", "refused", "failed"}
  /\ Goto(d, "drop")
  /\ entitled' = [entitled EXCEPT ![d] = FALSE]
  /\ listed' = [listed EXCEPT ![d] = {}]
  /\ copies' = [copies EXCEPT ![d] = [a \in Assets |-> 0]]
  /\ unsure' = [unsure EXCEPT ![d] = [a \in Assets |-> 0]]
  /\ CatalogStays
  /\ UNCHANGED <<todo, known, recordVars, failures, botId>>

\* Drafts look like missing drops.
ReadDrop(d) ==
  /\ pc[d] = "drop"
  /\ Goto(d, IF Wants[d] \in published THEN "access" ELSE "refused")
  /\ CatalogStays
  /\ UNCHANGED <<deliveryVars, mailVars, recordVars, failures, botId>>

\* What the user has paid for, whatever the sweep has or has not done.
Entitled(d) ==
  /\ Wants[d] \in published
  /\ \/ accessType[Wants[d]] = "free"
     \/ accessType[Wants[d]] = "premium" /\ subscription[Asker[d]].expires > now
     \/ What(d) \in grants

Decide(d) ==
  /\ pc[d] = "access"
  /\ IF Allowed(Asker[d], Wants[d])
     THEN Goto(d, "list") /\ entitled' = [entitled EXCEPT ![d] = Entitled(d)]
     ELSE Goto(d, "refused") /\ UNCHANGED entitled
  /\ CatalogStays
  /\ UNCHANGED <<todo, known, listed, mailVars, recordVars, failures, botId>>

\* listAssets.  A drop without content is an error.
ListAssets(d) ==
  LET found == {a \in rows : a[1] = Wants[d]} IN
  /\ pc[d] = "list"
  /\ todo' = [todo EXCEPT ![d] = found]
  /\ listed' = [listed EXCEPT ![d] = found]
  /\ known' = [known EXCEPT ![d] = found \intersect cached]
  /\ Goto(d, IF found = {} THEN "failed" ELSE "asset")
  /\ CatalogStays
  /\ UNCHANGED <<entitled, mailVars, recordVars, failures, botId>>

-----------------------------------------------------------------------------
(* deliver: sending *)

\* Slip: an asset that cannot be sent is left out.
LeaveOut(d) == Goto(d, "asset") /\ todo' = [todo EXCEPT ![d] = @ \ {Current(d)}]
\* The call ends with an error for the user.
GiveUp(d) == Goto(d, "failed") /\ UNCHANGED todo

\* Slip: a file id Telegram no longer accepts fails the delivery.
NoFallback == "failed"
\* What follows a cached file id that failed.
AfterStaleId == "source"

\* The current asset is dealt with.
Sent(d) == Goto(d, "asset") /\ todo' = [todo EXCEPT ![d] = @ \ {Current(d)}]

\* A message is delivered, and its answer arrives or does not.
Arrives(d) ==
  copies' = [copies EXCEPT ![d][Current(d)] = @ + 1] /\ UNCHANGED unsure
ArrivesUnsure(d) ==
  /\ copies' = [copies EXCEPT ![d][Current(d)] = @ + 1]
  /\ unsure' = [unsure EXCEPT ![d][Current(d)] = @ + 1]

\* Slip: every asset is sent as a file.
NoText(a) == FALSE
IsText(a) == a \notin Media

\* resolveContent: media gets a signed URL, which may fail.
Resolve(d) ==
  /\ pc[d] = "asset" /\ todo[d] # {}
  /\ \/ IsText(Current(d)) /\ Goto(d, "text") /\ UNCHANGED <<todo, failures>>
     \/ ~IsText(Current(d)) /\ Goto(d, "bot") /\ UNCHANGED <<todo, failures>>
     \/ ~IsText(Current(d)) /\ Error /\ GiveUp(d)
  /\ CatalogStays
  /\ UNCHANGED <<known, listed, entitled, mailVars, recordVars, botId>>

SendText(d) ==
  /\ pc[d] = "text"
  /\ \/ Arrives(d) /\ Sent(d) /\ UNCHANGED failures
     \/ Error /\ GiveUp(d) /\ (ArrivesUnsure(d) \/ UNCHANGED mailVars)
  /\ CatalogStays
  /\ UNCHANGED <<known, listed, entitled, recordVars, botId>>

\* cacheKey: the first media of a process calls getMe, and all share its promise.
AskBotId(d) ==
  /\ pc[d] = "bot" /\ botId[Home[d]] = "unknown"
  /\ botId' = [botId EXCEPT ![Home[d]] = "asked"]
  /\ CatalogStays
  /\ UNCHANGED <<deliveryVars, mailVars, recordVars, failures, pc>>

\* getMe answers or fails, and the promise stays as it is.
BotIdSettles(p) ==
  /\ botId[p] = "asked"
  /\ \/ botId' = [botId EXCEPT ![p] = "known"] /\ UNCHANGED failures
     \/ botId' = [botId EXCEPT ![p] = "rejected"] /\ Error
  /\ CatalogStays
  /\ UNCHANGED <<deliveryVars, mailVars, recordVars, pc>>

AwaitBotId(d) ==
  /\ pc[d] = "bot"
  /\ \/ /\ botId[Home[d]] = "known"
        /\ Goto(d, IF Current(d) \in known[d] THEN "cached" ELSE "source")
        /\ UNCHANGED todo
     \/ botId[Home[d]] = "rejected" /\ GiveUp(d)
  /\ CatalogStays
  /\ UNCHANGED <<known, listed, entitled, mailVars, recordVars, failures, botId>>

\* The cached file id may have gone stale at any time.  When it has not, the
\* answer carries the same id and there is nothing to write.
SendCached(d) ==
  /\ pc[d] = "cached"
  /\ \/ Arrives(d) /\ Sent(d) /\ UNCHANGED failures
     \/ Goto(d, AfterStaleId) /\ UNCHANGED <<todo, mailVars, failures>>
     \/ Error /\ ArrivesUnsure(d) /\ Goto(d, AfterStaleId) /\ UNCHANGED todo
  /\ CatalogStays
  /\ UNCHANGED <<known, listed, entitled, recordVars, botId>>

SendSource(d) ==
  /\ pc[d] = "source"
  /\ \/ Arrives(d) /\ Goto(d, "cache") /\ UNCHANGED <<todo, failures>>
     \/ Error /\ GiveUp(d) /\ (ArrivesUnsure(d) \/ UNCHANGED mailVars)
  /\ CatalogStays
  /\ UNCHANGED <<known, listed, entitled, recordVars, botId>>

\* Slip: the send is repeated until its file id is kept.
SendAgain(d) == Goto(d, "source") /\ UNCHANGED todo
\* A cache write that fails is logged.
CacheWriteFails(d) == Sent(d)

WriteCache(d) ==
  /\ pc[d] = "cache"
  /\ \/ cached' = cached \union {Current(d)} /\ Sent(d) /\ UNCHANGED failures
     \/ Error /\ CacheWriteFails(d) /\ (UNCHANGED cached \/ cached' = cached \union {Current(d)})
  /\ UNCHANGED <<catalogVars, known, listed, entitled, mailVars, recordVars, botId>>

-----------------------------------------------------------------------------
(* deliver: the record *)

\* existsForActor
LookBack(d) ==
  /\ pc[d] = "asset" /\ todo[d] = {}
  /\ before' = [before EXCEPT ![d] = delivered[What(d)] > 0]
  /\ Goto(d, "record")
  /\ CatalogStays
  /\ UNCHANGED <<deliveryVars, mailVars, delivered, announced, failures, botId>>

\* Slip: the look back comes after the delivery's own row.
CountsItself(d) == FALSE
\* Whether the delivery is the first, and raises ContentUnlocked.
IsFirst(d) == ~before[d]

\* The commit, which may succeed without its answer arriving.
Record(d) ==
  /\ pc[d] = "record"
  /\ delivered' = [delivered EXCEPT ![What(d)] = @ + 1]
  /\ announced' = [announced EXCEPT ![What(d)] = IF IsFirst(d) THEN @ + 1 ELSE @]
  /\ \/ Goto(d, "done") /\ UNCHANGED failures
     \/ Goto(d, "failed") /\ Error
  /\ CatalogStays
  /\ UNCHANGED <<deliveryVars, mailVars, before, botId>>

-----------------------------------------------------------------------------

\* A database call throws, and its transaction rolls back.
Throw(d) ==
  /\ \/ pc[d] \in {"drop", "access", "list", "record"}
     \/ pc[d] = "asset" /\ todo[d] = {}
  /\ Error
  /\ Goto(d, "failed")
  /\ CatalogStays
  /\ UNCHANGED <<deliveryVars, mailVars, recordVars, botId>>

\* The process dies and is started again.
Crash(p) ==
  /\ failures < MaxFailures
  /\ failures' = failures + 1
  /\ pc' = [d \in Deliveries |->
              IF Home[d] = p /\ pc[d] \notin {"idle", "refused", "done"} THEN "failed" ELSE pc[d]]
  /\ botId' = [botId EXCEPT ![p] = "unknown"]
  /\ CatalogStays
  /\ UNCHANGED <<deliveryVars, mailVars, recordVars>>

Step(d) ==
  \/ ReadDrop(d) \/ Decide(d) \/ ListAssets(d)
  \/ Resolve(d) \/ SendText(d) \/ AskBotId(d) \/ AwaitBotId(d)
  \/ SendCached(d) \/ SendSource(d) \/ WriteCache(d)
  \/ LookBack(d) \/ Record(d)

Next ==
  \/ \E a \in Assets : AddAsset(a)
  \/ \E x \in Drops : CheckPublish(x) \/ Publish(x)
  \/ \E u \in Users, x \in Drops : Grant(u, x)
  \/ \E u \in Users : Subscribe(u) \/ SweepExpires(u)
  \/ TimePasses
  \/ SweepLists
  \/ \E d \in Deliveries : Ask(d) \/ Step(d) \/ Throw(d)
  \/ \E p \in Replicas : BotIdSettles(p) \/ Crash(p)

Spec == Init /\ [][Next]_vars

\* Calls go on, getMe settles, and a user who got nothing taps again.
FairSpec ==
  /\ Spec
  /\ \A d \in Deliveries : WF_vars(Step(d)) /\ WF_vars(Ask(d))
  /\ \A p \in Replicas : WF_vars(BotIdSettles(p))

-----------------------------------------------------------------------------
(* What holds *)

\* The type of every variable.
TypeOK ==
  /\ accessType \in [Drops -> AccessTypes]
  /\ now \in 0..MaxTime
  /\ subscription \in [Users -> [status : {"none", "active", "expired"}, expires : Nat]]
  /\ lapsed \subseteq Users /\ grants \subseteq Users \X Drops
  /\ published \subseteq Drops /\ publishing \subseteq Drops
  /\ rows \subseteq Assets /\ cached \subseteq Media
  /\ botId \in [Replicas -> {"unknown", "asked", "known", "rejected"}]
  /\ pc \in [Deliveries -> {"idle", "drop", "access", "list", "asset", "text", "bot", "cached",
                            "source", "cache", "record", "done", "refused", "failed"}]
  /\ todo \in [Deliveries -> SUBSET Assets] /\ known \in [Deliveries -> SUBSET Assets]
  /\ before \in [Deliveries -> BOOLEAN] /\ entitled \in [Deliveries -> BOOLEAN]
  /\ delivered \in [Users \X Drops -> Nat] /\ announced \in [Users \X Drops -> Nat]
  /\ subscribes \in Nat /\ failures \in Nat
  /\ listed \in [Deliveries -> SUBSET Assets]
  /\ copies \in [Deliveries -> [Assets -> Nat]] /\ unsure \in [Deliveries -> [Assets -> Nat]]

\* Content reaches only users who were entitled to it when access was decided,
\* however late the sweep is and whatever happened between the reads.
OnlyEntitledReceive ==
  \A d \in Deliveries : (\E a \in Assets : copies[d][a] > 0) => entitled[d]

\* A delivery is on record only when every asset it listed reached the user.
RecordedIsReceived ==
  \A d \in Deliveries : pc[d] \in {"record", "done"} => \A a \in listed[d] : copies[d][a] > 0

\* A user gets an asset twice in one delivery only when an answer of Telegram
\* was lost: neither the fallback nor the cache sends it again.
SentTwiceIsUnsure ==
  \A d \in Deliveries, a \in Assets : copies[d][a] <= 1 + unsure[d][a]

\* However deliveries overlap, what is on record as delivered had its
\* ContentUnlocked raised by a transaction that committed.
FirstIsAnnounced ==
  \A w \in Users \X Drops : delivered[w] > 0 => announced[w] > 0

CanAccess(d) == Wants[d] \in published /\ Allowed(Asker[d], Wants[d])

\* Who has access for good and keeps asking gets the content, whatever failed
\* before, unless the process could not learn the bot's id.
AskedIsDelivered ==
  \A d \in Deliveries :
    <>[]CanAccess(d) => <>(pc[d] = "done" \/ botId[Home[d]] = "rejected")
=============================================================================

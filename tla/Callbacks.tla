----------------------------- MODULE Callbacks -----------------------------
(***************************************************************************)
(* From a button of the bot to the content: the handlers of callback       *)
(* queries (detail, unlock_prompt, unlock) over the payment ledger, which  *)
(* Payments implements, and over delivery, which Delivery details.         *)
(*                                                                         *)
(* A press is an update.  Telegram offers it until it is acknowledged,     *)
(* which a handler does as its first act (answerCbQuery is the answer to   *)
(* the webhook request): what follows is done once, or cut off for good.   *)
(* It is offered again when the acknowledgment is late or lost or the      *)
(* process dies before, so that several runs may handle one press, beside  *)
(* each other or after.  Keyboards stay in the chat and can be pressed at  *)
(* any time, twice too.  All drops are published and pay_per_unlock; what  *)
(* the middleware does first is in Bot.                                    *)
(***************************************************************************)
EXTENDS Naturals, FiniteSets

CONSTANTS Users, Drops,
          Updates, From,   \* From[x]: the user update x is from
          NoPress,
          Runs,            \* runs of handleCallback, on any replica
          NoUpdate,
          MaxFailures      \* bound: calls that fail, runs that die

ASSUME FromAssumption == From \in [Updates -> Users] /\ IsFiniteSet(Updates)
ASSUME NoneAssumption == NoUpdate \notin Updates
ASSUME BoundAssumption == MaxFailures \in Nat

Actions == {"detail", "unlock_prompt", "unlock"}
Buttons == [action : Actions, drop : Drops]

ASSUME NoPressAssumption == NoPress \notin Buttons

\* What an idempotency key of the bot names: user, drop and one more part.
Keys == Users \X Drops \X (Updates \union Runs)

VARIABLES
  keyboards,  \* buttons in the chat of each user
  press,      \* the button each update presses
  acked,      \* updates Telegram does not offer any more
  run,        \* the update each run handles
  pc,         \* how far it has come
  heard,      \* what the user got for each update; "lost" is an apology he did not get
  dropped,    \* updates of which a run died that had acknowledged them
  failures,
  status, charged, owned  \* the ledger

chatVars == <<keyboards, press>>
money == <<status, charged, owned>>
vars == <<chatVars, acked, run, pc, heard, dropped, failures, money>>

Ledger == INSTANCE PaymentLedger WITH Attempts     <- Keys,
                                      Entitlements <- Users \X Drops

Pressed == {x \in Updates : press[x] # NoPress}
User(h) == From[run[h]]
Drop(h) == press[run[h]].drop
Item(h) == <<User(h), Drop(h)>>

\* Slip: the key is made up when the handler runs.
KeyOfRun(h) == <<User(h), Drop(h), h>>
\* telegram:unlock:<user>:<drop>:<update_id>
Key(h) == <<User(h), Drop(h), run[h]>>

\* A user comes with the keyboards of an earlier visit, or with none but the
\* one of /browse.
Init ==
  /\ keyboards \in [Users -> {[action : {"detail"}, drop : Drops], Buttons}]
  /\ press = [x \in Updates |-> NoPress]
  /\ acked = {}
  /\ run = [h \in Runs |-> NoUpdate]
  /\ pc = [h \in Runs |-> "idle"]
  /\ heard = [x \in Updates |-> {}]
  /\ dropped = {} /\ failures = 0
  /\ Ledger!Init

Move(h, where) == pc' = [pc EXCEPT ![h] = where] /\ UNCHANGED <<run, dropped>>
Goto(h, where) == Move(h, where) /\ UNCHANGED acked

\* A call of the database or of Telegram fails.
Error == failures < MaxFailures /\ failures' = failures + 1

\* The webhook request is answered, and the answer may be lost.
Acknowledge(x) ==
  \/ acked' = acked \union {x} /\ UNCHANGED failures
  \/ UNCHANGED acked /\ Error

Hear(h, what) == heard' = [heard EXCEPT ![run[h]] = @ \union {what}]

\* A message goes out.  It may have reached the user although the call fails.
Reply(h, what, next) ==
  /\ Hear(h, what)
  /\ \/ Goto(h, next) /\ UNCHANGED failures
     \/ Goto(h, "apology") /\ Error

Bystanders == UNCHANGED <<chatVars, heard, money>>

-----------------------------------------------------------------------------
(* Telegram *)

Press(x) ==
  /\ x \notin Pressed
  /\ \E b \in keyboards[From[x]] : press' = [press EXCEPT ![x] = b]
  /\ UNCHANGED <<keyboards, acked, run, pc, heard, dropped, failures, money>>

\* An update reaches a replica, which may be handling it already.
Receive(h, x) ==
  /\ pc[h] = "idle"
  /\ x \in Pressed \ acked
  /\ run' = [run EXCEPT ![h] = x]
  /\ pc' = [pc EXCEPT ![h] = "dispatch"]
  /\ Bystanders /\ UNCHANGED <<acked, dropped, failures>>

\* handleCallback
FirstStep(action) == IF action = "unlock" THEN "lookup" ELSE "look"

\* answerCbQuery, parseCallbackData and the choice of the handler, which goes on
\* whether Telegram gets the answer or not.
Dispatch(h) ==
  /\ pc[h] = "dispatch"
  /\ Move(h, FirstStep(press[run[h]].action))
  /\ Acknowledge(run[h])
  /\ Bystanders

-----------------------------------------------------------------------------
(* showDetail and showUnlockPrompt *)

\* resolveAccess, in a transaction of its own.
Look(h) ==
  /\ pc[h] = "look"
  /\ Goto(h, IF Item(h) \in owned THEN "open" ELSE "closed")
  /\ Bystanders /\ UNCHANGED failures

\* Slip: the content does not follow.
JustSaid(h) == "finish"
\* What follows the answer to somebody who has access.
AfterOpen(h) == "deliver"

\* The drop is his: he is told so and it is sent.
Open(h) ==
  /\ pc[h] = "open"
  /\ Reply(h, "already", AfterOpen(h))
  /\ UNCHANGED <<chatVars, money>>

\* openKeyboard, confirmUnlockKeyboard
Offered(action) == IF action = "detail" THEN "unlock_prompt" ELSE "unlock"

\* It is not his: the price, with the next button.
Offer(h) ==
  /\ pc[h] = "closed"
  /\ Reply(h, "offer", "finish")
  /\ keyboards' = [keyboards EXCEPT
       ![User(h)] = @ \union {[action |-> Offered(press[run[h]].action), drop |-> Drop(h)]}]
  /\ UNCHANGED <<press, money>>

-----------------------------------------------------------------------------
(* unlock: purchaseDrop, in the steps in which the ledger sees it *)

\* Slip: an attempt in flight passes for a success.
AnyReplay(s) == IF s = "failed" THEN "not_charged" ELSE "bought"
\* The outcome of a key that was used before.
Replayed(s) ==
  CASE s = "succeeded" -> "bought"
    [] s = "failed"    -> "not_charged"
    [] s = "pending"   -> "refused"

\* TX1 up to the insert: resolveReplay and canAccess.
Lookup(h) ==
  /\ pc[h] = "lookup"
  /\ Goto(h, CASE status[Key(h)] # "none" -> Replayed(status[Key(h)])
               [] OTHER -> IF Item(h) \in owned THEN "owned" ELSE "insert")
  /\ Bystanders /\ UNCHANGED failures

\* beginAttempt; the unique key rejects what got a row since the lookup.
Insert(h) ==
  /\ pc[h] = "insert"
  /\ IF status[Key(h)] = "none"
     THEN Ledger!Open(Key(h)) /\ Goto(h, "provider")
     ELSE UNCHANGED money /\ Goto(h, "apology")
  /\ UNCHANGED <<chatVars, heard, failures>>

Charge(h) ==
  /\ pc[h] = "provider"
  /\ Ledger!Charge(Key(h))
  /\ Goto(h, "charged")
  /\ UNCHANGED <<chatVars, heard, failures>>

\* The provider declines, and finalizeFailure.
Decline(h) ==
  /\ pc[h] = "provider"
  /\ Ledger!GiveUp({Key(h)})
  /\ Goto(h, "not_charged")
  /\ UNCHANGED <<chatVars, heard, failures>>

\* TX2; the unique grant rejects what the user has from another press.
Finalize(h) ==
  /\ pc[h] = "charged"
  /\ IF Item(h) \notin owned
     THEN Ledger!Pay(Key(h), Item(h)) /\ Goto(h, "bought")
     ELSE UNCHANGED money /\ Goto(h, "apology")
  /\ UNCHANGED <<chatVars, heard, failures>>

\* purchaseSucceeded
Bought(h) ==
  /\ pc[h] = "bought"
  /\ Reply(h, "unlocked", "deliver")
  /\ UNCHANGED <<chatVars, money>>

\* replyAppError: of a purchase, by its code, or of a delivery ("refused").
Refuse(h) ==
  /\ pc[h] \in {"refused", "owned", "not_charged"}
  /\ Reply(h, pc[h], "finish")
  /\ UNCHANGED <<chatVars, money>>

\* failStalePending
Sweep(k) ==
  /\ status[k] = "pending"
  /\ Ledger!GiveUp({k})
  /\ UNCHANGED <<chatVars, acked, run, pc, heard, dropped, failures>>

-----------------------------------------------------------------------------
(* Delivery and the end of a run *)

\* deliver: the content goes out to somebody who has access; a part of it may
\* have when a send fails.
Deliver(h) ==
  /\ pc[h] = "deliver"
  /\ \/ Item(h) \in owned /\ Hear(h, "content") /\ Goto(h, "finish") /\ UNCHANGED failures
     \/ Item(h) \notin owned /\ UNCHANGED <<heard, failures>> /\ Goto(h, "refused")
     \/ UNCHANGED heard /\ Error /\ Goto(h, "refused")
  /\ UNCHANGED <<chatVars, money>>

\* Slip: the error is logged and nothing is said.
Swallowed(h) == "finish"
\* Where a call that throws leads: into handleTelegramError, before the press is
\* acknowledged ("unhandled", a middleware threw) or after.
AfterThrow(h) == IF pc[h] = "dispatch" THEN "unhandled" ELSE "apology"

\* Any call throws.
Fail(h) ==
  /\ pc[h] \notin {"idle", "apology", "finish", "unhandled", "answer"}
  /\ Error
  /\ Goto(h, AfterThrow(h))
  /\ Bystanders

\* handleTelegramError: an apology, and when that fails, nothing.
Apologize(h) ==
  /\ \/ pc[h] = "apology" /\ Goto(h, "finish")
     \/ pc[h] = "unhandled" /\ Goto(h, "answer")
  /\ \/ Hear(h, "apology") /\ UNCHANGED failures
     \/ Hear(h, "lost") /\ Error
  /\ UNCHANGED <<chatVars, money>>

Leave(h) ==
  /\ run' = [run EXCEPT ![h] = NoUpdate]
  /\ pc' = [pc EXCEPT ![h] = "idle"]
  /\ Bystanders

\* handleUpdate returns, and acknowledges an update that is not yet.
Finish(h) ==
  /\ \/ pc[h] = "finish" /\ UNCHANGED <<acked, failures>>
     \/ pc[h] = "answer" /\ Acknowledge(run[h])
  /\ Leave(h) /\ UNCHANGED dropped

\* A press that is not acknowledged is offered again; of the others the rest is
\* never done.
Crash(h) ==
  /\ pc[h] # "idle"
  /\ Error
  /\ dropped' = IF run[h] \in acked /\ pc[h] \notin {"dispatch", "unhandled", "answer"}
                THEN dropped \union {run[h]} ELSE dropped
  /\ Leave(h) /\ UNCHANGED acked

View(h) == Dispatch(h) \/ Look(h) \/ Open(h) \/ Offer(h)
Buy(h) == Lookup(h) \/ Insert(h) \/ Charge(h) \/ Decline(h) \/ Finalize(h) \/ Bought(h) \/ Refuse(h)
End(h) == Deliver(h) \/ Apologize(h) \/ Finish(h)

Next ==
  \/ \E x \in Updates : Press(x) \/ \E h \in Runs : Receive(h, x)
  \/ \E h \in Runs : View(h) \/ Buy(h) \/ End(h) \/ Fail(h) \/ Crash(h)
  \/ \E k \in Keys : Sweep(k)

Spec == Init /\ [][Next]_vars

\* A run that has begun goes on (a provider that never answers is cut off by
\* the end of its process), and Telegram keeps offering an update.
FairSpec ==
  /\ Spec
  /\ \A h \in Runs : WF_vars(View(h) \/ Buy(h) \/ End(h))
  /\ \A x \in Updates : WF_vars(\E h \in Runs : Receive(h, x))

-----------------------------------------------------------------------------

Answers == {"already", "offer", "unlocked", "content", "refused", "owned", "not_charged",
            "apology", "lost"}

\* The type of every variable.
TypeOK ==
  /\ keyboards \in [Users -> SUBSET Buttons]
  /\ press \in [Updates -> Buttons \union {NoPress}]
  /\ acked \subseteq Pressed
  /\ run \in [Runs -> Updates \union {NoUpdate}]
  /\ pc \in [Runs -> {"idle", "dispatch", "look", "open", "closed", "lookup", "insert", "provider",
                      "charged", "bought", "deliver", "refused", "owned", "not_charged", "apology",
                      "finish", "unhandled", "answer"}]
  /\ \A h \in Runs : pc[h] = "idle" <=> run[h] = NoUpdate
  /\ heard \in [Updates -> SUBSET Answers] /\ dropped \subseteq Updates
  /\ failures \in 0..MaxFailures
  /\ status \in [Keys -> {"none", "pending", "succeeded", "failed"}]
  /\ charged \subseteq Keys /\ owned \subseteq Users \X Drops

ChargesFor(u, d) == {k \in charged : k[1] = u /\ k[2] = d}
Confirms(u, d) == {x \in Pressed : From[x] = u /\ press[x] = [action |-> "unlock", drop |-> d]}

\* However often an update is offered, handled beside itself or after a crash,
\* a user pays at most once for each time he pressed the confirm button, and
\* nothing for the other buttons.
ChargesAreConsented ==
  \A u \in Users, d \in Drops : Cardinality(ChargesFor(u, d)) <= Cardinality(Confirms(u, d))

\* What the bot says is so: a drop that is his, unlocked or sent belongs to the
\* user, and what belongs to him was paid for with one of his keys.
HeardIsTrue ==
  /\ TypeOK
  /\ \A x \in Pressed :
       heard[x] \intersect {"already", "unlocked", "content", "owned"} # {} =>
         <<From[x], press[x].drop>> \in owned
  /\ \A i \in owned : \E k \in ChargesFor(i[1], i[2]) : status[k] = "succeeded"

Answered(x) == x \in acked /\ heard[x] # {}

\* A press is answered in the end, with a message or with an apology that was
\* sent and lost, although its runs fail and acknowledgments are lost; unless its
\* process dies after it was acknowledged, since then nobody offers it again.
PressIsAnswered == \A x \in Updates : (x \in Pressed) ~> (Answered(x) \/ x \in dropped)

\* A press of "detail" or "unlock_prompt" nobody handles yet, of a drop the user owns.
OwnerAsks(x) ==
  /\ x \in Pressed \ acked
  /\ \A h \in Runs : run[h] # x
  /\ press[x].action # "unlock"
  /\ <<From[x], press[x].drop>> \in owned

\* Somebody who has paid gets the content from the button he has, or is told
\* that it failed: an interrupted purchase or delivery is made up for by the next
\* press, unless the process dies under that one too.
OwnersAreServed ==
  \A x \in Updates : OwnerAsks(x) ~>
    (heard[x] \intersect {"content", "refused", "apology", "lost"} # {} \/ x \in dropped)

-----------------------------------------------------------------------------
(* What the repository says and the code does not keep *)

\* "unique idempotency_key absorbs double-taps" (SYSTEM_ARCHITECTURE.md).  The
\* key of a tap ends with its update_id and two taps are two updates: both are
\* charged when they are handled side by side.
DoubleTapsAreAbsorbed ==
  \A u \in Users, d \in Drops : Cardinality(ChargesFor(u, d)) <= 1
=============================================================================

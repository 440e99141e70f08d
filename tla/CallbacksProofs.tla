-------------------------- MODULE CallbacksProofs --------------------------
(***************************************************************************)
(* Consent and truth for any users, drops, presses and handler runs, any   *)
(* number of them on one press, and any number of failures.                *)
(* And that the handlers move money only as PaymentLedger does.            *)
(***************************************************************************)
EXTENDS Callbacks, FiniteSetTheorems, TLAPS

\* Steps of a run that buys, up to its answer.
Buying == {"lookup", "insert", "provider", "charged"}

\* A payment comes from a press of the confirm button for its user and drop.
PaymentIsPress(k) ==
  /\ k[3] \in Pressed
  /\ From[k[3]] = k[1]
  /\ press[k[3]] = [action |-> "unlock", drop |-> k[2]]
PaymentsArePresses == \A k \in Keys : status[k] # "none" => PaymentIsPress(k)
ChargedHaveRows == \A k \in charged : status[k] # "none"

\* A run has a press, and buys only for the confirm button.
RunHasPress(h) ==
  pc[h] # "idle" =>
    /\ run[h] \in Pressed
    /\ pc[h] \in Buying => press[run[h]].action = "unlock"

\* What is about to be said is so.
SayingIsOwned(h) == pc[h] \in {"open", "owned", "bought"} => Item(h) \in owned

\* A paid key has bought its item, and every item was bought so.
PaidIsOwned == \A k \in Keys : status[k] = "succeeded" => k \in charged /\ <<k[1], k[2]>> \in owned
OwnedIsPaid == \A i \in owned : \E k \in ChargesFor(i[1], i[2]) : status[k] = "succeeded"

Promises == {"already", "unlocked", "content", "owned"}
SaidIsOwned ==
  \A x \in Updates : heard[x] # {} =>
    /\ x \in Pressed
    /\ heard[x] \intersect Promises # {} => <<From[x], press[x].drop>> \in owned

IInv ==
  /\ TypeOK
  /\ PaymentsArePresses /\ ChargedHaveRows /\ PaidIsOwned /\ OwnedIsPaid
  /\ \A h \in Runs : RunHasPress(h) /\ SayingIsOwned(h)
  /\ SaidIsOwned

-----------------------------------------------------------------------------

\* What a run at work handles.
LEMMA AtWork ==
  ASSUME IInv, NEW h \in Runs, pc[h] # "idle"
  PROVE  /\ run[h] \in Pressed /\ run[h] \in Updates
         /\ press[run[h]] \in Buttons
         /\ Item(h) \in Users \X Drops
         /\ Key(h) \in Keys
         /\ Key(h)[1] = User(h) /\ Key(h)[2] = Drop(h) /\ Key(h)[3] = run[h]
         /\ pc[h] \in Buying => PaymentIsPress(Key(h))
<1>1. run[h] \in Pressed /\ run[h] \in Updates
  BY DEF IInv, RunHasPress, Pressed
<1>2. press[run[h]] \in Buttons
  BY <1>1 DEF IInv, TypeOK, Pressed
<1>3. User(h) \in Users /\ Drop(h) \in Drops
  BY <1>1, <1>2, FromAssumption DEF User, Drop, Buttons
<1>4. Item(h) \in Users \X Drops /\ Key(h) \in Keys
  BY <1>1, <1>3 DEF Item, Key, Keys
<1>5. Key(h)[1] = User(h) /\ Key(h)[2] = Drop(h) /\ Key(h)[3] = run[h]
  BY DEF Key
<1>6. ASSUME pc[h] \in Buying PROVE PaymentIsPress(Key(h))
  <2>1. press[run[h]].action = "unlock"
    BY <1>6 DEF IInv, RunHasPress
  <2>2. press[run[h]] = [action |-> "unlock", drop |-> Drop(h)]
    BY <1>2, <2>1 DEF Drop, Buttons
  <2> QED BY <1>1, <1>5, <2>2 DEF PaymentIsPress, User
<1> QED BY <1>1, <1>2, <1>4, <1>5, <1>6

\* A step that leaves the money and the presses made alone keeps what ties them.
LEMMA MoneyStays ==
  ASSUME IInv, UNCHANGED money,
         \A x \in Pressed : x \in Pressed' /\ press'[x] = press[x]
  PROVE  (PaymentsArePresses /\ ChargedHaveRows /\ PaidIsOwned /\ OwnedIsPaid)'
<1>1. PaymentsArePresses'
  BY DEF IInv, PaymentsArePresses, PaymentIsPress, money
<1>2. ChargedHaveRows' /\ PaidIsOwned'
  BY DEF IInv, ChargedHaveRows, PaidIsOwned, money
<1>3. OwnedIsPaid'
  BY DEF IInv, OwnedIsPaid, ChargesFor, money
<1> QED BY <1>1, <1>2, <1>3

\* A step of one run leaves what holds of the others.
LEMMA OthersStay ==
  ASSUME IInv, NEW h \in Runs, owned \subseteq owned',
         \A x \in Pressed : x \in Pressed' /\ press'[x] = press[x],
         \A g \in Runs \ {h} : pc'[g] = pc[g] /\ run'[g] = run[g]
  PROVE  \A g \in Runs \ {h} : (RunHasPress(g) /\ SayingIsOwned(g))'
<1> SUFFICES ASSUME NEW g \in Runs \ {h} PROVE (RunHasPress(g) /\ SayingIsOwned(g))'
  OBVIOUS
<1>1. RunHasPress(g)'
  BY DEF IInv, RunHasPress
<1>2. SayingIsOwned(g)'
  <2> SUFFICES ASSUME pc[g] \in {"open", "owned", "bought"} PROVE Item(g)' \in owned'
    BY DEF SayingIsOwned
  <2>1. Item(g) \in owned /\ run[g] \in Pressed
    BY DEF IInv, SayingIsOwned, RunHasPress
  <2>2. Item(g)' = Item(g)
    BY <2>1 DEF Item, User, Drop
  <2> QED BY <2>1, <2>2
<1> QED BY <1>1, <1>2

\* What was said stays so while nothing more is said.
LEMMA SaidStays ==
  ASSUME IInv, owned \subseteq owned', heard' = heard,
         \A x \in Pressed : x \in Pressed' /\ press'[x] = press[x]
  PROVE  SaidIsOwned'
BY DEF IInv, SaidIsOwned

\* A message keeps it, when it is true.
LEMMA SayingKeeps ==
  ASSUME IInv, NEW h \in Runs, pc[h] # "idle", NEW what, Hear(h, what),
         UNCHANGED <<press, owned>>,
         what \in Promises => Item(h) \in owned
  PROVE  SaidIsOwned'
<1>1. run[h] \in Pressed /\ run[h] \in Updates
  BY AtWork
<1>2. heard \in [Updates -> SUBSET Answers]
  BY DEF IInv, TypeOK
<1>3. \A x \in Updates : heard'[x] = IF x = run[h] THEN heard[x] \union {what} ELSE heard[x]
  BY <1>1, <1>2 DEF Hear
<1> SUFFICES ASSUME NEW x \in Updates, heard'[x] # {}
             PROVE  /\ x \in Pressed'
                    /\ heard'[x] \intersect Promises # {} => <<From[x], press[x].drop>> \in owned
  BY DEF SaidIsOwned
<1>4. Pressed' = Pressed
  BY DEF Pressed
<1>5. CASE x # run[h]
  BY <1>3, <1>4, <1>5 DEF IInv, SaidIsOwned
<1>6. CASE x = run[h]
  <2>1. heard'[x] = heard[x] \union {what}
    BY <1>3, <1>6
  <2>2. heard[x] \intersect Promises # {} => <<From[x], press[x].drop>> \in owned
    BY DEF IInv, SaidIsOwned
  <2>3. what \in Promises => <<From[x], press[x].drop>> \in owned
    BY <1>6 DEF Item, User, Drop
  <2> QED BY <1>1, <1>4, <1>6, <2>1, <2>2, <2>3
<1> QED BY <1>5, <1>6

-----------------------------------------------------------------------------

Places == {"look", "open", "closed", "lookup", "insert", "provider", "charged", "bought",
           "deliver", "refused", "owned", "not_charged", "apology", "finish",
           "unhandled", "answer"}

\* The types of what a run that goes on changes.
LEMMA GoesOn ==
  ASSUME IInv, NEW h \in Runs, pc[h] # "idle", NEW where \in Places, Move(h, where)
  PROVE  /\ pc' \in [Runs -> Places \union {"idle", "dispatch"}]
         /\ run' = run /\ dropped' = dropped
         /\ pc'[h] = where
         /\ \A g \in Runs \ {h} : pc'[g] = pc[g] /\ run'[g] = run[g]
         /\ \A g \in Runs : pc'[g] = "idle" <=> run'[g] = NoUpdate
<1>1. run' = run /\ dropped' = dropped /\ pc' = [pc EXCEPT ![h] = where]
  BY DEF Move
<1>2. pc \in [Runs -> Places \union {"idle", "dispatch"}]
  BY DEF IInv, TypeOK, Places
<1>3. \A g \in Runs : pc[g] = "idle" <=> run[g] = NoUpdate
  BY DEF IInv, TypeOK
<1>4. where # "idle" /\ run[h] # NoUpdate
  BY <1>3 DEF Places
<1> QED BY <1>1, <1>2, <1>3, <1>4

\* A step that acknowledges nothing.
LEMMA GotoMoves ==
  ASSUME IInv, NEW h \in Runs, NEW where \in Places, Goto(h, where)
  PROVE  Move(h, where) /\ acked' \subseteq Pressed
BY DEF Goto, IInv, TypeOK

\* All a step of a run that goes on has to show.
LEMMA GoingOnKeeps ==
  ASSUME IInv, NEW h \in Runs, pc[h] # "idle", NEW where \in Places, Move(h, where),
         acked' \subseteq Pressed,
         press' = press,
         keyboards' \in [Users -> SUBSET Buttons],
         UNCHANGED failures \/ Error,
         heard' \in [Updates -> SUBSET Answers],
         status' \in [Keys -> {"none", "pending", "succeeded", "failed"}],
         charged' \subseteq Keys,
         owned \subseteq owned', owned' \subseteq Users \X Drops,
         (PaymentsArePresses /\ ChargedHaveRows /\ PaidIsOwned /\ OwnedIsPaid)',
         SaidIsOwned',
         where \in Buying => press[run[h]].action = "unlock",
         where \in {"open", "owned", "bought"} => Item(h) \in owned'
  PROVE  IInv'
<1>1. /\ pc' \in [Runs -> Places \union {"idle", "dispatch"}]
      /\ run' = run /\ dropped' = dropped
      /\ pc'[h] = where
      /\ \A g \in Runs \ {h} : pc'[g] = pc[g] /\ run'[g] = run[g]
      /\ \A g \in Runs : pc'[g] = "idle" <=> run'[g] = NoUpdate
  BY GoesOn
<1>2. Pressed' = Pressed
  BY DEF Pressed
<1>3. failures' \in 0..MaxFailures
  BY BoundAssumption DEF IInv, TypeOK, Error
<1>4. /\ press' \in [Updates -> Buttons \union {NoPress}]
      /\ acked' \subseteq Pressed'
      /\ run' \in [Runs -> Updates \union {NoUpdate}]
      /\ dropped' \subseteq Updates
  BY <1>1, <1>2 DEF IInv, TypeOK
<1>5. TypeOK'
  BY <1>1, <1>3, <1>4 DEF TypeOK, Places
<1>6. \A g \in Runs \ {h} : (RunHasPress(g) /\ SayingIsOwned(g))'
  BY <1>1, <1>2, OthersStay
<1>7. run[h] \in Pressed
  BY AtWork
<1>8. RunHasPress(h)'
  BY <1>1, <1>2, <1>7 DEF RunHasPress
<1>9. Item(h)' = Item(h)
  BY <1>1 DEF Item, User, Drop
<1>10. SayingIsOwned(h)'
  BY <1>1, <1>9 DEF SayingIsOwned
<1> QED BY <1>5, <1>6, <1>8, <1>10 DEF IInv

\* The case of a step that leaves the money and the keyboards alone, and says
\* nothing.
LEMMA QuietKeeps ==
  ASSUME IInv, NEW h \in Runs, pc[h] # "idle", NEW where \in Places, Move(h, where),
         acked' \subseteq Pressed,
         UNCHANGED <<chatVars, heard, money>>,
         UNCHANGED failures \/ Error,
         where \in Buying => press[run[h]].action = "unlock",
         where \in {"open", "owned", "bought"} => Item(h) \in owned
  PROVE  IInv'
<1>1. press' = press /\ keyboards' = keyboards /\ heard' = heard
      /\ status' = status /\ charged' = charged /\ owned' = owned
  BY DEF chatVars, money
<1>2. /\ keyboards' \in [Users -> SUBSET Buttons]
      /\ heard' \in [Updates -> SUBSET Answers]
      /\ status' \in [Keys -> {"none", "pending", "succeeded", "failed"}]
      /\ charged' \subseteq Keys /\ owned' \subseteq Users \X Drops
  BY <1>1 DEF IInv, TypeOK
<1>3. \A x \in Pressed : x \in Pressed' /\ press'[x] = press[x]
  BY <1>1 DEF Pressed
<1>4. UNCHANGED money
  OBVIOUS
<1>5. (PaymentsArePresses /\ ChargedHaveRows /\ PaidIsOwned /\ OwnedIsPaid)'
  BY <1>3, <1>4, MoneyStays
<1>6. SaidIsOwned'
  BY <1>1, <1>3, SaidStays
<1> QED BY <1>1, <1>2, <1>5, <1>6, GoingOnKeeps

\* The case of a step that says something true.
LEMMA SayingRunKeeps ==
  ASSUME IInv, NEW h \in Runs, pc[h] # "idle", NEW where \in Places, Goto(h, where),
         NEW what \in Answers, Hear(h, what),
         UNCHANGED <<press, money>>,
         keyboards' \in [Users -> SUBSET Buttons],
         UNCHANGED failures \/ Error,
         where \notin Buying \union {"open", "owned", "bought"},
         what \in Promises => Item(h) \in owned
  PROVE  IInv'
<1>0. Move(h, where) /\ acked' \subseteq Pressed
  BY GotoMoves
<1>1. press' = press /\ status' = status /\ charged' = charged /\ owned' = owned
  BY DEF money
<1>2. /\ status' \in [Keys -> {"none", "pending", "succeeded", "failed"}]
      /\ charged' \subseteq Keys /\ owned' \subseteq Users \X Drops
  BY <1>1 DEF IInv, TypeOK
<1>3. heard' \in [Updates -> SUBSET Answers]
  <2>1. heard \in [Updates -> SUBSET Answers] /\ run[h] \in Updates
    BY AtWork DEF IInv, TypeOK
  <2> QED BY <2>1 DEF Hear
<1>4. \A x \in Pressed : x \in Pressed' /\ press'[x] = press[x]
  BY <1>1 DEF Pressed
<1>5. UNCHANGED money
  OBVIOUS
<1>6. (PaymentsArePresses /\ ChargedHaveRows /\ PaidIsOwned /\ OwnedIsPaid)'
  BY <1>4, <1>5, MoneyStays
<1>7. SaidIsOwned'
  BY <1>1, SayingKeeps
<1> QED BY <1>0, <1>1, <1>2, <1>3, <1>6, <1>7, GoingOnKeeps

\* A reply: its message, and the step it goes to.
LEMMA ReplyKeeps ==
  ASSUME IInv, NEW h \in Runs, pc[h] # "idle", NEW what \in Answers,
         NEW next \in Places, Reply(h, what, next),
         UNCHANGED <<press, money>>,
         keyboards' \in [Users -> SUBSET Buttons],
         next \notin Buying \union {"open", "owned", "bought"},
         what \in Promises => Item(h) \in owned
  PROVE  IInv'
<1>1. Hear(h, what)
  BY DEF Reply
<1>2. CASE Goto(h, next) /\ UNCHANGED failures
  BY <1>1, <1>2, SayingRunKeeps
<1>3. CASE Goto(h, "apology") /\ Error
  <2>1. "apology" \in Places /\ "apology" \notin Buying \union {"open", "owned", "bought"}
    BY DEF Places, Buying
  <2> QED BY <1>1, <1>3, <2>1, SayingRunKeeps
<1> QED BY <1>2, <1>3 DEF Reply

-----------------------------------------------------------------------------
(* Every step keeps the invariant *)

LEMMA InitIInv == Init => IInv
<1> SUFFICES ASSUME Init PROVE IInv
  OBVIOUS
<1>1. /\ status = [k \in Keys |-> "none"] /\ charged = {} /\ owned = {}
      /\ press = [x \in Updates |-> NoPress] /\ acked = {} /\ dropped = {} /\ failures = 0
      /\ run = [h \in Runs |-> NoUpdate] /\ pc = [h \in Runs |-> "idle"]
      /\ heard = [x \in Updates |-> {}]
  BY DEF Init, Ledger!Init
<1>2. keyboards \in [Users -> SUBSET Buttons]
  <2>1. [action : {"detail"}, drop : Drops] \subseteq Buttons
    BY DEF Buttons, Actions
  <2> QED BY <2>1 DEF Init
<1>3. TypeOK
  BY <1>1, <1>2, BoundAssumption DEF TypeOK
<1>4. PaymentsArePresses /\ ChargedHaveRows /\ PaidIsOwned /\ OwnedIsPaid
  BY <1>1 DEF PaymentsArePresses, ChargedHaveRows, PaidIsOwned, OwnedIsPaid
<1>5. \A h \in Runs : RunHasPress(h) /\ SayingIsOwned(h)
  BY <1>1 DEF RunHasPress, SayingIsOwned
<1>6. SaidIsOwned
  BY <1>1 DEF SaidIsOwned
<1> QED BY <1>3, <1>4, <1>5, <1>6 DEF IInv

LEMMA PressKeeps ==
  ASSUME IInv, NEW x \in Updates, Press(x)
  PROVE  IInv'
<1>1. PICK b \in keyboards[From[x]] : press' = [press EXCEPT ![x] = b]
  BY DEF Press
<1>2. b \in Buttons
  BY <1>1, FromAssumption DEF IInv, TypeOK
<1>3. press' \in [Updates -> Buttons \union {NoPress}]
  BY <1>1, <1>2 DEF IInv, TypeOK
<1>4. \A y \in Pressed : y \in Pressed' /\ press'[y] = press[y]
  BY <1>1 DEF IInv, TypeOK, Pressed, Press
<1>5. /\ keyboards' = keyboards /\ acked' = acked /\ run' = run /\ pc' = pc
      /\ heard' = heard /\ dropped' = dropped /\ failures' = failures
      /\ status' = status /\ charged' = charged /\ owned' = owned
  BY DEF Press, money
<1>6. TypeOK'
  <2>1. acked' \subseteq Pressed'
    BY <1>4, <1>5 DEF IInv, TypeOK
  <2> QED BY <1>3, <1>5, <2>1 DEF IInv, TypeOK
<1>7. UNCHANGED money
  BY DEF Press
<1>8. (PaymentsArePresses /\ ChargedHaveRows /\ PaidIsOwned /\ OwnedIsPaid)'
  BY <1>4, <1>7, MoneyStays
<1>9. ASSUME NEW h \in Runs PROVE (RunHasPress(h) /\ SayingIsOwned(h))'
  <2>1. CASE pc[h] = "idle"
    BY <1>5, <2>1 DEF RunHasPress, SayingIsOwned
  <2>2. CASE pc[h] # "idle"
    <3>1. run[h] \in Pressed
      BY <2>2, AtWork
    <3>2. Item(h)' = Item(h)
      BY <1>4, <1>5, <3>1 DEF Item, User, Drop
    <3>3. RunHasPress(h) /\ SayingIsOwned(h)
      BY DEF IInv
    <3>4. RunHasPress(h)'
      BY <1>4, <1>5, <3>1, <3>3 DEF RunHasPress
    <3>5. SayingIsOwned(h)'
      BY <1>5, <3>2, <3>3 DEF SayingIsOwned
    <3> QED BY <3>4, <3>5
  <2> QED BY <2>1, <2>2
<1>10. SaidIsOwned'
  BY <1>4, <1>5, SaidStays
<1> QED BY <1>6, <1>8, <1>9, <1>10 DEF IInv

\* A run that begins or ends.
LEMMA EndsKeep ==
  ASSUME IInv, NEW h \in Runs, NEW x \in Updates \union {NoUpdate}, NEW where \in {"idle", "dispatch"},
         run' = [run EXCEPT ![h] = x], pc' = [pc EXCEPT ![h] = where],
         where = "idle" <=> x = NoUpdate,
         x # NoUpdate => x \in Pressed,
         acked' \subseteq Pressed, dropped' \subseteq Updates,
         UNCHANGED failures \/ Error,
         UNCHANGED <<chatVars, heard, money>>
  PROVE  IInv'
<1>1. press' = press /\ keyboards' = keyboards /\ heard' = heard
      /\ status' = status /\ charged' = charged /\ owned' = owned
  BY DEF chatVars, money
<1>2. Pressed' = Pressed
  BY <1>1 DEF Pressed
<1>3. failures' \in 0..MaxFailures
  BY BoundAssumption DEF IInv, TypeOK, Error
<1>4. run' \in [Runs -> Updates \union {NoUpdate}] /\ run'[h] = x
      /\ pc'[h] = where
      /\ \A g \in Runs \ {h} : pc'[g] = pc[g] /\ run'[g] = run[g]
  BY DEF IInv, TypeOK
<1>5. pc' \in [Runs -> Places \union {"idle", "dispatch"}]
  <2>1. pc \in [Runs -> Places \union {"idle", "dispatch"}]
    BY DEF IInv, TypeOK, Places
  <2> QED BY <2>1
<1>6. \A g \in Runs : pc'[g] = "idle" <=> run'[g] = NoUpdate
  BY <1>4 DEF IInv, TypeOK
<1>7. TypeOK'
  BY <1>1, <1>2, <1>3, <1>4, <1>5, <1>6 DEF IInv, TypeOK, Places
<1>8. \A y \in Pressed : y \in Pressed' /\ press'[y] = press[y]
  BY <1>1, <1>2
<1>9. UNCHANGED money
  OBVIOUS
<1>10. (PaymentsArePresses /\ ChargedHaveRows /\ PaidIsOwned /\ OwnedIsPaid)'
  BY <1>8, <1>9, MoneyStays
<1>11. \A g \in Runs \ {h} : (RunHasPress(g) /\ SayingIsOwned(g))'
  BY <1>1, <1>4, <1>8, OthersStay
<1>12. (RunHasPress(h) /\ SayingIsOwned(h))'
  BY <1>2, <1>4 DEF RunHasPress, SayingIsOwned, Buying
<1>13. SaidIsOwned'
  BY <1>1, <1>8, SaidStays
<1> QED BY <1>7, <1>10, <1>11, <1>12, <1>13 DEF IInv

LEMMA ReceiveKeeps ==
  ASSUME IInv, NEW h \in Runs, NEW x \in Updates, Receive(h, x)
  PROVE  IInv'
<1>1. /\ run' = [run EXCEPT ![h] = x] /\ pc' = [pc EXCEPT ![h] = "dispatch"]
      /\ acked' = acked /\ dropped' = dropped /\ x \in Pressed
      /\ UNCHANGED <<chatVars, heard, money>> /\ UNCHANGED failures
  BY DEF Receive, Bystanders
<1>2. acked' \subseteq Pressed /\ dropped' \subseteq Updates /\ x # NoUpdate
  BY <1>1, NoneAssumption DEF IInv, TypeOK
<1> QED BY <1>1, <1>2, EndsKeep

LEMMA LeaveKeeps ==
  ASSUME IInv, NEW h \in Runs, Finish(h) \/ Crash(h)
  PROVE  IInv'
<1>1. /\ run' = [run EXCEPT ![h] = NoUpdate] /\ pc' = [pc EXCEPT ![h] = "idle"]
      /\ UNCHANGED <<chatVars, heard, money>>
      /\ UNCHANGED failures \/ Error
      /\ acked' \in {acked, acked \union {run[h]}}
      /\ dropped' \in {dropped, dropped \union {run[h]}}
      /\ pc[h] # "idle"
  BY DEF Finish, Crash, Leave, Bystanders, Acknowledge
<1>2. run[h] \in Pressed /\ run[h] \in Updates
  BY <1>1, AtWork
<1>3. acked' \subseteq Pressed /\ dropped' \subseteq Updates
  BY <1>1, <1>2 DEF IInv, TypeOK
<1> QED BY <1>1, <1>3, EndsKeep

\* Steps that leave money and messages alone.
LEMMA QuietStepsKeep ==
  ASSUME IInv, NEW h \in Runs, Dispatch(h) \/ Look(h) \/ Lookup(h) \/ Fail(h)
  PROVE  IInv'
<1>1. CASE Dispatch(h)
  <2> DEFINE where == FirstStep(press[run[h]].action)
  <2>1. where \in Places /\ where \notin {"open", "owned", "bought"}
        /\ (where \in Buying => press[run[h]].action = "unlock")
    BY DEF FirstStep, Places, Buying
  <2>2. /\ pc[h] # "idle" /\ Move(h, where) /\ Acknowledge(run[h])
        /\ UNCHANGED <<chatVars, heard, money>>
    BY <1>1 DEF Dispatch, Bystanders
  <2>3. acked' \subseteq Pressed /\ (UNCHANGED failures \/ Error)
    BY <2>2, AtWork DEF Acknowledge, IInv, TypeOK
  <2> HIDE DEF where
  <2> QED BY <2>1, <2>2, <2>3, QuietKeeps
<1>2. CASE Look(h)
  <2> DEFINE where == IF Item(h) \in owned THEN "open" ELSE "closed"
  <2>1. where \in Places \ Buying
        /\ (where \in {"open", "owned", "bought"} => Item(h) \in owned)
    BY DEF Places, Buying
  <2>2. /\ pc[h] # "idle" /\ Goto(h, where)
        /\ UNCHANGED <<chatVars, heard, money>> /\ UNCHANGED failures
    BY <1>2 DEF Look, Bystanders
  <2> HIDE DEF where
  <2> QED BY <2>1, <2>2, GotoMoves, QuietKeeps
<1>3. CASE Lookup(h)
  <2> DEFINE where == CASE status[Key(h)] # "none" -> Replayed(status[Key(h)])
                        [] OTHER -> IF Item(h) \in owned THEN "owned" ELSE "insert"
  <2>1. /\ pc[h] = "lookup" /\ Goto(h, where)
        /\ UNCHANGED <<chatVars, heard, money>> /\ UNCHANGED failures
    BY <1>3 DEF Lookup, Bystanders
  <2>2. /\ Key(h) \in Keys /\ Key(h)[1] = User(h) /\ Key(h)[2] = Drop(h)
        /\ press[run[h]].action = "unlock"
    <3>1. RunHasPress(h)
      BY DEF IInv
    <3> QED BY <2>1, <3>1, AtWork DEF RunHasPress, Buying
  <2>3. status[Key(h)] \in {"none", "pending", "succeeded", "failed"}
    BY <2>2 DEF IInv, TypeOK
  <2>4. status[Key(h)] = "succeeded" => Item(h) \in owned
    BY <2>2 DEF IInv, PaidIsOwned, Item
  <2>5. where \in Places
    BY <2>3 DEF Replayed, Places
  <2>6. where \in {"open", "owned", "bought"} => Item(h) \in owned
    BY <2>3, <2>4 DEF Replayed
  <2> HIDE DEF where
  <2> QED BY <2>1, <2>2, <2>5, <2>6, GotoMoves, QuietKeeps
<1>4. CASE Fail(h)
  <2>1. /\ AfterThrow(h) \in Places
        /\ AfterThrow(h) \notin Buying \union {"open", "owned", "bought"}
    BY DEF AfterThrow, Places, Buying
  <2>2. /\ pc[h] # "idle" /\ Goto(h, AfterThrow(h)) /\ Error
        /\ UNCHANGED <<chatVars, heard, money>>
    BY <1>4 DEF Fail, Bystanders
  <2> QED BY <2>1, <2>2, GotoMoves, QuietKeeps
<1> QED BY <1>1, <1>2, <1>3, <1>4

\* The replies, each of which is true.
LEMMA RepliesKeep ==
  ASSUME IInv, NEW h \in Runs, Open(h) \/ Offer(h) \/ Bought(h) \/ Refuse(h)
  PROVE  IInv'
<1> DEFINE Ends == {"finish", "deliver"}
<1>1. \A next \in Ends : next \in Places /\ next \notin Buying \union {"open", "owned", "bought"}
  BY DEF Places, Buying
<1>2. SayingIsOwned(h) /\ keyboards \in [Users -> SUBSET Buttons]
  BY DEF IInv, TypeOK
<1>3. CASE Open(h)
  <2>1. /\ pc[h] # "idle" /\ Reply(h, "already", "deliver") /\ UNCHANGED <<press, money>>
        /\ keyboards' = keyboards /\ Item(h) \in owned /\ "already" \in Answers
    BY <1>2, <1>3 DEF Open, AfterOpen, chatVars, SayingIsOwned, Answers
  <2> QED BY <1>1, <1>2, <2>1, ReplyKeeps
<1>4. CASE Offer(h)
  <2>1. /\ pc[h] # "idle" /\ Reply(h, "offer", "finish") /\ UNCHANGED <<press, money>>
        /\ "offer" \in Answers \ Promises
    BY <1>4 DEF Offer, Answers, Promises
  <2>2. press[run[h]] \in Buttons /\ User(h) \in Users /\ Drop(h) \in Drops
    BY <2>1, AtWork DEF Item
  <2>3. [action |-> Offered(press[run[h]].action), drop |-> Drop(h)] \in Buttons
    BY <2>2 DEF Offered, Buttons, Actions
  <2>4. keyboards' \in [Users -> SUBSET Buttons]
    BY <1>2, <1>4, <2>3 DEF Offer
  <2> QED BY <1>1, <2>1, <2>4, ReplyKeeps
<1>5. CASE Bought(h)
  <2>1. /\ pc[h] # "idle" /\ Reply(h, "unlocked", "deliver") /\ UNCHANGED <<press, money>>
        /\ keyboards' = keyboards /\ Item(h) \in owned /\ "unlocked" \in Answers
    BY <1>2, <1>5 DEF Bought, chatVars, SayingIsOwned, Answers
  <2> QED BY <1>1, <1>2, <2>1, ReplyKeeps
<1>6. CASE Refuse(h)
  <2>1. /\ pc[h] \in {"refused", "owned", "not_charged"} /\ Reply(h, pc[h], "finish")
        /\ UNCHANGED <<press, money>> /\ keyboards' = keyboards
    BY <1>6 DEF Refuse, chatVars
  <2>2. /\ pc[h] # "idle" /\ pc[h] \in Answers
        /\ pc[h] \in Promises => Item(h) \in owned
    BY <1>2, <2>1 DEF SayingIsOwned, Answers, Promises
  <2> QED BY <1>1, <1>2, <2>1, <2>2, ReplyKeeps
<1> QED BY <1>3, <1>4, <1>5, <1>6

\* The delivery and the apology.
LEMMA LastWordsKeep ==
  ASSUME IInv, NEW h \in Runs, Deliver(h) \/ Apologize(h)
  PROVE  IInv'
<1>1. \A where \in {"finish", "refused", "answer"} :
        where \in Places /\ where \notin Buying \union {"open", "owned", "bought"}
  BY DEF Places, Buying
<1>2. {"content", "apology", "lost"} \subseteq Answers /\ "apology" \notin Promises /\ "lost" \notin Promises
  BY DEF Answers, Promises
<1>3. pc[h] # "idle" /\ UNCHANGED <<chatVars, money>>
  BY DEF Deliver, Apologize
<1>4. keyboards' \in [Users -> SUBSET Buttons] /\ UNCHANGED <<press, money>>
  BY <1>3 DEF IInv, TypeOK, chatVars
<1>5. CASE Item(h) \in owned /\ Hear(h, "content") /\ Goto(h, "finish") /\ UNCHANGED failures
  BY <1>1, <1>2, <1>3, <1>4, <1>5, SayingRunKeeps
<1>6. CASE UNCHANGED heard /\ (UNCHANGED failures \/ Error) /\ Goto(h, "refused")
  BY <1>1, <1>3, <1>6, GotoMoves, QuietKeeps
<1>7. CASE /\ Goto(h, "finish") \/ Goto(h, "answer")
           /\ UNCHANGED failures \/ Error
           /\ Hear(h, "apology") \/ Hear(h, "lost")
  BY <1>1, <1>2, <1>3, <1>4, <1>7, SayingRunKeeps
<1> QED BY <1>5, <1>6, <1>7 DEF Deliver, Apologize

-----------------------------------------------------------------------------
(* The money *)

MoneyInv == PaymentsArePresses /\ ChargedHaveRows /\ PaidIsOwned /\ OwnedIsPaid

MoneyTypes ==
  /\ status \in [Keys -> {"none", "pending", "succeeded", "failed"}]
  /\ charged \subseteq Keys /\ owned \subseteq Users \X Drops

LEMMA OpenKeeps ==
  ASSUME IInv, NEW k \in Keys, PaymentIsPress(k), Ledger!Open(k), press' = press
  PROVE  MoneyInv' /\ MoneyTypes' /\ owned' = owned
<1>1. /\ status[k] = "none" /\ status' = [status EXCEPT ![k] = "pending"]
      /\ charged' = charged /\ owned' = owned
  BY DEF Ledger!Open
<1>2. MoneyTypes'
  BY <1>1 DEF IInv, TypeOK, MoneyTypes
<1>3. \A j \in Keys : status'[j] = IF j = k THEN "pending" ELSE status[j]
  BY <1>1 DEF IInv, TypeOK
<1>4. Pressed' = Pressed
  BY DEF Pressed
<1>5. PaymentsArePresses'
  BY <1>3, <1>4 DEF IInv, PaymentsArePresses, PaymentIsPress
<1>6. ChargedHaveRows' /\ PaidIsOwned'
  BY <1>1, <1>3 DEF IInv, TypeOK, ChargedHaveRows, PaidIsOwned
<1>7. OwnedIsPaid'
  BY <1>1, <1>3 DEF IInv, TypeOK, OwnedIsPaid, ChargesFor
<1> QED BY <1>1, <1>2, <1>5, <1>6, <1>7 DEF MoneyInv

LEMMA ChargeKeeps ==
  ASSUME IInv, NEW k \in Keys, Ledger!Charge(k), press' = press
  PROVE  MoneyInv' /\ MoneyTypes' /\ owned' = owned
<1>1. /\ status[k] # "none" /\ status' = status
      /\ charged' = charged \union {k} /\ owned' = owned
  BY DEF Ledger!Charge
<1>2. MoneyTypes'
  BY <1>1 DEF IInv, TypeOK, MoneyTypes
<1>3. Pressed' = Pressed
  BY DEF Pressed
<1>4. PaymentsArePresses'
  BY <1>1, <1>3 DEF IInv, PaymentsArePresses, PaymentIsPress
<1>5. ChargedHaveRows' /\ PaidIsOwned' /\ OwnedIsPaid'
  BY <1>1 DEF IInv, TypeOK, ChargedHaveRows, PaidIsOwned, OwnedIsPaid, ChargesFor
<1> QED BY <1>1, <1>2, <1>4, <1>5 DEF MoneyInv

LEMMA PayKeeps ==
  ASSUME IInv, NEW k \in Keys, Ledger!Pay(k, <<k[1], k[2]>>), press' = press
  PROVE  /\ MoneyInv' /\ MoneyTypes'
         /\ owned \subseteq owned' /\ <<k[1], k[2]>> \in owned'
<1>1. /\ status[k] # "none" /\ status' = [status EXCEPT ![k] = "succeeded"]
      /\ k \in charged /\ charged' = charged /\ owned' = owned \union {<<k[1], k[2]>>}
  BY DEF Ledger!Pay
<1>2. MoneyTypes'
  <2>1. <<k[1], k[2]>> \in Users \X Drops
    BY DEF Keys
  <2> QED BY <1>1, <2>1 DEF IInv, TypeOK, MoneyTypes
<1>3. \A j \in Keys : status'[j] = IF j = k THEN "succeeded" ELSE status[j]
  BY <1>1 DEF IInv, TypeOK
<1>4. Pressed' = Pressed
  BY DEF Pressed
<1>5. PaymentsArePresses'
  BY <1>1, <1>3, <1>4 DEF IInv, PaymentsArePresses, PaymentIsPress
<1>6. ChargedHaveRows' /\ PaidIsOwned'
  BY <1>1, <1>3 DEF IInv, TypeOK, ChargedHaveRows, PaidIsOwned
<1>7. OwnedIsPaid'
  <2> SUFFICES ASSUME NEW i \in owned' PROVE \E j \in ChargesFor(i[1], i[2])' : status'[j] = "succeeded"
    BY DEF OwnedIsPaid
  <2>1. CASE i = <<k[1], k[2]>>
    BY <1>1, <1>3, <2>1 DEF ChargesFor
  <2>2. CASE i \in owned
    BY <1>1, <1>3, <2>2 DEF IInv, TypeOK, OwnedIsPaid, ChargesFor
  <2> QED BY <1>1, <2>1, <2>2
<1> QED BY <1>1, <1>2, <1>5, <1>6, <1>7 DEF MoneyInv

LEMMA GiveUpKeeps ==
  ASSUME IInv, NEW k \in Keys, Ledger!GiveUp({k}), press' = press
  PROVE  MoneyInv' /\ MoneyTypes' /\ owned' = owned
<1>1. /\ status[k] \in {"pending", "failed"}
      /\ status' = [j \in Keys |-> IF j \in {k} THEN "failed" ELSE status[j]]
      /\ charged' = charged /\ owned' = owned
  BY DEF Ledger!GiveUp
<1>2. MoneyTypes'
  BY <1>1 DEF IInv, TypeOK, MoneyTypes
<1>3. \A j \in Keys : status'[j] = IF j = k THEN "failed" ELSE status[j]
  BY <1>1
<1>4. Pressed' = Pressed
  BY DEF Pressed
<1>5. PaymentsArePresses'
  BY <1>1, <1>3, <1>4 DEF IInv, PaymentsArePresses, PaymentIsPress
<1>6. ChargedHaveRows' /\ PaidIsOwned'
  BY <1>1, <1>3 DEF IInv, TypeOK, ChargedHaveRows, PaidIsOwned
<1>7. OwnedIsPaid'
  BY <1>1, <1>3 DEF IInv, TypeOK, OwnedIsPaid, ChargesFor
<1> QED BY <1>1, <1>2, <1>5, <1>6, <1>7 DEF MoneyInv

\* A step of a purchase that changes the money.
LEMMA PayingKeeps ==
  ASSUME IInv, NEW h \in Runs, pc[h] # "idle", NEW where \in Places, Goto(h, where),
         UNCHANGED <<chatVars, heard, failures>>,
         MoneyInv', MoneyTypes', owned \subseteq owned',
         where \in Buying => press[run[h]].action = "unlock",
         where \in {"open", "owned", "bought"} => Item(h) \in owned'
  PROVE  IInv'
<1>0. Move(h, where) /\ acked' \subseteq Pressed
  BY GotoMoves
<1>1. press' = press /\ keyboards' = keyboards /\ heard' = heard /\ failures' = failures
  BY DEF chatVars
<1>2. /\ keyboards' \in [Users -> SUBSET Buttons]
      /\ heard' \in [Updates -> SUBSET Answers]
  BY <1>1 DEF IInv, TypeOK
<1>3. /\ status' \in [Keys -> {"none", "pending", "succeeded", "failed"}]
      /\ charged' \subseteq Keys /\ owned' \subseteq Users \X Drops
  BY DEF MoneyTypes
<1>4. \A x \in Pressed : x \in Pressed' /\ press'[x] = press[x]
  BY <1>1 DEF Pressed
<1>5. SaidIsOwned'
  BY <1>1, <1>4, SaidStays
<1>6. (PaymentsArePresses /\ ChargedHaveRows /\ PaidIsOwned /\ OwnedIsPaid)'
  BY DEF MoneyInv
<1> QED BY <1>0, <1>1, <1>2, <1>3, <1>5, <1>6, GoingOnKeeps

LEMMA PurchaseKeeps ==
  ASSUME IInv, NEW h \in Runs, Insert(h) \/ Charge(h) \/ Decline(h) \/ Finalize(h)
  PROVE  IInv'
<1>1. pc[h] \in Buying /\ pc[h] # "idle" /\ UNCHANGED <<chatVars, heard, failures>>
  BY DEF Insert, Charge, Decline, Finalize, Buying
<1>2. /\ Key(h) \in Keys /\ PaymentIsPress(Key(h)) /\ press[run[h]].action = "unlock"
      /\ Item(h) = <<Key(h)[1], Key(h)[2]>>
  <2>1. RunHasPress(h)
    BY DEF IInv
  <2> QED BY <1>1, <2>1, AtWork DEF RunHasPress, Item
<1>3. press' = press
  BY <1>1 DEF chatVars
<1>4. {"provider", "charged", "not_charged", "bought", "apology"} \subseteq Places
  BY DEF Places
<1>5. ASSUME Goto(h, "apology"), UNCHANGED money PROVE IInv'
  BY <1>1, <1>2, <1>4, <1>5, GotoMoves, QuietKeeps
<1>6. CASE Insert(h)
  <2>1. CASE Ledger!Open(Key(h)) /\ Goto(h, "provider")
    <3>1. MoneyInv' /\ MoneyTypes' /\ owned' = owned
      BY <1>2, <1>3, <2>1, OpenKeeps
    <3> QED BY <1>1, <1>2, <1>4, <2>1, <3>1, PayingKeeps
  <2> QED BY <1>5, <1>6, <2>1 DEF Insert
<1>7. CASE Charge(h)
  <2>1. Ledger!Charge(Key(h)) /\ Goto(h, "charged")
    BY <1>7 DEF Charge
  <2>2. MoneyInv' /\ MoneyTypes' /\ owned' = owned
    BY <1>2, <1>3, <2>1, ChargeKeeps
  <2> QED BY <1>1, <1>2, <1>4, <2>1, <2>2, PayingKeeps
<1>8. CASE Decline(h)
  <2>1. Ledger!GiveUp({Key(h)}) /\ Goto(h, "not_charged")
    BY <1>8 DEF Decline
  <2>2. MoneyInv' /\ MoneyTypes' /\ owned' = owned
    BY <1>2, <1>3, <2>1, GiveUpKeeps
  <2> QED BY <1>1, <1>2, <1>4, <2>1, <2>2, PayingKeeps
<1>9. CASE Finalize(h)
  <2>1. CASE Ledger!Pay(Key(h), Item(h)) /\ Goto(h, "bought")
    <3>1. MoneyInv' /\ MoneyTypes' /\ owned \subseteq owned' /\ Item(h) \in owned'
      BY <1>2, <1>3, <2>1, PayKeeps
    <3> QED BY <1>1, <1>2, <1>4, <2>1, <3>1, PayingKeeps
  <2> QED BY <1>5, <1>9, <2>1 DEF Finalize
<1> QED BY <1>6, <1>7, <1>8, <1>9

LEMMA SweepKeeps ==
  ASSUME IInv, NEW k \in Keys, Sweep(k)
  PROVE  IInv'
<1>1. /\ Ledger!GiveUp({k}) /\ press' = press /\ keyboards' = keyboards /\ acked' = acked
      /\ run' = run /\ pc' = pc /\ heard' = heard /\ dropped' = dropped
      /\ failures' = failures
  BY DEF Sweep, chatVars
<1>2. MoneyInv' /\ MoneyTypes' /\ owned' = owned
  BY <1>1, GiveUpKeeps
<1>3. \A x \in Pressed : x \in Pressed' /\ press'[x] = press[x]
  BY <1>1 DEF Pressed
<1>4. TypeOK'
  BY <1>1, <1>2 DEF IInv, TypeOK, MoneyTypes, Pressed
<1>5. ASSUME NEW h \in Runs PROVE (RunHasPress(h) /\ SayingIsOwned(h))'
  BY <1>1, <1>2 DEF IInv, RunHasPress, SayingIsOwned, Item, User, Drop, Pressed
<1>6. SaidIsOwned'
  BY <1>1, <1>2, <1>3, SaidStays
<1> QED BY <1>2, <1>4, <1>5, <1>6 DEF IInv, MoneyInv

LEMMA NextKeeps == IInv /\ [Next]_vars => IInv'
<1> SUFFICES ASSUME IInv, [Next]_vars PROVE IInv'
  OBVIOUS
<1>1. ASSUME NEW x \in Updates, Press(x) PROVE IInv'
  BY <1>1, PressKeeps
<1>2. ASSUME NEW x \in Updates, NEW h \in Runs, Receive(h, x) PROVE IInv'
  BY <1>2, ReceiveKeeps
<1>3. ASSUME NEW h \in Runs, View(h) PROVE IInv'
  BY <1>3, QuietStepsKeep, RepliesKeep DEF View
<1>4. ASSUME NEW h \in Runs, Buy(h) PROVE IInv'
  BY <1>4, QuietStepsKeep, RepliesKeep, PurchaseKeeps DEF Buy
<1>5. ASSUME NEW h \in Runs, End(h) \/ Fail(h) \/ Crash(h) PROVE IInv'
  BY <1>5, QuietStepsKeep, LastWordsKeep, LeaveKeeps DEF End
<1>6. ASSUME NEW k \in Keys, Sweep(k) PROVE IInv'
  BY <1>6, SweepKeeps
<1>7. CASE UNCHANGED vars
  BY <1>7 DEF vars, chatVars, money, IInv, TypeOK, Pressed, PaymentsArePresses, PaymentIsPress,
              ChargedHaveRows, PaidIsOwned, OwnedIsPaid, ChargesFor, RunHasPress, SayingIsOwned,
              Item, User, Drop, SaidIsOwned
<1> QED BY <1>1, <1>2, <1>3, <1>4, <1>5, <1>6, <1>7 DEF Next

LEMMA Inductive == Spec => []IInv
BY InitIInv, NextKeeps, PTL DEF Spec

-----------------------------------------------------------------------------

\* Every variable has its type, for any number of users, drops, presses and runs.
THEOREM TypeCorrect == Spec => []TypeOK
<1>1. IInv => TypeOK
  BY DEF IInv
<1> QED BY <1>1, Inductive, PTL

\* One consent pays at most once (ChargesAreConsented): the third part of the key
\* of a payment is the press it comes from, and two payments of one user for one
\* drop differ in it.
THEOREM Consent == Spec => []ChargesAreConsented
<1>1. ASSUME IInv PROVE ChargesAreConsented
  <2> SUFFICES ASSUME NEW u \in Users, NEW d \in Drops
               PROVE  Cardinality(ChargesFor(u, d)) <= Cardinality(Confirms(u, d))
    BY DEF ChargesAreConsented
  <2> DEFINE C == ChargesFor(u, d)
             P == Confirms(u, d)
             press3 == [k \in C |-> k[3]]
  <2>1. IsFiniteSet(P)
    <3>1. P \subseteq Updates
      BY DEF Confirms, Pressed
    <3> QED BY <3>1, FromAssumption, FS_Subset
  <2>2. \A k \in C : k \in Keys /\ k[1] = u /\ k[2] = d /\ k[3] \in P
    BY <1>1 DEF IInv, TypeOK, ChargesFor, Confirms, ChargedHaveRows, PaymentsArePresses, PaymentIsPress
  <2>3. \A j, k \in C : j[3] = k[3] => j = k
    BY <2>2 DEF Keys
  <2>4. press3 \in Injection(C, P)
    BY <2>2, <2>3, Zenon DEF Injection, IsInjective
  <2> QED BY <2>1, <2>4, FS_Injection
<1> QED BY <1>1, Inductive, PTL

\* What the bot says is so (HeardIsTrue).
THEOREM Truth == Spec => []HeardIsTrue
<1>1. ASSUME IInv PROVE HeardIsTrue
  <2>1. TypeOK /\ OwnedIsPaid /\ SaidIsOwned
    BY <1>1 DEF IInv
  <2>2. ASSUME NEW x \in Pressed, heard[x] \intersect Promises # {}
        PROVE  <<From[x], press[x].drop>> \in owned
    <3>1. x \in Updates /\ heard[x] # {}
      BY <2>2 DEF Pressed
    <3> QED BY <2>1, <2>2, <3>1 DEF SaidIsOwned
  <2> QED BY <2>1, <2>2 DEF OwnedIsPaid, HeardIsTrue, Promises
<1> QED BY <1>1, Inductive, PTL
-----------------------------------------------------------------------------

\* The handlers move money only as the ledger allows, whatever is offered again,
\* handled beside itself or cut off: a step of theirs is a step of PaymentLedger,
\* of the key and the item of the run that takes it, or leaves the money alone.
THEOREM MoneyIsTheLedgers == Spec => Ledger!Spec
<1>1. Init => Ledger!Init
  BY DEF Init
<1>2. IInv /\ [Next]_vars => [Ledger!Next]_(Ledger!vars)
  <2> SUFFICES ASSUME IInv, [Next]_vars PROVE [Ledger!Next]_(Ledger!vars)
    OBVIOUS
  <2>1. CASE UNCHANGED money
    BY <2>1 DEF money, Ledger!vars
  <2>2. ASSUME NEW k \in Keys, Ledger!GiveUp({k}) PROVE Ledger!Next
    <3>1. {k} \in SUBSET Keys
      OBVIOUS
    <3> QED BY <2>2, <3>1 DEF Ledger!Next
  <2>3. ASSUME NEW h \in Runs, pc[h] # "idle",
               Insert(h) \/ Charge(h) \/ Decline(h) \/ Finalize(h)
        PROVE  Ledger!Next \/ UNCHANGED money
    <3>1. Key(h) \in Keys /\ Item(h) \in Users \X Drops
      BY <2>3, AtWork
    <3>2. CASE Insert(h)
      BY <3>1, <3>2 DEF Insert, Ledger!Next
    <3>3. CASE Charge(h)
      BY <3>1, <3>3 DEF Charge, Ledger!Next
    <3>4. CASE Decline(h)
      BY <2>2, <3>1, <3>4 DEF Decline
    <3>5. CASE Finalize(h)
      BY <3>1, <3>5 DEF Finalize, Ledger!Next
    <3> QED BY <2>3, <3>2, <3>3, <3>4, <3>5
  <2>4. ASSUME NEW h \in Runs, Buy(h) PROVE Ledger!Next \/ UNCHANGED money
    <3>1. CASE Insert(h) \/ Charge(h) \/ Decline(h) \/ Finalize(h)
      <4>1. pc[h] # "idle"
        BY <3>1 DEF Insert, Charge, Decline, Finalize
      <4> QED BY <2>3, <3>1, <4>1
    <3>2. CASE Lookup(h) \/ Bought(h) \/ Refuse(h)
      BY <3>2 DEF Lookup, Bought, Refuse, Bystanders
    <3> QED BY <2>4, <3>1, <3>2 DEF Buy
  <2>5. ASSUME NEW h \in Runs, View(h) PROVE UNCHANGED money
    BY <2>5 DEF View, Dispatch, Look, Open, Offer, Bystanders, money
  <2>6. ASSUME NEW h \in Runs, End(h) \/ Fail(h) \/ Crash(h) PROVE UNCHANGED money
    BY <2>6 DEF End, Deliver, Apologize, Finish, Fail, Crash, Leave, Bystanders
  <2>7. ASSUME NEW x \in Updates, Press(x) \/ \E h \in Runs : Receive(h, x)
        PROVE  UNCHANGED money
    BY <2>7 DEF Press, Receive, Bystanders
  <2>8. ASSUME NEW k \in Keys, Sweep(k) PROVE Ledger!Next
    BY <2>2, <2>8 DEF Sweep
  <2>9. CASE UNCHANGED vars
    BY <2>1, <2>9 DEF vars
  <2>10. CASE Next
    BY <2>1, <2>4, <2>5, <2>6, <2>7, <2>8, <2>10 DEF Next
  <2> QED BY <2>9, <2>10
<1> QED BY <1>1, <1>2, Inductive, PTL DEF Spec, Ledger!Spec
=============================================================================

--------------------------- MODULE DeliveryProofs ---------------------------
(***************************************************************************)
(* What deliveries guarantee for any catalog, any users, any number of     *)
(* deliveries and replicas, and any number of failures.                    *)
(***************************************************************************)
EXTENDS Delivery, WellFoundedInduction, TLAPS

\* A delivery is at work on its current asset.
InHand == {"text", "bot", "cached", "source", "cache"}
Sending == InHand \union {"asset", "record", "done"}

\* Between the two reads of the access decision the drop stays published,
\* and what was decided holds for the rest of the call.
DecisionHolds(d) ==
  /\ pc[d] = "access" => Wants[d] \in published
  /\ pc[d] \in Sending \union {"list"} => entitled[d]
  /\ \A a \in Assets : copies[d][a] > 0 => entitled[d]
  /\ pc[d] \in {"drop", "access", "list"} => \A a \in Assets : copies[d][a] = 0

\* A listed asset is still to be sent, or was received.
SentOrTodo(d) ==
  /\ pc[d] \in Sending => todo[d] \subseteq listed[d]
  /\ pc[d] \in Sending => \A a \in listed[d] \ todo[d] : copies[d][a] > 0
  /\ pc[d] \in {"record", "done"} => todo[d] = {}
  /\ pc[d] \in InHand => todo[d] # {}
  /\ pc[d] = "cache" => copies[d][Current(d)] > 0

\* An asset still to be sent reached the user only without our knowing.
TodoIsUnsure(d) ==
  /\ \A a \in Assets : copies[d][a] <= 1 + unsure[d][a]
  /\ pc[d] \in {"asset"} \union InHand =>
       \A a \in todo[d] : copies[d][a] <= unsure[d][a] \/ (pc[d] = "cache" /\ a = Current(d))

\* Who saw an earlier delivery on record was right.
BeforeIsTrue(d) == pc[d] = "record" /\ before[d] => delivered[What(d)] > 0

\* Only media goes through the cache of file ids.
InHandIsMedia(d) == pc[d] \in {"bot", "cached", "source", "cache"} => Current(d) \in Media

Local(d) ==
  DecisionHolds(d) /\ SentOrTodo(d) /\ TodoIsUnsure(d) /\ BeforeIsTrue(d) /\ InHandIsMedia(d)

IInv == TypeOK /\ (\A d \in Deliveries : Local(d)) /\ FirstIsAnnounced

-----------------------------------------------------------------------------

\* A non-empty set of naturals has a least element.
LEMMA NaturalsHaveMinima ==
  ASSUME NEW T, T \subseteq Nat, T # {}
  PROVE  \E n \in T : \A m \in T : n <= m
<1> DEFINE R == {p \in Nat \X Nat : p[1] < p[2]}
<1>1. IsWellFoundedOn(R, Nat)
  <2>1. R = OpToRel(<, Nat)
    BY DEF OpToRel
  <2> QED BY <2>1, NatLessThanWellFounded
<1>2. PICK n \in T : \A m \in T : <<m, n>> \notin R
  <2> HIDE DEF R
  <2> QED BY <1>1, WFMin
<1>3. ASSUME NEW m \in T PROVE n <= m
  <2>1. m \in Nat /\ n \in Nat /\ <<m, n>> \notin R
    BY <1>2
  <2> QED BY <2>1
<1> QED BY <1>3

\* A delivery that has assets to send has a first one.
LEMMA CurrentIsTodo ==
  ASSUME NEW d \in Deliveries, todo[d] \subseteq Assets, todo[d] # {}
  PROVE  Current(d) \in todo[d]
<1> DEFINE T == {a[2] : a \in todo[d]}
<1>1. T \subseteq Nat /\ T # {}
  BY CatalogAssumption DEF Assets
<1>2. \E n \in T : \A m \in T : n <= m
  <2> HIDE DEF T
  <2> QED BY <1>1, NaturalsHaveMinima
<1>3. \E a \in todo[d] : \A b \in todo[d] : a[2] <= b[2]
  BY <1>2
<1> QED BY <1>3 DEF Current

LEMMA WhatIsAPair == ASSUME NEW d \in Deliveries PROVE What(d) \in Users \X Drops
  BY DeliveryAssumption DEF What

\* What others do to the catalog and to the record does not disturb a delivery.
LEMMA LocalIsKept ==
  ASSUME NEW d \in Deliveries, Local(d), TypeOK, TypeOK',
         pc'[d] = pc[d], todo'[d] = todo[d], listed'[d] = listed[d],
         entitled'[d] = entitled[d], copies'[d] = copies[d], unsure'[d] = unsure[d],
         before'[d] = before[d], published \subseteq published',
         delivered'[What(d)] >= delivered[What(d)]
  PROVE  Local(d)'
<1>1. Current(d)' = Current(d)
  BY DEF Current
<1>2. DecisionHolds(d)'
  BY DEF Local, DecisionHolds
<1>3. SentOrTodo(d)'
  BY <1>1 DEF Local, SentOrTodo
<1>4. TodoIsUnsure(d)'
  BY <1>1 DEF Local, TodoIsUnsure
<1>5. BeforeIsTrue(d)'
  <2>1. delivered[What(d)] \in Nat /\ delivered'[What(d)] \in Nat
    BY WhatIsAPair DEF TypeOK
  <2>2. What(d)' = What(d)
    BY DEF What
  <2> QED BY <2>1, <2>2 DEF Local, BeforeIsTrue
<1>6. InHandIsMedia(d)'
  BY <1>1 DEF Local, InHandIsMedia
<1> QED BY <1>2, <1>3, <1>4, <1>5, <1>6 DEF Local

LEMMA InitEstablishes == Init => IInv
<1> SUFFICES ASSUME Init PROVE IInv
  OBVIOUS
<1>1. TypeOK
  BY BoundAssumption DEF Init, TypeOK
<1>2. ASSUME NEW d \in Deliveries PROVE Local(d)
  BY <1>2 DEF Init, Local, DecisionHolds, SentOrTodo, TodoIsUnsure, BeforeIsTrue, InHandIsMedia,
           Sending, InHand
<1>3. FirstIsAnnounced
  BY DEF Init, FirstIsAnnounced
<1> QED BY <1>1, <1>2, <1>3 DEF IInv

LEMMA ErrorIsCounted == ASSUME TypeOK, Error PROVE failures' \in Nat
  BY DEF TypeOK, Error

-----------------------------------------------------------------------------

\* What e has to itself.
Kept(e) ==
  /\ pc'[e] = pc[e] /\ todo'[e] = todo[e] /\ listed'[e] = listed[e]
  /\ entitled'[e] = entitled[e] /\ copies'[e] = copies[e] /\ unsure'[e] = unsure[e]
  /\ before'[e] = before[e]

\* Creators, payments and time leave deliveries alone and withdraw no drop.
LEMMA CatalogKeeps ==
  ASSUME IInv, TypeOK', OthersStay, published \subseteq published'
  PROVE  IInv'
<1>1. ASSUME NEW d \in Deliveries PROVE Local(d)'
  <2>1. delivered'[What(d)] >= delivered[What(d)]
    BY WhatIsAPair DEF OthersStay, recordVars, IInv, TypeOK
  <2> QED BY <2>1, LocalIsKept DEF IInv, OthersStay, deliveryVars, mailVars, recordVars
<1>2. FirstIsAnnounced'
  BY DEF IInv, FirstIsAnnounced, OthersStay, recordVars
<1> QED BY <1>1, <1>2 DEF IInv

\* A step of one delivery, as far as the others see it.
LEMMA StepKeepsOthers ==
  ASSUME NEW d \in Deliveries, IInv, TypeOK', published' = published,
         \A e \in Deliveries \ {d} : Kept(e),
         \A w \in Users \X Drops : delivered'[w] >= delivered[w],
         Local(d)', FirstIsAnnounced'
  PROVE  IInv'
<1>1. ASSUME NEW e \in Deliveries PROVE Local(e)'
  <2>1. CASE e = d
    BY <2>1
  <2>2. CASE e # d
    BY <2>2, WhatIsAPair, LocalIsKept DEF IInv, Kept
  <2> QED BY <2>1, <2>2
<1> QED BY <1>1 DEF IInv

\* The same for steps that put nothing on record.
LEMMA QuietStepKeeps ==
  ASSUME NEW d \in Deliveries, IInv, TypeOK', published' = published,
         delivered' = delivered, announced' = announced,
         \A e \in Deliveries \ {d} : Kept(e),
         Local(d)'
  PROVE  IInv'
<1>1. \A w \in Users \X Drops : delivered'[w] >= delivered[w]
  BY DEF IInv, TypeOK
<1>2. FirstIsAnnounced'
  BY DEF IInv, FirstIsAnnounced
<1> QED BY <1>1, <1>2, StepKeepsOthers

-----------------------------------------------------------------------------
(* Creators, payments and time *)

LEMMA AddAssetKeeps == ASSUME NEW a \in Assets, IInv, AddAsset(a) PROVE IInv'
<1>1. TypeOK'
  BY DEF IInv, TypeOK, AddAsset, OthersStay, deliveryVars, mailVars, recordVars
<1> QED BY <1>1, CatalogKeeps DEF AddAsset

LEMMA PublishKeeps ==
  ASSUME NEW x \in Drops, IInv, CheckPublish(x) \/ Publish(x) PROVE IInv'
<1>1. TypeOK'
  BY DEF IInv, TypeOK, CheckPublish, Publish, OthersStay, deliveryVars, mailVars, recordVars
<1> QED BY <1>1, CatalogKeeps DEF CheckPublish, Publish

LEMMA GrantKeeps ==
  ASSUME NEW u \in Users, NEW x \in Drops, IInv, Grant(u, x) PROVE IInv'
<1>1. TypeOK'
  BY DEF IInv, TypeOK, Grant, OthersStay, deliveryVars, mailVars, recordVars
<1> QED BY <1>1, CatalogKeeps DEF Grant

LEMMA SubscribeKeeps == ASSUME NEW u \in Users, IInv, Subscribe(u) PROVE IInv'
<1>1. now \in Nat /\ subscription[u].expires \in Nat /\ Period \in Nat /\ subscribes' \in Nat
  BY BoundAssumption DEF IInv, TypeOK, Subscribe
<1>2. subscription' \in [Users -> [status : {"none", "active", "expired"}, expires : Nat]]
  BY <1>1 DEF IInv, TypeOK, Subscribe
<1>3. TypeOK'
  BY <1>1, <1>2 DEF IInv, TypeOK, Subscribe, OthersStay, deliveryVars, mailVars, recordVars
<1> QED BY <1>3, CatalogKeeps DEF Subscribe

LEMMA TimeKeeps == ASSUME IInv, TimePasses PROVE IInv'
<1>1. TypeOK'
  BY BoundAssumption
     DEF IInv, TypeOK, TimePasses, OthersStay, deliveryVars, mailVars, recordVars
<1> QED BY <1>1, CatalogKeeps DEF TimePasses

LEMMA SweepListsKeeps == ASSUME IInv, SweepLists PROVE IInv'
<1>1. TypeOK'
  BY DEF IInv, TypeOK, SweepLists, OthersStay, deliveryVars, mailVars, recordVars
<1> QED BY <1>1, CatalogKeeps DEF SweepLists

LEMMA SweepExpiresKeeps == ASSUME NEW u \in Users, IInv, SweepExpires(u) PROVE IInv'
<1>1. subscription' \in [Users -> [status : {"none", "active", "expired"}, expires : Nat]]
  BY DEF IInv, TypeOK, SweepExpires
<1>2. TypeOK'
  BY <1>1 DEF IInv, TypeOK, SweepExpires, OthersStay, deliveryVars, mailVars, recordVars
<1> QED BY <1>2, CatalogKeeps DEF SweepExpires

-----------------------------------------------------------------------------
(* The read-only transaction *)

LEMMA AskKeeps == ASSUME NEW d \in Deliveries, IInv, Ask(d) PROVE IInv'
<1> USE DEF Ask, CatalogStays, catalogVars, recordVars, Goto
<1>1. TypeOK'
  BY DEF IInv, TypeOK
<1>2. \A e \in Deliveries \ {d} : Kept(e)
  BY DEF Kept, IInv, TypeOK
<1>3. Local(d)'
  <2>1. pc'[d] = "drop" /\ copies'[d] = [a \in Assets |-> 0] /\ unsure'[d] = [a \in Assets |-> 0]
    BY DEF IInv, TypeOK
  <2> QED BY <2>1 DEF Local, DecisionHolds, SentOrTodo, TodoIsUnsure, BeforeIsTrue, InHandIsMedia,
           Sending, InHand
<1> QED BY <1>1, <1>2, <1>3, QuietStepKeeps

LEMMA ReadDropKeeps == ASSUME NEW d \in Deliveries, IInv, ReadDrop(d) PROVE IInv'
<1> USE DEF ReadDrop, CatalogStays, catalogVars, deliveryVars, mailVars, recordVars, Goto
<1>1. TypeOK'
  BY DEF IInv, TypeOK
<1>2. \A e \in Deliveries \ {d} : Kept(e)
  BY DEF Kept, IInv, TypeOK
<1>3. Local(d)'
  <2>1. \/ pc'[d] = "access" /\ Wants[d] \in published
        \/ pc'[d] = "refused"
    BY DEF IInv, TypeOK
  <2> QED BY <2>1 DEF IInv, Local, DecisionHolds, SentOrTodo, TodoIsUnsure,
           BeforeIsTrue, InHandIsMedia, Sending, InHand
<1> QED BY <1>1, <1>2, <1>3, QuietStepKeeps

\* The two reads of the decision agree with what was true at the second.
LEMMA AllowedIsEntitled ==
  ASSUME NEW d \in Deliveries, Wants[d] \in published, Allowed(Asker[d], Wants[d])
  PROVE  Entitled(d)
  BY DEF Allowed, HasActive, Entitled, What

LEMMA DecideKeeps == ASSUME NEW d \in Deliveries, IInv, Decide(d) PROVE IInv'
<1> USE DEF Decide, CatalogStays, catalogVars, mailVars, recordVars, Goto
<1>1. Entitled(d) \in BOOLEAN
  BY DEF Entitled
<1>2. TypeOK'
  BY <1>1 DEF IInv, TypeOK
<1>3. \A e \in Deliveries \ {d} : Kept(e)
  BY DEF Kept, IInv, TypeOK
<1>4. Local(d)'
  <2>1. \/ pc'[d] = "list" /\ entitled'[d]
        \/ pc'[d] = "refused" /\ entitled'[d] = entitled[d]
    BY AllowedIsEntitled DEF IInv, TypeOK, Local, DecisionHolds
  <2> QED BY <2>1 DEF IInv, Local, DecisionHolds, SentOrTodo, TodoIsUnsure,
           BeforeIsTrue, InHandIsMedia, Sending, InHand
<1> QED BY <1>2, <1>3, <1>4, QuietStepKeeps

LEMMA ListAssetsKeeps == ASSUME NEW d \in Deliveries, IInv, ListAssets(d) PROVE IInv'
<1> USE DEF ListAssets, CatalogStays, catalogVars, mailVars, recordVars, Goto
<1> DEFINE found == {a \in rows : a[1] = Wants[d]}
<1>1. found \subseteq Assets /\ found \intersect cached \subseteq Assets
  BY DEF IInv, TypeOK
<1>2. TypeOK'
  BY <1>1 DEF IInv, TypeOK
<1>3. \A e \in Deliveries \ {d} : Kept(e)
  BY DEF Kept, IInv, TypeOK
<1>4. Local(d)'
  <2>1. /\ pc[d] = "list" /\ pc'[d] \in {"asset", "failed"}
        /\ todo'[d] = found /\ listed'[d] = found
        /\ entitled'[d] = entitled[d] /\ copies' = copies /\ unsure' = unsure
    BY DEF IInv, TypeOK
  <2>2. \A a \in found : copies[d][a] = 0 /\ unsure[d][a] \in Nat
    BY <1>1, <2>1 DEF IInv, TypeOK, Local, DecisionHolds
  <2> HIDE DEF found
  <2> QED BY <2>1, <2>2 DEF IInv, Local, DecisionHolds, SentOrTodo, TodoIsUnsure, BeforeIsTrue,
                           InHandIsMedia, Sending, InHand
<1> QED BY <1>2, <1>3, <1>4, QuietStepKeeps
-----------------------------------------------------------------------------
(* Sending *)

LEMMA InHandHasCurrent ==
  ASSUME NEW d \in Deliveries, IInv, pc[d] \in InHand \/ (pc[d] = "asset" /\ todo[d] # {})
  PROVE  Current(d) \in todo[d] /\ Current(d) \in listed[d] /\ Current(d) \in Assets
<1>1. todo[d] \subseteq Assets /\ todo[d] \subseteq listed[d] /\ todo[d] # {}
  BY DEF IInv, TypeOK, Local, SentOrTodo, Sending, InHand
<1> QED BY <1>1, CurrentIsTodo

\* A delivery that stays with its current asset.
LEMMA SameAssetIsLocal ==
  ASSUME NEW d \in Deliveries, IInv, todo'[d] = todo[d], listed'[d] = listed[d],
         entitled'[d] = entitled[d], copies'[d] = copies[d], unsure'[d] = unsure[d],
         pc[d] \in InHand \/ (pc[d] = "asset" /\ todo[d] # {}), pc[d] # "cache",
         \/ pc'[d] \in {"text", "failed"}
         \/ pc'[d] \in {"bot", "cached", "source"} /\ Current(d) \in Media
  PROVE  Local(d)'
<1>1. Current(d)' = Current(d)
  BY DEF Current
<1> QED
  BY <1>1 DEF IInv, Local, DecisionHolds, SentOrTodo, TodoIsUnsure, BeforeIsTrue, InHandIsMedia,
           Sending, InHand

\* A delivery that has sent its current asset.
LEMMA SentIsLocal ==
  ASSUME NEW d \in Deliveries, IInv, pc[d] \in InHand, pc[d] # "cache",
         Sent(d), Arrives(d), listed'[d] = listed[d], entitled'[d] = entitled[d]
  PROVE  Local(d)'
<1> DEFINE c == Current(d)
<1>1. c \in todo[d] /\ c \in listed[d] /\ c \in Assets
  BY InHandHasCurrent
<1>2. /\ pc'[d] = "asset" /\ todo'[d] = todo[d] \ {c}
      /\ unsure' = unsure
      /\ copies'[d] = [copies[d] EXCEPT ![c] = @ + 1]
  BY DEF Sent, Arrives, Goto, IInv, TypeOK
<1> HIDE DEF c
<1>3. \A a \in Assets : copies[d][a] \in Nat /\ unsure[d][a] \in Nat
  BY DEF IInv, TypeOK
<1>4. /\ copies'[d][c] = copies[d][c] + 1
      /\ \A a \in Assets \ {c} : copies'[d][a] = copies[d][a]
  BY <1>1, <1>2 DEF IInv, TypeOK
<1>5. copies[d][c] <= unsure[d][c]
  BY <1>1 DEF IInv, Local, TodoIsUnsure, InHand
<1>6. entitled[d] /\ todo[d] \subseteq listed[d] /\ listed[d] \subseteq Assets
  BY DEF IInv, TypeOK, Local, DecisionHolds, SentOrTodo, Sending
<1>7. DecisionHolds(d)'
  BY <1>2, <1>6 DEF DecisionHolds, Sending
<1>8. SentOrTodo(d)'
  <2>1. \A a \in listed[d] \ todo'[d] : copies'[d][a] > 0
    BY <1>1, <1>2, <1>3, <1>4, <1>6 DEF IInv, Local, SentOrTodo, Sending
  <2> QED BY <2>1, <1>2, <1>6 DEF SentOrTodo, Sending, InHand
<1>9. TodoIsUnsure(d)'
  <2>1. \A a \in Assets : copies'[d][a] <= 1 + unsure'[d][a]
    BY <1>1, <1>2, <1>3, <1>4, <1>5 DEF IInv, Local, TodoIsUnsure
  <2>2. \A a \in todo'[d] : copies'[d][a] <= unsure'[d][a]
    BY <1>2, <1>4, <1>6 DEF IInv, Local, TodoIsUnsure, InHand
  <2> QED BY <2>1, <2>2, <1>2 DEF TodoIsUnsure
<1>10. BeforeIsTrue(d)' /\ InHandIsMedia(d)'
  BY <1>2 DEF BeforeIsTrue, InHandIsMedia
<1> QED BY <1>7, <1>8, <1>9, <1>10 DEF Local

\* A delivery whose current asset arrived without its knowing.
LEMMA UnsureIsLocal ==
  ASSUME NEW d \in Deliveries, IInv, pc[d] \in InHand, pc[d] # "cache",
         ArrivesUnsure(d), todo'[d] = todo[d], listed'[d] = listed[d],
         entitled'[d] = entitled[d],
         pc'[d] = "failed" \/ (pc'[d] = "source" /\ Current(d) \in Media)
  PROVE  Local(d)'
<1> DEFINE c == Current(d)
<1>1. c \in todo[d] /\ c \in Assets
  BY InHandHasCurrent
<1>2. /\ copies'[d] = [copies[d] EXCEPT ![c] = @ + 1]
      /\ unsure'[d] = [unsure[d] EXCEPT ![c] = @ + 1]
  BY DEF ArrivesUnsure, IInv, TypeOK
<1> HIDE DEF c
<1>3. \A a \in Assets : copies[d][a] \in Nat /\ unsure[d][a] \in Nat
  BY DEF IInv, TypeOK
<1>4. /\ copies'[d][c] = copies[d][c] + 1 /\ unsure'[d][c] = unsure[d][c] + 1
      /\ \A a \in Assets \ {c} : copies'[d][a] = copies[d][a] /\ unsure'[d][a] = unsure[d][a]
  BY <1>1, <1>2 DEF IInv, TypeOK
<1>5. entitled[d] /\ todo[d] \subseteq listed[d] /\ listed[d] \subseteq Assets /\ todo[d] # {}
  BY DEF IInv, TypeOK, Local, DecisionHolds, SentOrTodo, Sending
<1>6. DecisionHolds(d)'
  BY <1>5 DEF DecisionHolds, Sending, InHand
<1>7. SentOrTodo(d)'
  <2>1. \A a \in listed[d] \ todo[d] : copies'[d][a] > 0
    BY <1>3, <1>4, <1>5, <1>1 DEF IInv, Local, SentOrTodo, Sending
  <2> QED BY <2>1, <1>5 DEF SentOrTodo, Sending, InHand
<1>8. TodoIsUnsure(d)'
  <2>1. \A a \in Assets : copies'[d][a] <= 1 + unsure'[d][a]
    BY <1>1, <1>3, <1>4 DEF IInv, Local, TodoIsUnsure
  <2>2. \A a \in todo[d] : copies'[d][a] <= unsure'[d][a]
    BY <1>1, <1>3, <1>4, <1>5 DEF IInv, Local, TodoIsUnsure, InHand
  <2> QED BY <2>1, <2>2 DEF TodoIsUnsure
<1>9. BeforeIsTrue(d)' /\ InHandIsMedia(d)'
  <2>1. Current(d)' = Current(d)
    BY DEF Current
  <2> QED BY <2>1 DEF BeforeIsTrue, InHandIsMedia
<1> QED BY <1>6, <1>7, <1>8, <1>9 DEF Local
\* The types of what sending changes.
LEMMA MailIsTyped ==
  ASSUME NEW d \in Deliveries, IInv, pc[d] \in InHand,
         Arrives(d) \/ ArrivesUnsure(d) \/ UNCHANGED mailVars
  PROVE  copies' \in [Deliveries -> [Assets -> Nat]] /\ unsure' \in [Deliveries -> [Assets -> Nat]]
<1>1. Current(d) \in Assets
  BY InHandHasCurrent
<1> DEFINE More(f) == [f EXCEPT ![d][Current(d)] = @ + 1]
<1>2. ASSUME NEW f \in [Deliveries -> [Assets -> Nat]]
      PROVE  More(f) \in [Deliveries -> [Assets -> Nat]]
  <2>1. f[d][Current(d)] + 1 \in Nat
    BY <1>1
  <2>2. [f[d] EXCEPT ![Current(d)] = @ + 1] \in [Assets -> Nat]
    BY <1>1, <2>1
  <2> QED BY <2>2
<1>3. copies' \in {copies, More(copies)} /\ unsure' \in {unsure, More(unsure)}
  BY DEF Arrives, ArrivesUnsure, mailVars
<1>4. copies \in [Deliveries -> [Assets -> Nat]] /\ unsure \in [Deliveries -> [Assets -> Nat]]
  BY DEF IInv, TypeOK
<1>5. /\ More(copies) \in [Deliveries -> [Assets -> Nat]]
      /\ More(unsure) \in [Deliveries -> [Assets -> Nat]]
  BY <1>2, <1>4
<1> HIDE DEF More
<1> QED BY <1>3, <1>4, <1>5

LEMMA TodoIsTyped ==
  ASSUME NEW d \in Deliveries, IInv, Sent(d) \/ UNCHANGED todo
  PROVE  todo' \in [Deliveries -> SUBSET Assets]
<1> DEFINE left == todo[d] \ {Current(d)}
<1>1. todo \in [Deliveries -> SUBSET Assets] /\ left \in SUBSET Assets
  BY DEF IInv, TypeOK
<1>2. todo' = todo \/ todo' = [todo EXCEPT ![d] = left]
  BY DEF Sent
<1> HIDE DEF left
<1> QED BY <1>1, <1>2

LEMMA ResolveKeeps == ASSUME NEW d \in Deliveries, IInv, Resolve(d) PROVE IInv'
<1> USE DEF Resolve, CatalogStays, catalogVars, mailVars, recordVars, Goto, GiveUp
<1>1. TypeOK'
  BY ErrorIsCounted DEF IInv, TypeOK
<1>2. \A e \in Deliveries \ {d} : Kept(e)
  BY DEF Kept, IInv, TypeOK
<1>3. Local(d)'
  <2>1. /\ todo' = todo
        /\ pc'[d] \in {"text", "failed"} \/ (pc'[d] = "bot" /\ Current(d) \in Media)
    BY DEF IInv, TypeOK, IsText
  <2> QED BY <2>1, SameAssetIsLocal
<1> QED BY <1>1, <1>2, <1>3, QuietStepKeeps

LEMMA SendTextKeeps == ASSUME NEW d \in Deliveries, IInv, SendText(d) PROVE IInv'
<1> USE DEF SendText, CatalogStays, catalogVars, recordVars
<1>1. TypeOK'
  <2>1. copies' \in [Deliveries -> [Assets -> Nat]] /\ unsure' \in [Deliveries -> [Assets -> Nat]]
    BY MailIsTyped DEF InHand
  <2>2. todo' \in [Deliveries -> SUBSET Assets]
    BY TodoIsTyped DEF GiveUp
  <2>3. failures' \in Nat
    BY ErrorIsCounted DEF IInv, TypeOK
  <2> QED BY <2>1, <2>2, <2>3 DEF IInv, TypeOK, Sent, GiveUp, Goto
<1>2. \A e \in Deliveries \ {d} : Kept(e)
  BY DEF Kept, IInv, TypeOK, Sent, GiveUp, Goto, Arrives, ArrivesUnsure, mailVars
<1>3. Local(d)'
  <2>1. CASE Arrives(d) /\ Sent(d)
    BY <2>1, SentIsLocal DEF InHand
  <2>2. CASE GiveUp(d) /\ ArrivesUnsure(d)
    <3>1. pc'[d] = "failed" /\ todo' = todo
      BY <2>2 DEF GiveUp, Goto, IInv, TypeOK
    <3> QED BY <3>1, <2>2, UnsureIsLocal DEF InHand
  <2>3. CASE GiveUp(d) /\ UNCHANGED mailVars
    <3>1. pc'[d] = "failed" /\ todo' = todo
      BY <2>3 DEF GiveUp, Goto, IInv, TypeOK
    <3> QED BY <3>1, <2>3, SameAssetIsLocal DEF InHand, mailVars
  <2> QED BY <2>1, <2>2, <2>3
<1> QED BY <1>1, <1>2, <1>3, QuietStepKeeps

LEMMA SendCachedKeeps == ASSUME NEW d \in Deliveries, IInv, SendCached(d) PROVE IInv'
<1> USE DEF SendCached, CatalogStays, catalogVars, recordVars, AfterStaleId
<1>1. TypeOK'
  <2>1. copies' \in [Deliveries -> [Assets -> Nat]] /\ unsure' \in [Deliveries -> [Assets -> Nat]]
    BY MailIsTyped DEF InHand
  <2>2. todo' \in [Deliveries -> SUBSET Assets]
    BY TodoIsTyped DEF GiveUp
  <2>3. failures' \in Nat
    BY ErrorIsCounted DEF IInv, TypeOK
  <2> QED BY <2>1, <2>2, <2>3 DEF IInv, TypeOK, Sent, Goto
<1>2. \A e \in Deliveries \ {d} : Kept(e)
  BY DEF Kept, IInv, TypeOK, Sent, Goto, Arrives, ArrivesUnsure, mailVars
<1>3. Local(d)'
  <2>1. CASE Arrives(d) /\ Sent(d)
    BY <2>1, SentIsLocal DEF InHand
  <2>2. CASE Goto(d, "source") /\ UNCHANGED todo /\ ArrivesUnsure(d)
    <3>1. pc'[d] = "source" /\ Current(d) \in Media
      BY <2>2 DEF Goto, IInv, TypeOK, Local, InHandIsMedia
    <3> QED BY <3>1, <2>2, UnsureIsLocal DEF InHand
  <2>3. CASE Goto(d, "source") /\ UNCHANGED todo /\ UNCHANGED mailVars
    <3>1. pc'[d] = "source" /\ Current(d) \in Media
      BY <2>3 DEF Goto, IInv, TypeOK, Local, InHandIsMedia
    <3> QED BY <3>1, <2>3, SameAssetIsLocal DEF InHand, mailVars
  <2> QED BY <2>1, <2>2, <2>3
<1> QED BY <1>1, <1>2, <1>3, QuietStepKeeps

\* The upload is the one send after which the asset stays current, to be cached.
LEMMA SendSourceKeeps == ASSUME NEW d \in Deliveries, IInv, SendSource(d) PROVE IInv'
<1> USE DEF SendSource, CatalogStays, catalogVars, recordVars
<1>1. TypeOK'
  <2>1. copies' \in [Deliveries -> [Assets -> Nat]] /\ unsure' \in [Deliveries -> [Assets -> Nat]]
    BY MailIsTyped DEF InHand
  <2> QED BY <2>1, ErrorIsCounted DEF IInv, TypeOK, GiveUp, Goto
<1>2. \A e \in Deliveries \ {d} : Kept(e)
  BY DEF Kept, IInv, TypeOK, GiveUp, Goto, Arrives, ArrivesUnsure, mailVars
<1>3. Local(d)'
  <2>1. ASSUME Arrives(d), Goto(d, "cache"), UNCHANGED todo PROVE Local(d)'
    <3> DEFINE c == Current(d)
    <3>1. c \in todo[d] /\ c \in Assets /\ Current(d)' = c
      BY <2>1, InHandHasCurrent DEF InHand, Current
    <3>2. pc'[d] = "cache" /\ unsure' = unsure /\ copies'[d] = [copies[d] EXCEPT ![c] = @ + 1]
      BY <2>1 DEF Arrives, Goto, IInv, TypeOK
    <3>a. c \in Media
      BY DEF IInv, Local, InHandIsMedia
    <3> HIDE DEF c
    <3>3. \A a \in Assets : copies[d][a] \in Nat /\ unsure[d][a] \in Nat
      BY DEF IInv, TypeOK
    <3>4. /\ copies'[d][c] = copies[d][c] + 1
          /\ \A a \in Assets \ {c} : copies'[d][a] = copies[d][a]
      BY <3>1, <3>2 DEF IInv, TypeOK
    <3>5. entitled[d] /\ todo[d] \subseteq listed[d] /\ listed[d] \subseteq Assets
      BY DEF IInv, TypeOK, Local, DecisionHolds, SentOrTodo, Sending, InHand
    <3>6. \A a \in todo[d] : copies[d][a] <= unsure[d][a]
      BY <3>5 DEF IInv, Local, TodoIsUnsure, InHand
    <3>7. DecisionHolds(d)'
      BY <3>2, <3>5 DEF DecisionHolds, Sending, InHand
    <3>8. SentOrTodo(d)'
      <4>1. \A a \in listed[d] \ todo[d] : copies'[d][a] > 0
        BY <3>1, <3>4, <3>5 DEF IInv, Local, SentOrTodo, Sending, InHand
      <4>2. copies'[d][c] > 0
        BY <3>1, <3>3, <3>4
      <4> QED BY <2>1, <3>1, <3>2, <3>5, <4>1, <4>2 DEF SentOrTodo, Sending, InHand
    <3>9. TodoIsUnsure(d)'
      <4>1. \A a \in Assets : copies'[d][a] <= 1 + unsure'[d][a]
        BY <3>1, <3>2, <3>3, <3>4, <3>6 DEF IInv, Local, TodoIsUnsure
      <4>2. \A a \in todo[d] \ {c} : copies'[d][a] <= unsure'[d][a]
        BY <3>2, <3>4, <3>5, <3>6
      <4> QED BY <2>1, <3>1, <3>2, <4>1, <4>2 DEF TodoIsUnsure
    <3>10. BeforeIsTrue(d)' /\ InHandIsMedia(d)'
      BY <2>1, <3>1, <3>2, <3>a DEF BeforeIsTrue, InHandIsMedia, IInv, Local
    <3> QED BY <3>7, <3>8, <3>9, <3>10 DEF Local
  <2>2. CASE GiveUp(d) /\ ArrivesUnsure(d)
    <3>1. pc'[d] = "failed" /\ todo' = todo
      BY <2>2 DEF GiveUp, Goto, IInv, TypeOK
    <3> QED BY <3>1, <2>2, UnsureIsLocal DEF InHand
  <2>3. CASE GiveUp(d) /\ UNCHANGED mailVars
    <3>1. pc'[d] = "failed" /\ todo' = todo
      BY <2>3 DEF GiveUp, Goto, IInv, TypeOK
    <3> QED BY <3>1, <2>3, SameAssetIsLocal DEF InHand, mailVars
  <2> QED BY <2>1, <2>2, <2>3
<1> QED BY <1>1, <1>2, <1>3, QuietStepKeeps

LEMMA BotIdKeeps ==
  ASSUME IInv, (\E d \in Deliveries : AskBotId(d)) \/ (\E p \in Replicas : BotIdSettles(p))
  PROVE  IInv'
<1> USE DEF AskBotId, BotIdSettles, CatalogStays, catalogVars, deliveryVars, mailVars, recordVars
<1>1. botId' \in [Replicas -> {"unknown", "asked", "known", "rejected"}] /\ failures' \in Nat
  BY ErrorIsCounted, DeliveryAssumption DEF IInv, TypeOK
<1>2. UNCHANGED <<catalogVars, deliveryVars, mailVars, recordVars, cached, pc>>
  OBVIOUS
<1>3. TypeOK'
  BY <1>1, <1>2 DEF IInv, TypeOK
<1>4. ASSUME NEW d \in Deliveries PROVE Local(d)'
  <2>1. delivered'[What(d)] >= delivered[What(d)]
    BY <1>2, WhatIsAPair DEF IInv, TypeOK
  <2> QED BY <2>1, <1>2, <1>3, LocalIsKept DEF IInv
<1>5. FirstIsAnnounced'
  BY <1>2 DEF IInv, FirstIsAnnounced
<1> QED BY <1>3, <1>4, <1>5 DEF IInv

LEMMA AwaitBotIdKeeps == ASSUME NEW d \in Deliveries, IInv, AwaitBotId(d) PROVE IInv'
<1> USE DEF AwaitBotId, CatalogStays, catalogVars, mailVars, recordVars, Goto, GiveUp
<1>1. TypeOK'
  BY DEF IInv, TypeOK
<1>2. \A e \in Deliveries \ {d} : Kept(e)
  BY DEF Kept, IInv, TypeOK
<1>3. Local(d)'
  <2>1. /\ todo' = todo
        /\ pc'[d] = "failed" \/ (pc'[d] \in {"cached", "source"} /\ Current(d) \in Media)
    BY DEF IInv, TypeOK, Local, InHandIsMedia
  <2> QED BY <2>1, SameAssetIsLocal DEF InHand
<1> QED BY <1>1, <1>2, <1>3, QuietStepKeeps
\* Cached or not, the asset was received before.
LEMMA WriteCacheKeeps == ASSUME NEW d \in Deliveries, IInv, WriteCache(d) PROVE IInv'
<1> USE DEF WriteCache, catalogVars, mailVars, recordVars, CacheWriteFails
<1> DEFINE c == Current(d)
<1>1. pc[d] = "cache" /\ Sent(d)
  OBVIOUS
<1>2. c \in todo[d] /\ c \in Assets
  BY <1>1, InHandHasCurrent DEF InHand
<1>3. /\ pc'[d] = "asset" /\ todo'[d] = todo[d] \ {c}
      /\ \A e \in Deliveries \ {d} : pc'[e] = pc[e] /\ todo'[e] = todo[e]
  BY <1>1 DEF Sent, Goto, IInv, TypeOK
<1>4. c \in Media
  BY <1>1 DEF IInv, Local, InHandIsMedia
<1>5. TypeOK'
  <2>1. todo' \in [Deliveries -> SUBSET Assets]
    BY <1>1, TodoIsTyped
  <2>2. failures' \in Nat
    BY ErrorIsCounted DEF IInv, TypeOK
  <2>3. cached' \subseteq Media
    BY <1>4 DEF IInv, TypeOK
  <2> QED BY <2>1, <2>2, <2>3, <1>1 DEF IInv, TypeOK, Sent, Goto
<1>6. \A e \in Deliveries \ {d} : Kept(e)
  BY <1>3 DEF Kept
<1>7. Local(d)'
  <2> HIDE DEF c
  <2>1. /\ entitled[d] /\ todo[d] \subseteq listed[d]
        /\ copies[d][c] > 0
        /\ \A a \in listed[d] \ todo[d] : copies[d][a] > 0
        /\ \A a \in todo[d] \ {c} : copies[d][a] <= unsure[d][a]
    BY <1>1 DEF IInv, Local, DecisionHolds, SentOrTodo, TodoIsUnsure, Sending, InHand, c
  <2>2. DecisionHolds(d)'
    BY <1>3, <2>1 DEF DecisionHolds, Sending, InHand
  <2>3. SentOrTodo(d)'
    BY <1>3, <2>1 DEF SentOrTodo, Sending, InHand
  <2>4. TodoIsUnsure(d)'
    BY <1>3, <2>1 DEF IInv, Local, TodoIsUnsure, InHand
  <2>5. BeforeIsTrue(d)' /\ InHandIsMedia(d)'
    BY <1>3 DEF BeforeIsTrue, InHandIsMedia
  <2> QED BY <2>2, <2>3, <2>4, <2>5 DEF Local
<1> QED BY <1>5, <1>6, <1>7, QuietStepKeeps

-----------------------------------------------------------------------------
(* The record *)

LEMMA LookBackKeeps == ASSUME NEW d \in Deliveries, IInv, LookBack(d) PROVE IInv'
<1> USE DEF LookBack, CatalogStays, catalogVars, deliveryVars, mailVars, Goto
<1>1. TypeOK'
  BY DEF IInv, TypeOK
<1>2. \A e \in Deliveries \ {d} : Kept(e)
  BY DEF Kept, IInv, TypeOK
<1>3. Local(d)'
  <2>1. /\ pc[d] = "asset" /\ pc'[d] = "record" /\ todo[d] = {}
        /\ before'[d] = (delivered[What(d)] > 0) /\ What(d)' = What(d)
    BY DEF IInv, TypeOK, What
  <2> QED BY <2>1 DEF IInv, Local, DecisionHolds, SentOrTodo, TodoIsUnsure, BeforeIsTrue,
                      InHandIsMedia, Sending, InHand
<1> QED BY <1>1, <1>2, <1>3, QuietStepKeeps

\* A delivery that is not the first found one on record, and that one was announced.
LEMMA RecordKeeps == ASSUME NEW d \in Deliveries, IInv, Record(d) PROVE IInv'
<1> USE DEF Record, CatalogStays, catalogVars, deliveryVars, mailVars
<1> DEFINE w == What(d)
<1>1. w \in Users \X Drops
  BY WhatIsAPair
<1>2. /\ delivered'[w] = delivered[w] + 1
      /\ announced'[w] = IF ~before[d] THEN announced[w] + 1 ELSE announced[w]
      /\ \A v \in (Users \X Drops) \ {w} :
           delivered'[v] = delivered[v] /\ announced'[v] = announced[v]
      /\ delivered' \in [Users \X Drops -> Nat] /\ announced' \in [Users \X Drops -> Nat]
  BY <1>1 DEF IInv, TypeOK, IsFirst
<1>3. failures' \in Nat
  BY ErrorIsCounted DEF IInv, TypeOK
<1>4. TypeOK'
  BY <1>2, <1>3 DEF IInv, TypeOK, Goto
<1>5. \A e \in Deliveries \ {d} : Kept(e)
  BY DEF Kept, IInv, TypeOK, Goto
<1>6. \A v \in Users \X Drops : delivered'[v] >= delivered[v]
  BY <1>2 DEF IInv, TypeOK
<1>7. Local(d)'
  <2>1. pc'[d] \in {"done", "failed"} /\ pc[d] = "record"
    BY DEF IInv, TypeOK, Goto
  <2> QED BY <2>1 DEF IInv, Local, DecisionHolds, SentOrTodo, TodoIsUnsure, BeforeIsTrue,
                      InHandIsMedia, Sending, InHand
<1>8. FirstIsAnnounced'
  <2>1. before[d] => delivered[w] > 0
    BY DEF IInv, Local, BeforeIsTrue
  <2>2. announced[w] \in Nat /\ (delivered[w] > 0 => announced[w] > 0)
    BY <1>1 DEF IInv, TypeOK, FirstIsAnnounced
  <2>3. announced'[w] > 0
    BY <1>2, <2>1, <2>2
  <2> HIDE DEF w
  <2> QED BY <1>2, <2>3 DEF IInv, FirstIsAnnounced
<1> QED BY <1>4, <1>5, <1>6, <1>7, <1>8, StepKeepsOthers

-----------------------------------------------------------------------------
(* Failures *)

\* A delivery that ends with an error leaves no obligation behind but that
\* what the user received he was entitled to.
LEMMA FailedIsLocal ==
  ASSUME NEW d \in Deliveries, IInv, pc'[d] = "failed", UNCHANGED <<deliveryVars, mailVars>>
  PROVE  Local(d)'
  BY DEF IInv, Local, DecisionHolds, SentOrTodo, TodoIsUnsure, BeforeIsTrue, InHandIsMedia,
         Sending, InHand, deliveryVars, mailVars

LEMMA ThrowKeeps == ASSUME NEW d \in Deliveries, IInv, Throw(d) PROVE IInv'
<1> USE DEF Throw, CatalogStays, catalogVars, deliveryVars, mailVars, recordVars, Goto
<1>1. TypeOK'
  BY ErrorIsCounted DEF IInv, TypeOK
<1>2. \A e \in Deliveries \ {d} : Kept(e)
  BY DEF Kept, IInv, TypeOK
<1>3. Local(d)'
  <2>1. pc'[d] = "failed"
    BY DEF IInv, TypeOK
  <2> QED BY <2>1, FailedIsLocal
<1> QED BY <1>1, <1>2, <1>3, QuietStepKeeps

LEMMA CrashKeeps == ASSUME NEW p \in Replicas, IInv, Crash(p) PROVE IInv'
<1> USE DEF Crash, CatalogStays, catalogVars
<1>1. UNCHANGED <<deliveryVars, mailVars, recordVars>> /\ published' = published
  OBVIOUS
<1>2. TypeOK'
  BY BoundAssumption DEF IInv, TypeOK, deliveryVars, mailVars, recordVars
<1>3. ASSUME NEW d \in Deliveries PROVE Local(d)'
  <2>1. CASE pc'[d] = "failed"
    BY <2>1, <1>1, FailedIsLocal
  <2>2. CASE pc'[d] = pc[d]
    <3>1. delivered'[What(d)] >= delivered[What(d)]
      BY <1>1, WhatIsAPair DEF IInv, TypeOK, recordVars
    <3> QED BY <2>2, <3>1, <1>1, <1>2, LocalIsKept DEF IInv, deliveryVars, mailVars, recordVars
  <2> QED BY <2>1, <2>2
<1>4. FirstIsAnnounced'
  BY <1>1 DEF IInv, FirstIsAnnounced, recordVars
<1> QED BY <1>2, <1>3, <1>4 DEF IInv

-----------------------------------------------------------------------------

LEMMA StepKeeps == IInv /\ [Next]_vars => IInv'
<1> SUFFICES ASSUME IInv, [Next]_vars PROVE IInv'
  OBVIOUS
<1>1. ASSUME NEW d \in Deliveries, Step(d) PROVE IInv'
  BY <1>1, ReadDropKeeps, DecideKeeps, ListAssetsKeeps, ResolveKeeps, SendTextKeeps, BotIdKeeps,
     AwaitBotIdKeeps, SendCachedKeeps, SendSourceKeeps, WriteCacheKeeps, LookBackKeeps, RecordKeeps
     DEF Step
<1>2. ASSUME NEW d \in Deliveries, Ask(d) \/ Throw(d) PROVE IInv'
  BY <1>2, AskKeeps, ThrowKeeps
<1>3. ASSUME NEW p \in Replicas, BotIdSettles(p) \/ Crash(p) PROVE IInv'
  BY <1>3, BotIdKeeps, CrashKeeps
<1>4. ASSUME NEW u \in Users, Subscribe(u) \/ SweepExpires(u) PROVE IInv'
  BY <1>4, SubscribeKeeps, SweepExpiresKeeps
<1>5. CASE UNCHANGED vars
  <2> USE <1>5 DEF vars, catalogVars, deliveryVars, mailVars, recordVars
  <2>1. TypeOK'
    BY DEF IInv, TypeOK
  <2>2. ASSUME NEW d \in Deliveries PROVE Local(d)'
    <3>1. delivered'[What(d)] >= delivered[What(d)]
      BY WhatIsAPair DEF IInv, TypeOK
    <3> QED BY <3>1, <2>1, LocalIsKept DEF IInv
  <2>3. FirstIsAnnounced'
    BY DEF IInv, FirstIsAnnounced
  <2> QED BY <2>1, <2>2, <2>3 DEF IInv
<1> QED BY <1>1, <1>2, <1>3, <1>4, <1>5, AddAssetKeeps, PublishKeeps, GrantKeeps, TimeKeeps,
           SweepListsKeeps
        DEF Next

LEMMA Invariance == Spec => []IInv
  BY InitEstablishes, StepKeeps, PTL DEF Spec

\* Every variable keeps its type.
THEOREM TypeCorrect == Spec => []TypeOK
<1>1. IInv => TypeOK
  BY DEF IInv
<1> QED BY <1>1, Invariance, PTL

\* Content reaches only who was entitled to it when access was decided,
\* whatever the sweep, the clock and the creator did between the reads.
THEOREM NobodyElseReceives == Spec => []OnlyEntitledReceive
<1>1. IInv => OnlyEntitledReceive
  BY DEF IInv, Local, DecisionHolds, OnlyEntitledReceive
<1> QED BY <1>1, Invariance, PTL

\* What is on record as delivered was received, to the last asset.
THEOREM TheRecordIsTrue == Spec => []RecordedIsReceived
<1>1. IInv => RecordedIsReceived
  BY DEF IInv, Local, SentOrTodo, Sending, RecordedIsReceived
<1> QED BY <1>1, Invariance, PTL

\* Within a delivery only a lost answer of Telegram makes a user receive an
\* asset again.
THEOREM NothingIsSentAgain == Spec => []SentTwiceIsUnsure
<1>1. IInv => SentTwiceIsUnsure
  BY DEF IInv, Local, TodoIsUnsure, SentTwiceIsUnsure
<1> QED BY <1>1, Invariance, PTL

\* However deliveries of one drop to one user overlap, one of them announces it.
THEOREM AnnouncedOnDelivery == Spec => []FirstIsAnnounced
<1>1. IInv => FirstIsAnnounced
  BY DEF IInv
<1> QED BY <1>1, Invariance, PTL
=============================================================================

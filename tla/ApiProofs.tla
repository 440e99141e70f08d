----------------------------- MODULE ApiProofs -----------------------------
(***************************************************************************)
(* Accounts, sessions and uploaded media stay right for any calls,         *)
(* creators, emails, slugs, drops and failures.  The argument: a row that  *)
(* is inserted and not committed holds its name, a principal has an        *)
(* account, a session that ended stays over, and the bytes of an upload    *)
(* stay where it stored them.                                              *)
(***************************************************************************)
EXTENDS Api, TLAPS

\* What a request has, by what it asks.
Typed(q) ==
  /\ q.op \in {"register", "login"} => q.email \in Emails
  /\ q.op = "register" => q.slug \in Slugs \union {NoSlug}
  /\ q.op \notin Public => q.token \in 1..issued
  /\ q.op = "profile" => q.slug \in Slugs
  /\ q.op \in {"upload", "publish"} => q.drop \in Drops
  /\ q.op = "upload" => q.file \in Files /\ q.position \in Positions

Ops == {"register", "login", "logout", "complete", "createDrop", "createPlan", "profile",
        "upload", "publish"}

\* The steps of a call after its first.
Later == {<<"register", "creator">>, <<"register", "identity">>, <<"register", "commit">>,
          <<"login", "issue">>, <<"profile", "update">>, <<"complete", "mark">>,
          <<"upload", "store">>, <<"upload", "add">>, <<"publish", "release">>}

\* Where a call is fits what it asks, and past the session it has a principal.
StageFits(r) ==
  \/ pc[r] = "unsent" /\ call[r] = Nothing /\ answer[r] = "none" /\ who[r] = NoCreator
  \/ /\ call[r].op \in Ops /\ Typed(call[r])
     /\ \/ pc[r] = "done" /\ answer[r] # "none"
        \/ /\ pc[r] = "authenticate" /\ answer[r] = "none"
           /\ call[r].op \notin Public /\ who[r] = NoCreator
        \/ /\ pc[r] = call[r].op \/ <<call[r].op, pc[r]>> \in Later
           /\ answer[r] = "none"
           /\ call[r].op \notin Public => who[r] \in Creators

\* A call whose session had ended waits to be refused, and the session stays over.
StaleStays(r) ==
  r \in stale => /\ pc[r] \in {"authenticate", "done"} /\ call[r].op \notin Public
                 /\ session[call[r].token] = NoCreator

Inserted(r) == pc[r] \in {"identity", "commit"}

\* Nobody has the name or the email of a row that is inserted and not committed.
NamesAreHeld ==
  /\ \A r \in Calls : Inserted(r) => ~HasSlug(call[r].slug)
  /\ \A r \in Calls : pc[r] = "commit" => ~HasEmail(call[r].email)
  /\ \A r, s \in Calls : r # s =>
       /\ Inserted(r) /\ Inserted(s) /\ call[r].slug # NoSlug => call[r].slug # call[s].slug
       /\ pc[r] = "commit" /\ pc[s] = "commit" => call[r].email # call[s].email

\* A principal has an account, and one about to finish onboarding has a slug.
Principals(r) ==
  /\ who[r] # NoCreator => emailOf[who[r]] # NoEmail
  /\ pc[r] = "mark" => slugOf[who[r]] # NoSlug

\* An upload under way is of its owner, its bytes are where it stored them, and
\* its asset comes last.
UploadsAreHeld ==
  /\ \A r \in Calls : pc[r] \in {"store", "add"} => Owned(r)
  /\ \A r \in Calls : pc[r] = "add" => bytes[Path(r)] = r
  /\ \A o \in Objects : bytes[o] # NoCall => pc[bytes[o]] \in {"add", "done"}
  /\ \A a \in assets : pc[a.from] = "done"
  /\ \A r \in Calls : pc[r] = "release" => HasAssets(call[r].drop)

CallsInv == \A r \in Calls : StageFits(r) /\ StaleStays(r) /\ Principals(r)

IInv == CallsInv /\ AccountsAreWhole /\ NamesAreHeld /\ SessionsEnd /\ ContentIsAccounted /\ UploadsAreHeld


\* The parts of AccountsAreWhole.
OneOfEach ==
  \A c, d \in Creators : c # d =>
    /\ emailOf[c] # NoEmail => emailOf[c] # emailOf[d]
    /\ slugOf[c] # NoSlug => slugOf[c] # slugOf[d]
NothingWithoutAccount ==
  \A c \in Creators : emailOf[c] = NoEmail =>
    slugOf[c] = NoSlug /\ c \notin onboarded /\ \A t \in Tokens : session[t] # c
ToldIsRegistered ==
  \A r \in Calls : call[r].op = "register" /\ answer[r] = "ok" => HasEmail(call[r].email)
OnboardedHasSlug == \A c \in onboarded : slugOf[c] # NoSlug

LEMMA AccountsParts ==
  AccountsAreWhole <=> /\ TypeOK /\ OneOfEach /\ NothingWithoutAccount
                       /\ ToldIsRegistered /\ OnboardedHasSlug
  BY Zenon DEF AccountsAreWhole, OneOfEach, NothingWithoutAccount, ToldIsRegistered,
               OnboardedHasSlug

-----------------------------------------------------------------------------
(* What a step may do *)

\* To the rows that calls rely on.
Grows ==
  /\ issued' \in Tokens /\ issued' >= issued
  /\ \A t \in 1..issued : session[t] = NoCreator => session'[t] = NoCreator
  /\ \A c \in Creators : emailOf[c] # NoEmail =>
       /\ emailOf'[c] = emailOf[c]
       /\ slugOf[c] # NoSlug => slugOf'[c] # NoSlug
  /\ \A d \in Drops : ownerOf[d] # NoCreator => ownerOf'[d] = ownerOf[d]
  /\ \A o \in Objects : bytes[o] # NoCall => bytes'[o] = bytes[o]
  /\ assets \subseteq assets'

\* To the calls that do not take it.
Others(r) ==
  \A s \in Calls : s # r => /\ pc'[s] = pc[s] /\ call'[s] = call[s] /\ who'[s] = who[s]
                            /\ answer'[s] = answer[s] /\ (s \in stale' <=> s \in stale)

\* A call past its session.
Active(r) == pc[r] \notin {"unsent", "done", "authenticate"}

LEMMA WhereActive ==
  ASSUME CallsInv, NEW r \in Calls, Active(r)
  PROVE  /\ answer[r] = "none" /\ r \notin stale
         /\ call[r].op \in Ops /\ Typed(call[r])
         /\ call[r].op \notin Public => who[r] \in Creators
         /\ pc[r] = call[r].op \/ <<call[r].op, pc[r]>> \in Later
<1>1. StageFits(r) /\ StaleStays(r)
  BY DEF CallsInv
<1> QED BY <1>1 DEF StageFits, StaleStays, Active

\* What a call asks, by where it is.
LEMMA OpOf ==
  ASSUME CallsInv, NEW r \in Calls
  PROVE  /\ pc[r] \in {"register", "creator", "identity", "commit"} => call[r].op = "register"
         /\ pc[r] \in {"login", "issue"} => call[r].op = "login"
         /\ pc[r] \in {"profile", "update"} => call[r].op = "profile"
         /\ pc[r] \in {"complete", "mark"} => call[r].op = "complete"
         /\ pc[r] \in {"upload", "store", "add"} => call[r].op = "upload"
         /\ pc[r] \in {"publish", "release"} => call[r].op = "publish"
         /\ pc[r] \in {"logout", "createDrop", "createPlan"} => call[r].op = pc[r]
<1>1. StageFits(r)
  BY DEF CallsInv
<1> QED BY <1>1 DEF StageFits, Later, Ops

\* A call keeps what is known of it while others move.
LEMMA OthersKeep ==
  ASSUME IInv, NEW r \in Calls, Grows, Others(r)
  PROVE  \A s \in Calls : s # r => StageFits(s)' /\ StaleStays(s)' /\ Principals(s)'
<1> TAKE s \in Calls
<1> HAVE s # r
<1>1. /\ pc'[s] = pc[s] /\ call'[s] = call[s] /\ who'[s] = who[s]
      /\ answer'[s] = answer[s] /\ (s \in stale' <=> s \in stale)
  BY DEF Others
<1>2. StageFits(s) /\ StaleStays(s) /\ Principals(s) /\ TypeOK
  BY DEF IInv, CallsInv, AccountsAreWhole
<1>3. issued \in Nat /\ issued' \in Nat /\ issued' >= issued
  BY <1>2, BoundAssumption DEF Grows, TypeOK, Tokens
<1>4. Typed(call[s]) => Typed(call[s])'
  BY <1>1, <1>3 DEF Typed
<1>5. StageFits(s)'
  BY <1>1, <1>2, <1>4 DEF StageFits
<1>6. StaleStays(s)'
  <2> SUFFICES ASSUME s \in stale PROVE StaleStays(s)'
    BY <1>1 DEF StaleStays
  <2>1. /\ pc[s] \in {"authenticate", "done"} /\ call[s].op \notin Public
        /\ session[call[s].token] = NoCreator
    BY <1>2 DEF StaleStays
  <2>2. call[s].token \in 1..issued
    BY <1>2, <2>1 DEF StageFits, Typed
  <2>3. session'[call[s].token] = NoCreator
    BY <2>1, <2>2 DEF Grows
  <2> QED BY <1>1, <2>1, <2>3 DEF StaleStays
<1>7. Principals(s)'
  <2>1. who[s] \in Creators \union {NoCreator}
    BY <1>2 DEF TypeOK
  <2>2. pc[s] = "mark" => who[s] \in Creators /\ who[s] # NoCreator
    BY <1>2, OpOf, WhereActive, NobodyAssumption DEF IInv, Active, Public
  <2> QED BY <1>1, <1>2, <2>1, <2>2 DEF Principals, Grows
<1> QED BY <1>5, <1>6, <1>7

\* A step that leaves the rows alone.
LEMMA SameRowsGrow ==
  ASSUME IInv, UNCHANGED rowVars
  PROVE  Grows
<1>1. issued \in Tokens /\ issued \in Nat
  BY BoundAssumption DEF IInv, AccountsAreWhole, TypeOK, Tokens
<1> QED BY <1>1 DEF Grows, rowVars, accountVars, sessionVars, contentVars

-----------------------------------------------------------------------------
(* What keeps each part of the invariant *)

LEMMA CallsKept ==
  ASSUME IInv, NEW r \in Calls, Grows, Others(r),
         StageFits(r)', StaleStays(r)', Principals(r)'
  PROVE  CallsInv'
BY OthersKeep DEF CallsInv

LEMMA AccountsKept ==
  ASSUME IInv, NEW r \in Calls, Others(r), TypeOK', UNCHANGED accountVars,
         \A t \in Tokens : session'[t] \in {session[t], NoCreator},
         call'[r].op = "register" => answer'[r] # "ok"
  PROVE  AccountsAreWhole'
<1>1. /\ OneOfEach /\ NothingWithoutAccount /\ ToldIsRegistered /\ OnboardedHasSlug
      /\ UNCHANGED <<emailOf, slugOf, onboarded>>
  BY AccountsParts DEF IInv, accountVars
<1>2. OneOfEach' /\ OnboardedHasSlug'
  BY <1>1 DEF OneOfEach, OnboardedHasSlug
<1>3. NothingWithoutAccount'
  BY <1>1, NobodyAssumption DEF NothingWithoutAccount
<1>4. ToldIsRegistered'
  BY <1>1 DEF ToldIsRegistered, Others, HasEmail
<1> QED BY <1>2, <1>3, <1>4, Zenon DEF AccountsAreWhole, OneOfEach, NothingWithoutAccount,
                                       ToldIsRegistered, OnboardedHasSlug

LEMMA NamesKept ==
  ASSUME IInv, NEW r \in Calls, Others(r), UNCHANGED accountVars, ~Inserted(r)'
  PROVE  NamesAreHeld'
<1>1. UNCHANGED <<emailOf, slugOf>> /\ NamesAreHeld
  BY DEF IInv, accountVars
<1>2. \A s \in Calls : Inserted(s)' => s # r /\ Inserted(s) /\ call'[s] = call[s]
  BY DEF Others, Inserted
<1>3. \A s \in Calls : pc'[s] = "commit" => s # r /\ pc[s] = "commit" /\ call'[s] = call[s]
  BY DEF Others, Inserted
<1>4. \A x : (HasSlug(x)' <=> HasSlug(x)) /\ (HasEmail(x)' <=> HasEmail(x))
  BY <1>1 DEF HasSlug, HasEmail
<1> QED BY <1>1, <1>2, <1>3, <1>4 DEF NamesAreHeld

LEMMA SessionsKept ==
  ASSUME IInv, NEW r \in Calls, Others(r),
         r \in stale' => who'[r] = NoCreator /\ answer'[r] # "ok",
         TypeOK'
  PROVE  SessionsEnd'
<1>1. stale' \subseteq Calls
  BY DEF TypeOK
<1> QED BY <1>1 DEF IInv, SessionsEnd, Others

LEMMA UploadsKept ==
  ASSUME IInv, NEW r \in Calls, Grows, Others(r), UNCHANGED <<bytes, assets>>,
         pc'[r] \notin {"store", "add", "release"},
         pc[r] # "done", pc[r] = "add" => pc'[r] = "done"
  PROVE  UploadsAreHeld'
<1>1. UploadsAreHeld /\ CallsInv
  BY DEF IInv
<1>2. ASSUME NEW s \in Calls, pc'[s] \in {"store", "add", "release"}
      PROVE  s # r /\ pc'[s] = pc[s] /\ call'[s] = call[s] /\ who'[s] = who[s]
             /\ Path(s)' = Path(s)
  BY <1>2 DEF Others, Path
<1>3. ASSUME NEW s \in Calls, pc'[s] \in {"store", "add"} PROVE Owned(s)'
  <2>1. Owned(s) /\ pc[s] \in {"store", "add"}
    BY <1>1, <1>2, <1>3 DEF UploadsAreHeld
  <2>2. call[s].drop \in Drops /\ who[s] \in Creators
    BY <1>1, <2>1, WhereActive, OpOf DEF Active, Typed, Public
  <2> QED BY <1>2, <1>3, <2>1, <2>2, NobodyAssumption DEF Owned, Grows
<1>4. \A s \in Calls : pc'[s] = "add" => bytes'[Path(s)'] = s
  BY <1>1, <1>2 DEF UploadsAreHeld
<1>5. ASSUME NEW s \in Calls, pc[s] \in {"add", "done"} PROVE pc'[s] \in {"add", "done"}
  BY <1>5 DEF Others
<1>6. \A o \in Objects : bytes'[o] # NoCall => pc'[bytes'[o]] \in {"add", "done"}
  BY <1>1, <1>5 DEF UploadsAreHeld, IInv, AccountsAreWhole, TypeOK
<1>7. \A a \in assets' : pc'[a.from] = "done"
  BY <1>1 DEF UploadsAreHeld, Others, IInv, AccountsAreWhole, TypeOK
<1>8. \A s \in Calls : pc'[s] = "release" => HasAssets(call[s].drop)'
  BY <1>1, <1>2 DEF UploadsAreHeld, HasAssets
<1> QED BY <1>3, <1>4, <1>6, <1>7, <1>8 DEF UploadsAreHeld

\* What was uploaded stays explained while another call moves.
LEMMA ExplainedStays ==
  ASSUME IInv, NEW r \in Calls, Grows, Others(r), NEW s \in Calls, s # r, Explained(s)
  PROVE  Explained(s)'
<1>1. /\ pc'[s] = pc[s] /\ call'[s] = call[s] /\ who'[s] = who[s] /\ answer'[s] = answer[s]
  BY DEF Others
<1>2. StageFits(s) /\ TypeOK /\ call[s].op = "upload" /\ who[s] # NoCreator
  BY DEF IInv, CallsInv, AccountsAreWhole, Explained
<1>3. call[s].drop \in Drops /\ who[s] \in Creators
  BY <1>2 DEF StageFits, Typed, Nothing, TypeOK
<1>4. Owned(s)'
  BY <1>1, <1>2, <1>3 DEF Explained, Owned, Grows
<1> QED BY <1>1, <1>4 DEF Explained, At, Grows

LEMMA ContentKept ==
  ASSUME IInv, NEW r \in Calls, Grows, Others(r), UNCHANGED <<bytes, assets, published>>,
         pc[r] # "done",
         pc[r] = "add" => answer'[r] = "internal" /\ UNCHANGED <<call, who>>
  PROVE  ContentIsAccounted'
<1>1. ContentIsAccounted /\ UploadsAreHeld /\ TypeOK
  BY DEF IInv, AccountsAreWhole
<1>2. ASSUME NEW s \in Calls, NEW o \in Objects, bytes[o] = s PROVE Explained(s)'
  <2>1. Explained(s) /\ pc[s] \in {"add", "done"}
    BY <1>1, <1>2, NobodyAssumption DEF ContentIsAccounted, UploadsAreHeld
  <2>2. CASE s # r
    BY <2>1, <2>2, ExplainedStays
  <2>3. CASE s = r
    <3>1. pc[r] = "add" /\ StageFits(r)
      BY <2>1, <2>3 DEF IInv, CallsInv
    <3>2. call[r].op = "upload" /\ who[r] # NoCreator /\ Owned(r)
      BY <2>1, <2>3 DEF Explained
    <3>3. call[r].drop \in Drops /\ who[r] \in Creators
      BY <1>1, <3>1, <3>2 DEF StageFits, Typed, Nothing, TypeOK
    <3>4. Owned(r)'
      BY <3>1, <3>2, <3>3 DEF Owned, Grows
    <3> QED BY <2>3, <3>1, <3>2, <3>4 DEF Explained
  <2> QED BY <2>2, <2>3
<1>3. \A a \in assets : a.from # r /\ call'[a.from] = call[a.from]
  BY <1>1 DEF UploadsAreHeld, Others, TypeOK
<1>4. \A o \in Objects : bytes'[o] # NoCall => Explained(bytes[o])'
  BY <1>1, <1>2 DEF TypeOK, Explained
<1> QED BY <1>1, <1>3, <1>4 DEF ContentIsAccounted, HasAssets

-----------------------------------------------------------------------------
(* Calls that move and leave the rows alone *)

\* A call is answered, whatever it wrote.
LEMMA AnswerMoves ==
  ASSUME IInv, NEW r \in Calls, NEW code \in {"ok", "refused", "internal"},
         pc[r] \notin {"unsent", "done"}, Answer(r, code), Grows
  PROVE  /\ Others(r) /\ CallsInv'
         /\ pc'[r] = "done" /\ answer'[r] = code /\ UNCHANGED <<call, who, stale>>
         /\ DOMAIN pc' = Calls
         /\ answer' \in [Calls -> {"none", "ok", "refused", "internal"}]
<1>0. TypeOK /\ StageFits(r) /\ StaleStays(r) /\ Principals(r)
  BY DEF IInv, AccountsAreWhole, CallsInv
<1>1. /\ pc'[r] = "done" /\ answer'[r] = code /\ UNCHANGED <<call, who, stale>>
      /\ DOMAIN pc' = Calls
      /\ answer' \in [Calls -> {"none", "ok", "refused", "internal"}]
  BY <1>0 DEF Answer, TypeOK
<1>2. Others(r)
  BY <1>0 DEF Others, Answer, TypeOK
<1>3. StageFits(r)'
  <2>1. issued \in Nat /\ issued' \in Nat /\ issued' >= issued
    BY <1>0, BoundAssumption DEF Grows, TypeOK, Tokens
  <2>2. call[r].op \in Ops /\ Typed(call[r])
    BY <1>0 DEF StageFits
  <2>3. Typed(call[r])'
    BY <1>1, <2>1, <2>2 DEF Typed
  <2> QED BY <1>1, <2>2, <2>3 DEF StageFits
<1>4. StaleStays(r)'
  <2> SUFFICES ASSUME r \in stale PROVE StaleStays(r)'
    BY <1>1 DEF StaleStays
  <2>1. call[r].token \in 1..issued
    BY <1>0 DEF StaleStays, StageFits, Typed
  <2> QED BY <1>0, <1>1, <2>1 DEF StaleStays, Grows
<1>5. Principals(r)'
  <2>1. who[r] \in Creators \union {NoCreator}
    BY <1>0 DEF TypeOK
  <2> QED BY <1>0, <1>1, <2>1 DEF Principals, Grows
<1> QED BY <1>1, <1>2, <1>3, <1>4, <1>5, CallsKept

LEMMA RefusalKeeps ==
  ASSUME IInv, NEW r \in Calls, NEW code \in {"ok", "refused", "internal"},
         pc[r] \notin {"unsent", "done"}, Answer(r, code), UNCHANGED rowVars,
         failures' \in 0..MaxFailures, pc[r] = "add" => code = "internal",
         code = "ok" => call[r].op # "register" /\ r \notin stale
  PROVE  IInv'
<1>1. Grows
  BY SameRowsGrow
<1>2. /\ Others(r) /\ CallsInv'
      /\ pc'[r] = "done" /\ answer'[r] = code /\ UNCHANGED <<call, who, stale>>
      /\ DOMAIN pc' = Calls
      /\ answer' \in [Calls -> {"none", "ok", "refused", "internal"}]
  BY <1>1, AnswerMoves
<1>3. TypeOK'
  BY <1>2 DEF IInv, AccountsAreWhole, TypeOK, rowVars, accountVars, sessionVars, contentVars
<1>4. /\ UNCHANGED <<bytes, assets, published, session>> /\ UNCHANGED accountVars
  BY DEF rowVars, sessionVars, contentVars
<1>5. AccountsAreWhole'
  BY <1>2, <1>3, <1>4, AccountsKept
<1>6. NamesAreHeld'
  BY <1>2, <1>4, NamesKept DEF Inserted
<1>7. SessionsEnd'
  <2>1. r \in stale' => who'[r] = NoCreator /\ answer'[r] # "ok"
    BY <1>2 DEF IInv, SessionsEnd
  <2> QED BY <1>2, <1>3, <2>1, SessionsKept
<1>8. UploadsAreHeld'
  BY <1>1, <1>2, <1>4, UploadsKept
<1>9. ContentIsAccounted'
  <2>1. answer[r] = "none"
    BY DEF IInv, CallsInv, StageFits
  <2> QED BY <1>1, <1>2, <1>4, <2>1, ContentKept
<1> QED BY <1>2, <1>5, <1>6, <1>7, <1>8, <1>9 DEF IInv

\* What a later step of a call relies on from the step before it.
Relies(r, where) ==
  /\ where \in {"identity", "commit"} =>
       /\ ~HasSlug(call[r].slug)
       /\ pc[r] = "identity" \/ InsertedSlug(call[r].slug) = {}
  /\ where = "commit" => ~HasEmail(call[r].email) /\ InsertedEmail(call[r].email) = {}
  /\ where = "mark" => slugOf[who[r]] # NoSlug
  /\ where = "store" => Owned(r)
  /\ where = "release" => HasAssets(call[r].drop)

\* A call goes on to a later step of its own, with what that step relies on.
LEMMA ProceedKeeps ==
  ASSUME IInv, NEW r \in Calls, NEW where, Active(r), Proceed(r, where),
         pc[r] # "add", <<call[r].op, where>> \in Later, where # "add", Relies(r, where)
  PROVE  IInv'
<1>r. /\ where \in {"identity", "commit"} =>
           /\ ~HasSlug(call[r].slug)
           /\ pc[r] = "identity" \/ InsertedSlug(call[r].slug) = {}
      /\ where = "commit" => ~HasEmail(call[r].email) /\ InsertedEmail(call[r].email) = {}
      /\ where = "mark" => slugOf[who[r]] # NoSlug
      /\ where = "store" => Owned(r)
      /\ where = "release" => HasAssets(call[r].drop)
  BY DEF Relies
<1>1. Grows /\ UNCHANGED rowVars
  BY SameRowsGrow DEF Proceed
<1>0. TypeOK /\ StageFits(r) /\ Principals(r) /\ r \notin stale
  BY WhereActive DEF IInv, AccountsAreWhole, CallsInv
<1>2. /\ pc'[r] = where /\ UNCHANGED <<call, who, stale, answer, failures>>
      /\ DOMAIN pc' = Calls
  BY <1>0 DEF Proceed, Goto, TypeOK
<1>3. Others(r)
  BY <1>0 DEF Others, Proceed, Goto, TypeOK
<1>4. TypeOK'
  BY <1>0, <1>1, <1>2 DEF TypeOK, rowVars, accountVars, sessionVars, contentVars
<1>5. /\ UNCHANGED <<bytes, assets, published, session, issued, ownerOf>>
      /\ UNCHANGED accountVars /\ UNCHANGED <<emailOf, slugOf>>
  BY <1>1 DEF rowVars, sessionVars, contentVars, accountVars
<1>6. answer[r] = "none" /\ call[r].op \in Ops /\ Typed(call[r])
      /\ (call[r].op \notin Public => who[r] \in Creators)
  BY WhereActive DEF IInv
<1>7. CallsInv'
  <2>1. StageFits(r)'
    <3>1. Typed(call[r])'
      BY <1>2, <1>5, <1>6 DEF Typed
    <3> QED BY <1>2, <1>6, <3>1 DEF StageFits
  <2>2. StaleStays(r)'
    BY <1>0, <1>2 DEF StaleStays
  <2>3. Principals(r)'
    BY <1>r, <1>0, <1>2, <1>5 DEF Principals
  <2> QED BY <1>1, <1>3, <2>1, <2>2, <2>3, CallsKept
<1>8. AccountsAreWhole'
  BY <1>2, <1>3, <1>4, <1>5, <1>6, AccountsKept
<1>9. NamesAreHeld'
  <2>1. CASE where \notin {"identity", "commit"}
    BY <1>2, <1>3, <1>5, <2>1, NamesKept DEF Inserted
  <2>2. CASE where \in {"identity", "commit"}
    <3>1. NamesAreHeld
      BY DEF IInv
    <3>2. \A s \in Calls : /\ Inserted(s)' => s = r \/ Inserted(s)
                           /\ pc'[s] = "commit" => s = r \/ pc[s] = "commit"
      BY <1>3 DEF Others, Inserted
    <3>3. \A x : (HasSlug(x)' <=> HasSlug(x)) /\ (HasEmail(x)' <=> HasEmail(x))
      BY <1>5 DEF HasSlug, HasEmail
    <3>4. \A s \in Calls : s # r /\ Inserted(s) /\ call[r].slug # NoSlug =>
            call[s].slug # call[r].slug
      <4>1. CASE pc[r] = "identity"
        BY <3>1, <4>1 DEF NamesAreHeld, Inserted
      <4>2. CASE InsertedSlug(call[r].slug) = {}
        BY <4>2 DEF InsertedSlug, Inserted
      <4> QED BY <1>r, <2>2, <4>1, <4>2
    <3>5. where = "commit" =>
            \A s \in Calls : pc[s] = "commit" => call[s].email # call[r].email
      BY <1>r DEF InsertedEmail, At
    <3>6. \A s \in Calls : Inserted(s)' => ~HasSlug(call[s].slug)'
      BY <1>r, <1>2, <2>2, <3>1, <3>2, <3>3 DEF NamesAreHeld
    <3>7. \A s \in Calls : pc'[s] = "commit" => ~HasEmail(call[s].email)'
      BY <1>r, <1>2, <3>1, <3>2, <3>3 DEF NamesAreHeld
    <3>8. \A s, u \in Calls : s # u =>
            /\ Inserted(s)' /\ Inserted(u)' /\ call'[s].slug # NoSlug =>
                 call'[s].slug # call'[u].slug
            /\ pc'[s] = "commit" /\ pc'[u] = "commit" => call'[s].email # call'[u].email
      BY <1>2, <2>2, <3>1, <3>2, <3>4, <3>5 DEF NamesAreHeld
    <3> QED BY <3>6, <3>7, <3>8 DEF NamesAreHeld
  <2> QED BY <2>1, <2>2
<1>10. SessionsEnd'
  BY <1>0, <1>2, <1>3, <1>4, SessionsKept
<1>11. UploadsAreHeld'
  <2>1. CASE where \notin {"store", "release"}
    BY <1>1, <1>2, <1>3, <1>5, <2>1, UploadsKept DEF Active
  <2>2. CASE where \in {"store", "release"}
    <3>1. UploadsAreHeld
      BY DEF IInv
    <3>2. \A s \in Calls : s # r => pc'[s] = pc[s]
      BY <1>3 DEF Others
    <3>3. /\ \A s \in Calls : /\ Path(s)' = Path(s) /\ (Owned(s)' <=> Owned(s))
                              /\ HasAssets(call[s].drop)' <=> HasAssets(call[s].drop)
      BY <1>2, <1>5 DEF Path, Owned, HasAssets
    <3>4. \A s \in Calls : pc[s] \in {"add", "done"} => s # r /\ pc'[s] = pc[s]
      BY <3>2 DEF Active
    <3>5. \A s \in Calls : pc'[s] \in {"store", "add"} => Owned(s)'
      BY <1>r, <1>2, <2>2, <3>1, <3>2, <3>3 DEF UploadsAreHeld
    <3>6. \A s \in Calls : pc'[s] = "add" => bytes'[Path(s)'] = s
      BY <1>2, <1>5, <3>1, <3>2, <3>3 DEF UploadsAreHeld
    <3>7. \A o \in Objects : bytes'[o] # NoCall => pc'[bytes'[o]] \in {"add", "done"}
      BY <1>0, <1>5, <3>1, <3>4 DEF UploadsAreHeld, TypeOK
    <3>8. \A a \in assets' : pc'[a.from] = "done"
      BY <1>0, <1>5, <3>1, <3>4 DEF UploadsAreHeld, TypeOK
    <3>9. \A s \in Calls : pc'[s] = "release" => HasAssets(call[s].drop)'
      BY <1>r, <1>2, <2>2, <3>1, <3>2, <3>3 DEF UploadsAreHeld
    <3> QED BY <3>5, <3>6, <3>7, <3>8, <3>9 DEF UploadsAreHeld
  <2> QED BY <2>1, <2>2
<1>12. ContentIsAccounted'
  BY <1>1, <1>3, <1>5, ContentKept DEF Active
<1> QED BY <1>7, <1>8, <1>9, <1>10, <1>11, <1>12 DEF IInv

\* What a client sends has what its operation needs.
LEMMA RequestsTyped == \A q \in Requests : q.op \in Ops /\ Typed(q)
BY DEF Requests, WithToken, Ops, Typed, Public

LEMMA SendKeeps ==
  ASSUME IInv, NEW r \in Calls, NEW q \in Requests, Send(r, q)
  PROVE  IInv'
<1>0. /\ TypeOK /\ pc[r] = "unsent" /\ answer[r] = "none" /\ who[r] = NoCreator
      /\ r \notin stale /\ q.op \in Ops /\ Typed(q)
  <2>1. TypeOK /\ pc[r] = "unsent" /\ StageFits(r) /\ StaleStays(r)
    BY DEF IInv, AccountsAreWhole, CallsInv, Send, At
  <2>2. call[r].op \in Ops => pc[r] # call[r].op /\ <<call[r].op, pc[r]>> \notin Later
    BY <2>1 DEF Ops, Later
  <2>3. answer[r] = "none" /\ who[r] = NoCreator
    BY <2>1, <2>2 DEF StageFits
  <2> QED BY <2>1, <2>3, RequestsTyped DEF StaleStays
<1>1. Grows
  BY SameRowsGrow DEF Send
<1>2. /\ call'[r] = q /\ UNCHANGED <<answer, who, failures>> /\ UNCHANGED rowVars
      /\ pc'[r] = IF q.op \in Public THEN q.op ELSE "authenticate"
      /\ r \in stale' <=> (q.op \notin Public /\ session[q.token] = NoCreator)
      /\ DOMAIN call' = Calls /\ DOMAIN pc' = Calls /\ stale' \subseteq Calls
  BY <1>0 DEF Send, TypeOK
<1>3. Others(r)
  BY <1>0 DEF Others, Send, TypeOK
<1>4. TypeOK'
  BY <1>0, <1>2 DEF TypeOK, rowVars, accountVars, sessionVars, contentVars
<1>5. /\ UNCHANGED <<bytes, assets, published, session, issued, ownerOf>>
      /\ UNCHANGED accountVars
  BY <1>2 DEF rowVars, sessionVars, contentVars
<1>6. pc'[r] \in {"register", "login", "authenticate"}
  BY <1>2 DEF Public
<1>7. CallsInv'
  <2>1. StageFits(r)'
    <3>1. Typed(q)'
      BY <1>0, <1>5 DEF Typed
    <3> QED BY <1>0, <1>2, <3>1 DEF StageFits, Public
  <2>2. StaleStays(r)'
    BY <1>2, <1>5 DEF StaleStays
  <2>3. Principals(r)'
    BY <1>0, <1>2, <1>6 DEF Principals
  <2> QED BY <1>1, <1>3, <2>1, <2>2, <2>3, CallsKept
<1>8. AccountsAreWhole'
  BY <1>0, <1>2, <1>3, <1>4, <1>5, AccountsKept
<1>9. NamesAreHeld'
  BY <1>3, <1>5, <1>6, NamesKept DEF Inserted
<1>10. SessionsEnd'
  BY <1>0, <1>2, <1>3, <1>4, SessionsKept
<1>11. UploadsAreHeld'
  BY <1>0, <1>1, <1>3, <1>5, <1>6, UploadsKept
<1>12. ContentIsAccounted'
  BY <1>0, <1>1, <1>3, <1>5, ContentKept
<1> QED BY <1>7, <1>8, <1>9, <1>10, <1>11, <1>12 DEF IInv

\* A session that counts is one of a creator with an account.
LEMMA AuthenticateKeeps ==
  ASSUME IInv, NEW r \in Calls, Authenticate(r)
  PROVE  IInv'
<1>0. /\ TypeOK /\ pc[r] = "authenticate" /\ answer[r] = "none" /\ who[r] = NoCreator
      /\ call[r].op \in Ops \ Public /\ Typed(call[r])
      /\ StaleStays(r)
  BY DEF IInv, AccountsAreWhole, CallsInv, StageFits, Ops, Later, Authenticate, At
<1>1. CASE Refuse(r)
  BY <1>0, <1>1, RefusalKeeps DEF Refuse, TypeOK
<1>2. CASE ~Refuse(r)
  <2> DEFINE c == session[call[r].token]
  <2>1. /\ c # NoCreator /\ c \in Creators
        /\ who' = [who EXCEPT ![r] = c] /\ pc' = [pc EXCEPT ![r] = call[r].op]
        /\ UNCHANGED <<call, answer, stale, failures>> /\ UNCHANGED rowVars
    <3>1. call[r].token \in Tokens
      <4>1. call[r].token \in 1..issued /\ issued \in Nat /\ issued <= MaxTokens
        BY <1>0, BoundAssumption DEF Typed, TypeOK, Tokens
      <4> QED BY <4>1, BoundAssumption DEF Tokens
    <3>2. c \in Creators \union {NoCreator}
      BY <1>0, <3>1 DEF TypeOK
    <3> QED BY <1>2, <3>2 DEF Authenticate, Principal
  <2>2. emailOf[c] # NoEmail
    <3>1. call[r].token \in Tokens
      <4>1. call[r].token \in 1..issued /\ issued \in Nat /\ issued <= MaxTokens
        BY <1>0, BoundAssumption DEF Typed, TypeOK, Tokens
      <4> QED BY <4>1, BoundAssumption DEF Tokens
    <3> QED BY <2>1, <3>1, AccountsParts DEF IInv, NothingWithoutAccount
  <2>3. /\ r \notin stale /\ who'[r] = c /\ pc'[r] = call[r].op
        /\ who' \in [Calls -> Creators \union {NoCreator}] /\ DOMAIN pc' = Calls
    BY <1>0, <2>1 DEF StaleStays, TypeOK
  <2> HIDE DEF c
  <2>4. Grows
    BY <2>1, SameRowsGrow
  <2>5. Others(r)
    BY <1>0, <2>1 DEF Others, TypeOK
  <2>6. TypeOK'
    BY <1>0, <2>1, <2>3 DEF TypeOK, rowVars, accountVars, sessionVars, contentVars
  <2>7. /\ UNCHANGED <<bytes, assets, published, session, issued, ownerOf>>
        /\ UNCHANGED accountVars /\ UNCHANGED emailOf
    BY <2>1 DEF rowVars, sessionVars, contentVars, accountVars
  <2>8. pc'[r] \in {"logout", "complete", "createDrop", "createPlan", "profile", "upload",
                    "publish"}
    BY <1>0, <2>3 DEF Ops, Public
  <2>9. CallsInv'
    <3>1. StageFits(r)'
      <4>1. Typed(call[r])'
        BY <1>0, <2>1, <2>7 DEF Typed
      <4> QED BY <1>0, <2>1, <2>3, <4>1 DEF StageFits
    <3>2. StaleStays(r)'
      BY <2>1, <2>3 DEF StaleStays
    <3>3. Principals(r)'
      BY <2>2, <2>3, <2>7, <2>8 DEF Principals
    <3> QED BY <2>4, <2>5, <3>1, <3>2, <3>3, CallsKept
  <2>10. AccountsAreWhole'
    BY <1>0, <2>1, <2>5, <2>6, <2>7, AccountsKept
  <2>11. NamesAreHeld'
    BY <2>5, <2>7, <2>8, NamesKept DEF Inserted
  <2>12. SessionsEnd'
    BY <2>1, <2>3, <2>5, <2>6, SessionsKept
  <2>13. UploadsAreHeld'
    BY <1>0, <2>4, <2>5, <2>7, <2>8, UploadsKept
  <2>14. ContentIsAccounted'
    BY <1>0, <2>4, <2>5, <2>7, ContentKept
  <2> QED BY <2>9, <2>10, <2>11, <2>12, <2>13, <2>14 DEF IInv
<1> QED BY <1>1, <1>2

\* The router: Send, and the three ways a call may end early.
LEMMA RouteKeeps ==
  ASSUME IInv, NEW r \in Calls, Route(r)
  PROVE  IInv'
<1>0. failures \in 0..MaxFailures
  BY DEF IInv, AccountsAreWhole, TypeOK
<1>1. CASE Limit(r)
  BY <1>0, <1>1, RefusalKeeps DEF Limit, Refuse, Public
<1>2. CASE Fail(r)
  <2>1. failures' \in 0..MaxFailures
    BY <1>0, <1>2, BoundAssumption DEF Fail, Error
  <2> QED BY <1>2, <2>1, RefusalKeeps DEF Fail
<1> QED BY <1>1, <1>2, SendKeeps, AuthenticateKeeps DEF Route

-----------------------------------------------------------------------------
(* Calls that write *)

LEMMA FinishAnswers ==
  ASSUME IInv, NEW r \in Calls, Finish(r, "ok")
  PROVE  /\ \E code \in {"ok", "refused", "internal"} : Answer(r, code)
         /\ failures' \in 0..MaxFailures
BY BoundAssumption DEF Finish, Error, IInv, AccountsAreWhole, TypeOK

\* The last write of a call, however it is answered.
LEMMA WriteMoves ==
  ASSUME IInv, NEW r \in Calls, Active(r), Finish(r, "ok"), Grows
  PROVE  /\ Others(r) /\ CallsInv'
         /\ pc'[r] = "done" /\ answer'[r] \in {"ok", "internal"}
         /\ UNCHANGED <<call, who, stale>>
         /\ DOMAIN pc' = Calls /\ failures' \in 0..MaxFailures
         /\ answer' \in [Calls -> {"none", "ok", "refused", "internal"}]
<1>1. failures' \in 0..MaxFailures
  BY FinishAnswers
<1>2. CASE Answer(r, "ok")
  BY <1>1, <1>2, AnswerMoves DEF Active
<1>3. CASE Answer(r, "internal")
  BY <1>1, <1>3, AnswerMoves DEF Active
<1> QED BY <1>2, <1>3 DEF Finish

\* What a step of the studio leaves alone.
LEMMA AccountsSide ==
  ASSUME IInv, NEW r \in Calls, Active(r), Others(r), TypeOK',
         UNCHANGED <<accountVars, sessionVars>>, UNCHANGED <<call, who, stale>>,
         call[r].op # "register", pc'[r] \notin {"identity", "commit"}
  PROVE  AccountsAreWhole' /\ NamesAreHeld' /\ SessionsEnd'
<1>1. UNCHANGED accountVars /\ UNCHANGED session /\ r \notin stale
  BY WhereActive DEF IInv, sessionVars
<1>2. AccountsAreWhole'
  BY <1>1, AccountsKept
<1>3. NamesAreHeld'
  BY <1>1, NamesKept DEF Inserted
<1>4. SessionsEnd'
  BY <1>1, SessionsKept
<1> QED BY <1>2, <1>3, <1>4

\* What a step that touches no drop leaves alone.
LEMMA ContentSide ==
  ASSUME IInv, NEW r \in Calls, Active(r), pc[r] # "add", Grows, Others(r), pc'[r] = "done",
         UNCHANGED <<ownerOf, published, bytes, assets>>, UNCHANGED <<call, who>>
  PROVE  UploadsAreHeld' /\ ContentIsAccounted'
<1>1. UploadsAreHeld'
  BY UploadsKept DEF Active
<1>2. ContentIsAccounted'
  BY ContentKept DEF Active
<1> QED BY <1>1, <1>2

\* The session a call issues is new, and of a creator with an account.
LEMMA IssueTypes ==
  ASSUME TypeOK, NEW c \in Creators, Issue(c)
  PROVE  /\ issued' \in Tokens /\ issued' = issued + 1 /\ issued \in Nat
         /\ session' \in [Tokens -> Creators \union {NoCreator}]
         /\ \A t \in Tokens : session'[t] = session[t] \/ (session'[t] = c /\ t = issued + 1)
<1>1. /\ issued \in Nat /\ issued < MaxTokens /\ issued' = issued + 1
      /\ issued + 1 \in Tokens
  BY BoundAssumption DEF TypeOK, Tokens, Issue
<1>2. session' = [session EXCEPT ![issued + 1] = c]
  BY DEF Issue
<1> QED BY <1>1, <1>2 DEF TypeOK

\* Registration: four rows at once.
LEMMA CommitKeeps ==
  ASSUME IInv, NEW r \in Calls, NEW c \in Creators, Commit(r, c)
  PROVE  IInv'
<1>0. /\ TypeOK /\ pc[r] = "commit" /\ Active(r) /\ call[r].op = "register"
      /\ call[r].email \in Emails /\ call[r].slug \in Slugs \union {NoSlug}
      /\ r \notin stale
  <2>1. TypeOK /\ pc[r] = "commit" /\ Active(r) /\ CallsInv
    BY DEF IInv, AccountsAreWhole, Commit, At, Active
  <2>2. call[r].op = "register" /\ Typed(call[r]) /\ r \notin stale
    BY <2>1, OpOf, WhereActive
  <2> QED BY <2>1, <2>2 DEF Typed
<1>1. /\ emailOf[c] = NoEmail /\ Issue(c) /\ Finish(r, "ok")
      /\ emailOf' = [emailOf EXCEPT ![c] = call[r].email]
      /\ slugOf' = [slugOf EXCEPT ![c] = call[r].slug]
      /\ UNCHANGED <<onboarded, ownerOf, published, bytes, assets, plans>>
  BY DEF Commit, contentVars
<1>2. /\ emailOf'[c] = call[r].email /\ slugOf'[c] = call[r].slug
      /\ \A d \in Creators : d # c => emailOf'[d] = emailOf[d] /\ slugOf'[d] = slugOf[d]
      /\ emailOf' \in [Creators -> Emails \union {NoEmail}]
      /\ slugOf' \in [Creators -> Slugs \union {NoSlug}]
  BY <1>0, <1>1 DEF TypeOK
<1>3. /\ issued' \in Tokens /\ issued' = issued + 1 /\ issued \in Nat
      /\ session' \in [Tokens -> Creators \union {NoCreator}]
      /\ \A t \in Tokens : session'[t] = session[t] \/ (session'[t] = c /\ t = issued + 1)
  BY <1>0, <1>1, IssueTypes
<1>4. Grows
  <2>1. \A t \in 1..issued : t \in Tokens /\ t # issued + 1
    BY <1>0, <1>3, BoundAssumption DEF TypeOK, Tokens
  <2>2. issued' \in Tokens /\ issued' >= issued
    BY <1>3
  <2>3. \A t \in 1..issued : session'[t] = session[t]
    BY <1>3, <2>1
  <2> QED BY <1>1, <1>2, <2>2, <2>3 DEF Grows
<1>5. /\ Others(r) /\ CallsInv'
      /\ pc'[r] = "done" /\ answer'[r] \in {"ok", "internal"} /\ UNCHANGED <<call, who, stale>>
      /\ DOMAIN pc' = Calls /\ failures' \in 0..MaxFailures
      /\ answer' \in [Calls -> {"none", "ok", "refused", "internal"}]
  BY <1>0, <1>1, <1>4, WriteMoves
<1>6. TypeOK'
  BY <1>0, <1>1, <1>2, <1>3, <1>5 DEF TypeOK
<1>7. ~HasEmail(call[r].email) /\ ~HasSlug(call[r].slug)
  BY <1>0 DEF IInv, NamesAreHeld, Inserted
<1>8. /\ OneOfEach /\ NothingWithoutAccount /\ ToldIsRegistered /\ OnboardedHasSlug
  BY AccountsParts DEF IInv
<1>9. OneOfEach'
  BY <1>2, <1>7, <1>8 DEF OneOfEach, HasEmail, HasSlug
<1>10. call[r].email # NoEmail /\ c # NoCreator
  BY <1>0, NobodyAssumption
<1>11. NothingWithoutAccount'
  BY <1>1, <1>2, <1>3, <1>8, <1>10 DEF NothingWithoutAccount
<1>12. ToldIsRegistered'
  <2>1. \A x : HasEmail(x) => HasEmail(x)' \/ x = NoEmail
    BY <1>1, <1>2 DEF HasEmail
  <2>2. ASSUME NEW s \in Calls, call[s].op = "register", answer'[s] = "ok"
        PROVE  HasEmail(call[s].email)'
    <3>1. CASE s = r
      BY <1>2, <1>5, <3>1 DEF HasEmail
    <3>2. CASE s # r
      <4>1. answer[s] = "ok" /\ HasEmail(call[s].email)
        BY <1>5, <1>8, <2>2, <3>2 DEF Others, ToldIsRegistered
      <4>2. call[s].email \in Emails
        <5>1. StageFits(s)
          BY DEF IInv, CallsInv
        <5> QED BY <2>2, <4>1, <5>1 DEF StageFits, Typed
      <4> QED BY <1>5, <2>1, <4>1, <4>2, NobodyAssumption
    <3> QED BY <3>1, <3>2
  <2> QED BY <1>5, <2>2 DEF ToldIsRegistered
<1>13. OnboardedHasSlug'
  <2>1. c \notin onboarded
    BY <1>1, <1>8 DEF NothingWithoutAccount
  <2> QED BY <1>0, <1>1, <1>2, <1>8, <2>1 DEF OnboardedHasSlug, TypeOK
<1>14. AccountsAreWhole'
  BY <1>6, <1>9, <1>11, <1>12, <1>13, Zenon
     DEF AccountsAreWhole, OneOfEach, NothingWithoutAccount, ToldIsRegistered, OnboardedHasSlug
<1>15. NamesAreHeld'
  \* The others that are inserted have other names.
  <2>1. NamesAreHeld
    BY DEF IInv
  <2>2. \A s \in Calls : /\ Inserted(s)' => s # r /\ Inserted(s)
                         /\ pc'[s] = "commit" => s # r /\ pc[s] = "commit"
    BY <1>5 DEF Others, Inserted
  <2>3. ASSUME NEW s \in Calls, s # r, Inserted(s) PROVE ~HasSlug(call[s].slug)'
    BY <1>0, <1>2, <1>5, <2>1, <2>3 DEF NamesAreHeld, HasSlug, Inserted
  <2>4. ASSUME NEW s \in Calls, s # r, pc[s] = "commit" PROVE ~HasEmail(call[s].email)'
    BY <1>0, <1>2, <1>5, <2>1, <2>4 DEF NamesAreHeld, HasEmail
  <2> QED BY <1>5, <2>1, <2>2, <2>3, <2>4 DEF NamesAreHeld
<1>16. SessionsEnd'
  BY <1>0, <1>5, <1>6, SessionsKept
<1>17. UploadsAreHeld' /\ ContentIsAccounted'
  BY <1>0, <1>1, <1>4, <1>5, ContentSide
<1> QED BY <1>5, <1>14, <1>15, <1>16, <1>17 DEF IInv

\* login: a session of the account with the email.
LEMMA IssueSessionKeeps ==
  ASSUME IInv, NEW r \in Calls, IssueSession(r)
  PROVE  IInv'
<1>0. /\ TypeOK /\ pc[r] = "issue" /\ Active(r) /\ call[r].op = "login"
      /\ call[r].email \in Emails /\ r \notin stale
  <2>1. TypeOK /\ pc[r] = "issue" /\ Active(r) /\ CallsInv
    BY DEF IInv, AccountsAreWhole, IssueSession, At, Active
  <2>2. call[r].op = "login" /\ Typed(call[r]) /\ r \notin stale
    BY <2>1, OpOf, WhereActive
  <2> QED BY <2>1, <2>2 DEF Typed
<1>1. PICK c \in Creators : emailOf[c] = call[r].email /\ Issue(c)
  BY DEF IssueSession
<1>2. /\ Finish(r, "ok") /\ UNCHANGED accountVars /\ UNCHANGED <<emailOf, slugOf, onboarded>>
      /\ UNCHANGED <<ownerOf, published, bytes, assets, plans>>
  BY DEF IssueSession, accountVars, contentVars
<1>3. /\ issued' \in Tokens /\ issued' = issued + 1 /\ issued \in Nat
      /\ session' \in [Tokens -> Creators \union {NoCreator}]
      /\ \A t \in Tokens : session'[t] = session[t] \/ (session'[t] = c /\ t = issued + 1)
  BY <1>0, <1>1, IssueTypes
<1>4. Grows
  <2>1. \A t \in 1..issued : t \in Tokens /\ t # issued + 1
    BY <1>0, <1>3, BoundAssumption DEF TypeOK, Tokens
  <2>2. issued' \in Tokens /\ issued' >= issued
    BY <1>3
  <2>3. \A t \in 1..issued : session'[t] = session[t]
    BY <1>3, <2>1
  <2> QED BY <1>2, <2>2, <2>3 DEF Grows
<1>5. /\ Others(r) /\ CallsInv'
      /\ pc'[r] = "done" /\ answer'[r] \in {"ok", "internal"} /\ UNCHANGED <<call, who, stale>>
      /\ DOMAIN pc' = Calls /\ failures' \in 0..MaxFailures
      /\ answer' \in [Calls -> {"none", "ok", "refused", "internal"}]
  BY <1>0, <1>2, <1>4, WriteMoves
<1>6. TypeOK'
  BY <1>0, <1>2, <1>3, <1>5 DEF TypeOK
<1>7. OneOfEach /\ NothingWithoutAccount /\ ToldIsRegistered /\ OnboardedHasSlug
  BY AccountsParts DEF IInv
<1>8. NothingWithoutAccount'
  <2>1. emailOf[c] # NoEmail
    BY <1>0, <1>1, NobodyAssumption
  <2> QED BY <1>2, <1>3, <1>7, <2>1 DEF NothingWithoutAccount
<1>9. ToldIsRegistered'
  BY <1>0, <1>2, <1>5, <1>7 DEF ToldIsRegistered, Others, HasEmail
<1>10. AccountsAreWhole'
  <2>1. OneOfEach' /\ OnboardedHasSlug'
    BY <1>2, <1>7 DEF OneOfEach, OnboardedHasSlug
  <2> QED BY <1>6, <1>8, <1>9, <2>1, Zenon
          DEF AccountsAreWhole, OneOfEach, NothingWithoutAccount, ToldIsRegistered, OnboardedHasSlug
<1>11. NamesAreHeld'
  BY <1>2, <1>5, NamesKept DEF Inserted
<1>12. SessionsEnd'
  BY <1>0, <1>5, <1>6, SessionsKept
<1>13. UploadsAreHeld' /\ ContentIsAccounted'
  BY <1>0, <1>2, <1>4, <1>5, ContentSide
<1> QED BY <1>5, <1>10, <1>11, <1>12, <1>13 DEF IInv

\* logout: the session is over.
LEMMA LogoutKeeps ==
  ASSUME IInv, NEW r \in Calls, Logout(r)
  PROVE  IInv'
<1>0. TypeOK /\ pc[r] = "logout" /\ Active(r) /\ call[r].op = "logout" /\ r \notin stale
  <2>1. TypeOK /\ pc[r] = "logout" /\ Active(r) /\ CallsInv
    BY DEF IInv, AccountsAreWhole, Logout, At, Active
  <2> QED BY <2>1, OpOf, WhereActive
<1>1. /\ Finish(r, "ok") /\ UNCHANGED accountVars /\ UNCHANGED <<emailOf, slugOf, onboarded>>
      /\ UNCHANGED <<issued, ownerOf, published, bytes, assets, plans>>
      /\ session' = [session EXCEPT ![call[r].token] = NoCreator]
  BY DEF Logout, accountVars, contentVars
<1>2. /\ session' \in [Tokens -> Creators \union {NoCreator}]
      /\ \A t \in Tokens : session'[t] \in {session[t], NoCreator}
  BY <1>0, <1>1 DEF TypeOK
<1>3. Grows
  <2>1. issued \in Tokens /\ issued \in Nat /\ \A t \in 1..issued : t \in Tokens
    BY <1>0, BoundAssumption DEF TypeOK, Tokens
  <2> QED BY <1>1, <1>2, <2>1 DEF Grows
<1>4. /\ Others(r) /\ CallsInv'
      /\ pc'[r] = "done" /\ answer'[r] \in {"ok", "internal"} /\ UNCHANGED <<call, who, stale>>
      /\ DOMAIN pc' = Calls /\ failures' \in 0..MaxFailures
      /\ answer' \in [Calls -> {"none", "ok", "refused", "internal"}]
  BY <1>0, <1>1, <1>3, WriteMoves
<1>5. TypeOK'
  BY <1>0, <1>1, <1>2, <1>4 DEF TypeOK
<1>6. AccountsAreWhole'
  BY <1>0, <1>1, <1>2, <1>4, <1>5, AccountsKept
<1>7. NamesAreHeld'
  BY <1>1, <1>4, NamesKept DEF Inserted
<1>8. SessionsEnd'
  BY <1>0, <1>4, <1>5, SessionsKept
<1>9. UploadsAreHeld' /\ ContentIsAccounted'
  BY <1>0, <1>1, <1>3, <1>4, ContentSide
<1> QED BY <1>4, <1>6, <1>7, <1>8, <1>9 DEF IInv

\* A session runs out between any two steps of the calls that use it.
LEMMA ExpireKeeps ==
  ASSUME IInv, NEW t \in Tokens, Expire(t)
  PROVE  IInv'
<1>0. /\ UNCHANGED <<call, pc, answer, who, stale, emailOf, slugOf, onboarded, issued>>
      /\ UNCHANGED <<ownerOf, published, bytes, assets, plans, failures>>
      /\ session' = [session EXCEPT ![t] = NoCreator]
  BY DEF Expire, callVars, accountVars, contentVars
<1>1. /\ TypeOK' /\ \A u \in Tokens : session'[u] \in {session[u], NoCreator}
  BY <1>0 DEF IInv, AccountsAreWhole, TypeOK
<1>2. CallsInv'
  <2> SUFFICES ASSUME NEW s \in Calls PROVE StageFits(s)' /\ StaleStays(s)' /\ Principals(s)'
    BY DEF CallsInv
  <2>1. StageFits(s) /\ StaleStays(s) /\ Principals(s) /\ TypeOK
    BY DEF IInv, CallsInv, AccountsAreWhole
  <2>2. StageFits(s)' /\ Principals(s)'
    BY <1>0, <2>1 DEF StageFits, Typed, Principals
  <2>3. StaleStays(s)'
    <3> SUFFICES ASSUME s \in stale PROVE StaleStays(s)'
      BY <1>0 DEF StaleStays
    <3>1. call[s].token \in 1..issued
      BY <2>1 DEF StaleStays, StageFits, Typed
    <3>2. call[s].token \in Tokens
      <4>1. issued \in Nat /\ issued <= MaxTokens
        BY <2>1, BoundAssumption DEF TypeOK, Tokens
      <4> QED BY <3>1, <4>1, BoundAssumption DEF Tokens
    <3> QED BY <1>0, <1>1, <2>1, <3>2 DEF StaleStays
  <2> QED BY <2>2, <2>3
<1>3. AccountsAreWhole'
  <2>1. OneOfEach /\ NothingWithoutAccount /\ ToldIsRegistered /\ OnboardedHasSlug
    BY AccountsParts DEF IInv
  <2>2. OneOfEach' /\ ToldIsRegistered' /\ OnboardedHasSlug'
    BY <1>0, <2>1 DEF OneOfEach, ToldIsRegistered, OnboardedHasSlug, HasEmail
  <2>3. NothingWithoutAccount'
    BY <1>0, <1>1, <2>1, NobodyAssumption DEF NothingWithoutAccount
  <2> QED BY <1>1, <2>2, <2>3, Zenon
          DEF AccountsAreWhole, OneOfEach, NothingWithoutAccount, ToldIsRegistered, OnboardedHasSlug
<1>4. NamesAreHeld' /\ SessionsEnd'
  BY <1>0 DEF IInv, NamesAreHeld, SessionsEnd, Inserted, HasSlug, HasEmail
<1>5. UploadsAreHeld'
  BY <1>0 DEF IInv, UploadsAreHeld, Owned, Path, HasAssets
<1>6. ContentIsAccounted'
  BY <1>0 DEF IInv, ContentIsAccounted, Explained, Owned, HasAssets, At
<1> QED BY <1>2, <1>3, <1>4, <1>5, <1>6 DEF IInv

\* The slug of a profile: nobody has it, nor is it inserted by a registration.
LEMMA UpdateProfileKeeps ==
  ASSUME IInv, NEW r \in Calls, UpdateProfile(r)
  PROVE  IInv'
<1>0. /\ TypeOK /\ pc[r] = "update" /\ Active(r) /\ call[r].op = "profile"
      /\ call[r].slug \in Slugs /\ r \notin stale /\ who[r] \in Creators
  <2>1. TypeOK /\ pc[r] = "update" /\ Active(r) /\ CallsInv
    BY DEF IInv, AccountsAreWhole, UpdateProfile, At, Active
  <2>2. call[r].op = "profile" /\ Typed(call[r]) /\ r \notin stale
    BY <2>1, OpOf, WhereActive
  <2>3. who[r] \in Creators
    BY <2>1, <2>2, WhereActive DEF Public
  <2> QED BY <2>1, <2>2, <2>3 DEF Typed
<1>t. CASE TakenByOther(r)
  <2>1. Answer(r, "internal") /\ UNCHANGED rowVars /\ failures' \in 0..MaxFailures
    BY <1>0, <1>t DEF UpdateProfile, Throw, TypeOK
  <2> QED BY <1>0, <2>1, RefusalKeeps
<1>u. CASE ~TakenByOther(r)
  <2>1. /\ InsertedSlug(call[r].slug) = {} /\ Finish(r, "ok")
        /\ slugOf' = [slugOf EXCEPT ![who[r]] = call[r].slug]
        /\ UNCHANGED <<emailOf, onboarded, session, issued>>
        /\ UNCHANGED <<ownerOf, published, bytes, assets, plans>>
    BY <1>u DEF UpdateProfile, sessionVars, contentVars
  <2>2. /\ slugOf'[who[r]] = call[r].slug /\ slugOf' \in [Creators -> Slugs \union {NoSlug}]
        /\ \A c \in Creators : c # who[r] => slugOf'[c] = slugOf[c]
        /\ call[r].slug # NoSlug
    BY <1>0, <2>1, NobodyAssumption DEF TypeOK
  <2>3. Grows
    <3>1. issued \in Tokens /\ issued \in Nat
      BY <1>0, BoundAssumption DEF TypeOK, Tokens
    <3> QED BY <2>1, <2>2, <3>1 DEF Grows
  <2>4. /\ Others(r) /\ CallsInv'
        /\ pc'[r] = "done" /\ answer'[r] \in {"ok", "internal"}
        /\ UNCHANGED <<call, who, stale>>
        /\ DOMAIN pc' = Calls /\ failures' \in 0..MaxFailures
        /\ answer' \in [Calls -> {"none", "ok", "refused", "internal"}]
    BY <1>0, <2>1, <2>3, WriteMoves
  <2>5. TypeOK'
    BY <1>0, <2>1, <2>2, <2>4 DEF TypeOK
  <2>6. OneOfEach /\ NothingWithoutAccount /\ ToldIsRegistered /\ OnboardedHasSlug
    BY AccountsParts DEF IInv
  <2>7. OneOfEach'
    BY <1>u, <2>1, <2>2, <2>6 DEF OneOfEach, TakenByOther
  <2>8. NothingWithoutAccount'
    <3>1. emailOf[who[r]] # NoEmail
      BY <1>0, NobodyAssumption DEF IInv, CallsInv, Principals
    <3> QED BY <2>1, <2>2, <2>6, <3>1 DEF NothingWithoutAccount
  <2>9. ToldIsRegistered'
    BY <1>0, <2>1, <2>4, <2>6 DEF ToldIsRegistered, Others, HasEmail
  <2>10. OnboardedHasSlug'
    BY <1>0, <2>1, <2>2, <2>6 DEF OnboardedHasSlug, TypeOK
  <2>11. AccountsAreWhole'
    BY <2>5, <2>7, <2>8, <2>9, <2>10, Zenon
       DEF AccountsAreWhole, OneOfEach, NothingWithoutAccount, ToldIsRegistered, OnboardedHasSlug
  <2>12. NamesAreHeld'
    <3>1. NamesAreHeld
      BY DEF IInv
    <3>2. \A s \in Calls : /\ Inserted(s)' => s # r /\ Inserted(s)
                           /\ pc'[s] = "commit" => s # r /\ pc[s] = "commit"
      BY <2>4 DEF Others, Inserted
    <3>3. ASSUME NEW s \in Calls, Inserted(s) PROVE ~HasSlug(call[s].slug)'
      <4>1. call[s].slug # call[r].slug
        BY <2>1, <2>2, <3>3 DEF InsertedSlug, Inserted
      <4> QED BY <2>2, <2>4, <3>1, <3>3, <4>1 DEF NamesAreHeld, HasSlug
    <3>4. \A x : HasEmail(x)' <=> HasEmail(x)
      BY <2>1 DEF HasEmail
    <3>5. \A s \in Calls : pc'[s] = "commit" => ~HasEmail(call[s].email)'
      BY <2>4, <3>1, <3>2, <3>4 DEF NamesAreHeld
    <3> QED BY <2>4, <3>1, <3>2, <3>3, <3>5 DEF NamesAreHeld
  <2>13. SessionsEnd'
    BY <1>0, <2>4, <2>5, SessionsKept
  <2>14. UploadsAreHeld' /\ ContentIsAccounted'
    BY <1>0, <2>1, <2>3, <2>4, ContentSide
  <2> QED BY <2>4, <2>11, <2>12, <2>13, <2>14 DEF IInv
<1> QED BY <1>t, <1>u

\* The end of onboarding, decided on a slug read before.
LEMMA MarkOnboardedKeeps ==
  ASSUME IInv, NEW r \in Calls, MarkOnboarded(r)
  PROVE  IInv'
<1>0. /\ TypeOK /\ pc[r] = "mark" /\ Active(r) /\ call[r].op = "complete"
      /\ r \notin stale /\ who[r] \in Creators
      /\ slugOf[who[r]] # NoSlug /\ emailOf[who[r]] # NoEmail
  <2>1. TypeOK /\ pc[r] = "mark" /\ Active(r) /\ CallsInv
    BY DEF IInv, AccountsAreWhole, MarkOnboarded, At, Active
  <2>2. call[r].op = "complete" /\ r \notin stale
    BY <2>1, OpOf, WhereActive
  <2>3. who[r] \in Creators
    BY <2>1, <2>2, WhereActive DEF Public
  <2> QED BY <2>1, <2>2, <2>3, NobodyAssumption DEF CallsInv, Principals
<1>1. /\ Finish(r, "ok") /\ onboarded' = onboarded \union {who[r]}
      /\ UNCHANGED <<emailOf, slugOf, session, issued>>
      /\ UNCHANGED <<ownerOf, published, bytes, assets, plans>>
  BY DEF MarkOnboarded, sessionVars, contentVars
<1>2. Grows
  <2>1. issued \in Tokens /\ issued \in Nat
    BY <1>0, BoundAssumption DEF TypeOK, Tokens
  <2> QED BY <1>1, <2>1 DEF Grows
<1>3. /\ Others(r) /\ CallsInv'
      /\ pc'[r] = "done" /\ answer'[r] \in {"ok", "internal"} /\ UNCHANGED <<call, who, stale>>
      /\ DOMAIN pc' = Calls /\ failures' \in 0..MaxFailures
      /\ answer' \in [Calls -> {"none", "ok", "refused", "internal"}]
  BY <1>0, <1>1, <1>2, WriteMoves
<1>4. TypeOK'
  BY <1>0, <1>1, <1>3 DEF TypeOK
<1>5. OneOfEach /\ NothingWithoutAccount /\ ToldIsRegistered /\ OnboardedHasSlug
  BY AccountsParts DEF IInv
<1>6. AccountsAreWhole'
  <2>1. OneOfEach' /\ NothingWithoutAccount' /\ OnboardedHasSlug'
    BY <1>0, <1>1, <1>5 DEF OneOfEach, NothingWithoutAccount, OnboardedHasSlug
  <2>2. ToldIsRegistered'
    BY <1>0, <1>1, <1>3, <1>5 DEF ToldIsRegistered, Others, HasEmail
  <2> QED BY <1>4, <2>1, <2>2, Zenon
          DEF AccountsAreWhole, OneOfEach, NothingWithoutAccount, ToldIsRegistered, OnboardedHasSlug
<1>7. NamesAreHeld'
  <2>1. \A s \in Calls : /\ Inserted(s)' => s # r /\ Inserted(s)
                         /\ pc'[s] = "commit" => s # r /\ pc[s] = "commit"
    BY <1>3 DEF Others, Inserted
  <2>2. \A x : (HasSlug(x)' <=> HasSlug(x)) /\ (HasEmail(x)' <=> HasEmail(x))
    BY <1>1 DEF HasSlug, HasEmail
  <2> QED BY <1>3, <2>1, <2>2 DEF IInv, NamesAreHeld
<1>8. SessionsEnd'
  BY <1>0, <1>3, <1>4, SessionsKept
<1>9. UploadsAreHeld' /\ ContentIsAccounted'
  BY <1>0, <1>1, <1>2, <1>3, ContentSide
<1> QED BY <1>3, <1>6, <1>7, <1>8, <1>9 DEF IInv

\* What is known of a call of the studio that writes.
LEMMA StudioCall ==
  ASSUME IInv, NEW r \in Calls,
         pc[r] \in {"createPlan", "createDrop", "store", "add", "release"}
  PROVE  /\ TypeOK /\ Active(r) /\ r \notin stale /\ answer[r] = "none"
         /\ who[r] \in Creators /\ who[r] # NoCreator /\ Typed(call[r])
         /\ call[r].op \in {"createPlan", "createDrop", "upload", "publish"}
         /\ pc[r] \in {"store", "add"} => call[r].op = "upload"
         /\ pc[r] = "release" => call[r].op = "publish"
<1>1. TypeOK /\ CallsInv /\ Active(r)
  BY DEF IInv, AccountsAreWhole, Active
<1>2. /\ call[r].op \in {"createPlan", "createDrop", "upload", "publish"}
      /\ pc[r] \in {"store", "add"} => call[r].op = "upload"
      /\ pc[r] = "release" => call[r].op = "publish"
  BY <1>1, OpOf
<1>3. who[r] \in Creators
  BY <1>1, <1>2, WhereActive DEF Public
<1> QED BY <1>1, <1>2, <1>3, WhereActive, NobodyAssumption

\* A new plan, or a drop nobody has.
LEMMA CreateKeeps ==
  ASSUME IInv, NEW r \in Calls, CreatePlan(r) \/ \E d \in Drops : CreateDrop(r, d)
  PROVE  IInv'
<1>0. /\ TypeOK /\ pc[r] \in {"createPlan", "createDrop"} /\ Active(r) /\ r \notin stale
      /\ who[r] \in Creators /\ call[r].op # "register"
  <2>1. pc[r] \in {"createPlan", "createDrop"}
    BY DEF CreatePlan, CreateDrop, At
  <2> QED BY <2>1, StudioCall
<1>1. /\ Finish(r, "ok") /\ UNCHANGED <<accountVars, sessionVars>> /\ UNCHANGED emailOf
      /\ UNCHANGED <<slugOf, onboarded, session, issued, published, bytes, assets>>
  BY DEF CreatePlan, CreateDrop, accountVars, sessionVars
<1>2. /\ ownerOf' \in [Drops -> Creators \union {NoCreator}]
      /\ \A d \in Drops : ownerOf[d] # NoCreator => ownerOf'[d] = ownerOf[d]
      /\ plans' \in [Creators -> Nat]
  <2>1. CASE CreatePlan(r)
    BY <1>0, <2>1 DEF CreatePlan, TypeOK
  <2>2. ASSUME NEW d \in Drops, CreateDrop(r, d)
        PROVE  /\ ownerOf' \in [Drops -> Creators \union {NoCreator}]
               /\ \A e \in Drops : ownerOf[e] # NoCreator => ownerOf'[e] = ownerOf[e]
               /\ plans' \in [Creators -> Nat]
    BY <1>0, <2>2 DEF CreateDrop, TypeOK
  <2> QED BY <2>1, <2>2
<1>3. Grows
  <2>1. issued \in Tokens /\ issued \in Nat
    BY <1>0, BoundAssumption DEF TypeOK, Tokens
  <2> QED BY <1>1, <1>2, <2>1 DEF Grows
<1>4. /\ Others(r) /\ CallsInv'
      /\ pc'[r] = "done" /\ answer'[r] \in {"ok", "internal"} /\ UNCHANGED <<call, who, stale>>
      /\ DOMAIN pc' = Calls /\ failures' \in 0..MaxFailures
      /\ answer' \in [Calls -> {"none", "ok", "refused", "internal"}]
  BY <1>0, <1>1, <1>3, WriteMoves
<1>5. TypeOK'
  BY <1>0, <1>1, <1>2, <1>4 DEF TypeOK
<1>6. AccountsAreWhole' /\ NamesAreHeld' /\ SessionsEnd'
  BY <1>0, <1>1, <1>4, <1>5, AccountsSide
<1>7. UploadsAreHeld'
  BY <1>0, <1>1, <1>3, <1>4, UploadsKept
<1>8. ContentIsAccounted'
  BY <1>0, <1>1, <1>3, <1>4, ContentKept
<1> QED BY <1>4, <1>6, <1>7, <1>8 DEF IInv

\* The bytes of an upload go where there are none, for a drop of the caller.
LEMMA StoreKeeps ==
  ASSUME IInv, NEW r \in Calls, Store(r)
  PROVE  IInv'
<1>0. /\ TypeOK /\ pc[r] = "store" /\ Active(r) /\ r \notin stale /\ answer[r] = "none"
      /\ who[r] \in Creators /\ call[r].op = "upload" /\ Owned(r)
      /\ call[r].drop \in Drops /\ call[r].file \in Files /\ Typed(call[r])
  <2>1. pc[r] = "store"
    BY DEF Store, At
  <2>2. Typed(call[r]) /\ call[r].op = "upload"
    BY <2>1, StudioCall
  <2> QED BY <2>1, <2>2, StudioCall DEF IInv, UploadsAreHeld, Typed
<1>1. CASE Throw(r)
  BY <1>0, <1>1, RefusalKeeps DEF Throw, TypeOK
<1>2. CASE ~Throw(r)
  <2>1. /\ bytes[Path(r)] = NoCall /\ bytes' = [bytes EXCEPT ![Path(r)] = r]
        /\ UNCHANGED <<accountVars, sessionVars>>
        /\ UNCHANGED <<emailOf, slugOf, onboarded, session, issued>>
        /\ UNCHANGED <<ownerOf, published, assets, plans>>
    BY <1>2 DEF Store, Exists, accountVars, sessionVars
  <2>2. /\ Path(r) \in Objects /\ bytes'[Path(r)] = r
        /\ bytes' \in [Objects -> Calls \union {NoCall}]
        /\ \A o \in Objects : o # Path(r) => bytes'[o] = bytes[o]
    <3>1. Path(r) \in Objects
      BY <1>0, ObjectAssumption DEF Path
    <3> QED BY <1>0, <2>1, <3>1 DEF TypeOK
  <2>3. Grows
    <3>1. issued \in Tokens /\ issued \in Nat
      BY <1>0, BoundAssumption DEF TypeOK, Tokens
    <3> QED BY <2>1, <2>2, <3>1 DEF Grows
  <2>4. /\ Others(r) /\ CallsInv' /\ UNCHANGED <<call, who, stale>> /\ DOMAIN pc' = Calls
        /\ \/ pc'[r] = "add" /\ answer'[r] = "none"
           \/ pc'[r] = "done" /\ answer'[r] = "internal"
        /\ failures' \in 0..MaxFailures
        /\ answer' \in [Calls -> {"none", "ok", "refused", "internal"}]
    <3>1. CASE Answer(r, "internal") /\ Error
      <4>1. failures' \in 0..MaxFailures
        BY <1>0, <3>1, BoundAssumption DEF Error, TypeOK
      <4> QED BY <1>0, <2>3, <3>1, <4>1, AnswerMoves DEF Active
    <3>2. CASE Goto(r, "add") /\ UNCHANGED failures
      <4>1. /\ pc'[r] = "add" /\ UNCHANGED <<call, who, stale, answer, failures>>
            /\ DOMAIN pc' = Calls /\ Others(r)
        BY <1>0, <3>2 DEF Goto, Others, TypeOK
      <4>2. StageFits(r)'
        <5>1. Typed(call[r])'
          BY <1>0, <2>1, <4>1 DEF Typed
        <5> QED BY <1>0, <4>1, <5>1 DEF StageFits, Later, Ops, Public
      <4>3. StaleStays(r)'
        BY <1>0, <4>1 DEF StaleStays
      <4>4. Principals(r)'
        BY <2>1, <4>1 DEF Principals, IInv, CallsInv
      <4>5. CallsInv'
        BY <2>3, <4>1, <4>2, <4>3, <4>4, CallsKept
      <4> QED BY <1>0, <4>1, <4>5 DEF TypeOK
    <3> QED BY <1>2, <3>1, <3>2 DEF Store
  <2>5. TypeOK'
    BY <1>0, <2>1, <2>2, <2>4 DEF TypeOK
  <2>6. AccountsAreWhole' /\ NamesAreHeld' /\ SessionsEnd'
    BY <1>0, <2>1, <2>4, <2>5, AccountsSide
  <2>7. \A s \in Calls : /\ Path(s)' = Path(s) /\ (Owned(s)' <=> Owned(s))
                         /\ HasAssets(call[s].drop)' <=> HasAssets(call[s].drop)
    BY <2>1, <2>4 DEF Path, Owned, HasAssets
  <2>8. UploadsAreHeld'
    <3>1. UploadsAreHeld
      BY DEF IInv
    <3>2. \A s \in Calls : s # r => pc'[s] = pc[s]
      BY <2>4 DEF Others
    <3>3. \A s \in Calls : pc[s] \in {"add", "done"} => s # r /\ pc'[s] = pc[s]
      BY <1>0, <3>2
    <3>4. \A s \in Calls : pc'[s] \in {"store", "add"} => Owned(s)'
      BY <1>0, <2>7, <3>1, <3>2 DEF UploadsAreHeld
    <3>5. ASSUME NEW s \in Calls, pc'[s] = "add" PROVE bytes'[Path(s)'] = s
      <4>1. CASE s = r
        BY <2>2, <2>7, <4>1
      <4>2. CASE s # r
        <5>1. pc[s] = "add" /\ bytes[Path(s)] = s /\ StageFits(s) /\ s # NoCall
          BY <3>1, <3>2, <3>5, <4>2, NobodyAssumption DEF UploadsAreHeld, IInv, CallsInv
        <5>2. call[s].op = "upload" /\ Typed(call[s]) /\ who[s] \in Creators
          BY <5>1, OpOf, WhereActive DEF IInv, Active, Public
        <5>3. Path(s) \in Objects
          BY <5>2, ObjectAssumption DEF Path, Typed
        <5> QED BY <2>1, <2>2, <2>7, <5>1, <5>3
      <4> QED BY <4>1, <4>2
    <3>6. ASSUME NEW o \in Objects, bytes'[o] # NoCall PROVE pc'[bytes'[o]] \in {"add", "done"}
      <4>1. CASE o = Path(r)
        BY <2>2, <2>4, <4>1
      <4>2. CASE o # Path(r)
        <5>1. bytes'[o] = bytes[o] /\ bytes[o] \in Calls /\ pc[bytes[o]] \in {"add", "done"}
          BY <1>0, <2>2, <3>1, <3>6, <4>2 DEF UploadsAreHeld, TypeOK
        <5> QED BY <3>3, <5>1
      <4> QED BY <4>1, <4>2
    <3>7. \A a \in assets' : pc'[a.from] = "done"
      BY <1>0, <2>1, <3>1, <3>3 DEF UploadsAreHeld, TypeOK
    <3>8. \A s \in Calls : pc'[s] = "release" => HasAssets(call[s].drop)'
      BY <2>4, <2>7, <3>1, <3>2 DEF UploadsAreHeld
    <3> QED BY <3>4, <3>5, <3>6, <3>7, <3>8 DEF UploadsAreHeld
  <2>9. ContentIsAccounted'
    <3>1. ContentIsAccounted /\ UploadsAreHeld
      BY DEF IInv
    <3>2. Explained(r)'
      BY <1>0, <2>4, <2>7, NobodyAssumption DEF Explained, At
    <3>3. ASSUME NEW s \in Calls, NEW o \in Objects, bytes[o] = s PROVE Explained(s)'
      <4>1. Explained(s) /\ pc[s] \in {"add", "done"}
        BY <3>1, <3>3, NobodyAssumption DEF ContentIsAccounted, UploadsAreHeld
      <4> QED BY <1>0, <2>3, <2>4, <4>1, ExplainedStays
    <3>4. \A o \in Objects : bytes'[o] # NoCall => Explained(bytes[o])'
      BY <1>0, <2>2, <3>2, <3>3 DEF TypeOK, Explained
    <3>5. \A a \in assets : bytes'[a.path] = a.from /\ call'[a.from].drop = a.drop
      <4>1. \A a \in assets : bytes[a.path] = a.from /\ a.path \in Objects /\ a.from # NoCall
        BY <1>0, <3>1, NobodyAssumption DEF ContentIsAccounted, TypeOK
      <4> QED BY <2>1, <2>2, <2>4, <3>1, <4>1 DEF ContentIsAccounted
    <3> QED BY <2>1, <3>1, <3>4, <3>5 DEF ContentIsAccounted, HasAssets
  <2> QED BY <2>4, <2>6, <2>8, <2>9 DEF IInv
<1> QED BY <1>1, <1>2

\* The asset of an upload, whose bytes are still where it stored them.
LEMMA AddAssetKeeps ==
  ASSUME IInv, NEW r \in Calls, AddAsset(r)
  PROVE  IInv'
<1>0. /\ TypeOK /\ pc[r] = "add" /\ Active(r) /\ r \notin stale /\ answer[r] = "none"
      /\ who[r] \in Creators /\ call[r].op = "upload" /\ Owned(r)
      /\ call[r].drop \in Drops /\ call[r].file \in Files /\ call[r].position \in Positions
      /\ bytes[Path(r)] = r /\ \A a \in assets : a.from # r
  <2>1. pc[r] = "add"
    BY DEF AddAsset, At, Refuse, Throw
  <2>2. Typed(call[r]) /\ call[r].op = "upload"
    BY <2>1, StudioCall
  <2> QED BY <2>1, <2>2, StudioCall DEF IInv, UploadsAreHeld, Typed
<1>1. CASE Throw(r)
  BY <1>0, <1>1, RefusalKeeps DEF Throw, TypeOK
<1>2. CASE ~Throw(r)
  <2> DEFINE new == [drop |-> call[r].drop, position |-> call[r].position,
                  path |-> Path(r), from |-> r]
  <2>1. /\ ~PositionTaken(r) /\ assets' = assets \union {new} /\ Finish(r, "ok")
        /\ UNCHANGED <<accountVars, sessionVars>>
        /\ UNCHANGED <<emailOf, slugOf, onboarded, session, issued>>
        /\ UNCHANGED <<ownerOf, published, bytes, plans>>
    BY <1>0, <1>2 DEF AddAsset, accountVars, sessionVars
  <2>2. Path(r) \in Objects
    BY <1>0, ObjectAssumption DEF Path
  <2>3. /\ new.drop = call[r].drop /\ new.position = call[r].position /\ new.path = Path(r)
        /\ new.from = r
        /\ new \in [drop : Drops, position : Positions, path : Objects, from : Calls]
    BY <1>0, <2>2
  <2> HIDE DEF new
  <2>4. Grows
    <3>1. issued \in Tokens /\ issued \in Nat
      BY <1>0, BoundAssumption DEF TypeOK, Tokens
    <3> QED BY <2>1, <3>1 DEF Grows
  <2>5. /\ Others(r) /\ CallsInv'
        /\ pc'[r] = "done" /\ answer'[r] \in {"ok", "internal"} /\ UNCHANGED <<call, who, stale>>
        /\ DOMAIN pc' = Calls /\ failures' \in 0..MaxFailures
        /\ answer' \in [Calls -> {"none", "ok", "refused", "internal"}]
    BY <1>0, <2>1, <2>4, WriteMoves
  <2>6. TypeOK'
    BY <1>0, <2>1, <2>3, <2>5 DEF TypeOK
  <2>7. AccountsAreWhole' /\ NamesAreHeld' /\ SessionsEnd'
    BY <1>0, <2>1, <2>5, <2>6, AccountsSide
  <2>8. \A s \in Calls : Path(s)' = Path(s) /\ (Owned(s)' <=> Owned(s))
    BY <2>1, <2>5 DEF Path, Owned
  <2>9. UploadsAreHeld'
    <3>1. UploadsAreHeld
      BY DEF IInv
    <3>2. \A s \in Calls : pc'[s] \in {"store", "add", "release"} => s # r /\ pc[s] = pc'[s]
      BY <2>5 DEF Others
    <3>3. \A s \in Calls : pc[s] \in {"add", "done"} => pc'[s] \in {"add", "done"}
      BY <2>5 DEF Others
    <3>4. \A s \in Calls : pc'[s] \in {"store", "add"} => Owned(s)'
      BY <2>8, <3>1, <3>2 DEF UploadsAreHeld
    <3>5. \A s \in Calls : pc'[s] = "add" => bytes'[Path(s)'] = s
      BY <2>1, <2>8, <3>1, <3>2 DEF UploadsAreHeld
    <3>6. \A o \in Objects : bytes'[o] # NoCall => pc'[bytes'[o]] \in {"add", "done"}
      BY <1>0, <2>1, <3>1, <3>3 DEF UploadsAreHeld, TypeOK
    <3>7. ASSUME NEW a \in assets' PROVE pc'[a.from] = "done"
      <4>1. CASE a = new
        BY <2>3, <2>5, <4>1
      <4>2. CASE a \in assets
        BY <1>0, <2>5, <3>1, <4>2 DEF UploadsAreHeld, TypeOK, Others
      <4> QED BY <2>1, <3>7, <4>1, <4>2
    <3>8. ASSUME NEW s \in Calls, pc'[s] = "release" PROVE HasAssets(call[s].drop)'
      <4>1. \E a \in assets : a.drop = call[s].drop
        BY <3>1, <3>2, <3>8 DEF UploadsAreHeld, HasAssets
      <4> QED BY <2>1, <2>5, <4>1 DEF HasAssets
    <3> QED BY <3>4, <3>5, <3>6, <3>7, <3>8 DEF UploadsAreHeld
  <2>10. ContentIsAccounted'
    <3>1. ContentIsAccounted
      BY DEF IInv
    <3>2. ASSUME NEW s \in Calls, NEW o \in Objects, bytes[o] = s PROVE Explained(s)'
      <4>1. CASE s # r
        BY <2>4, <2>5, <3>1, <3>2, <4>1, ExplainedStays, NobodyAssumption DEF ContentIsAccounted
      <4>2. CASE s = r
        <5>1. who[r] # NoCreator /\ Owned(r)' /\ \E a \in assets' : a.from = r
          BY <1>0, <2>1, <2>3, <2>8, NobodyAssumption
        <5> QED BY <1>0, <2>5, <4>2, <5>1 DEF Explained
      <4> QED BY <4>1, <4>2
    <3>7. \A o \in Objects : bytes'[o] # NoCall => Explained(bytes[o])'
      BY <1>0, <2>1, <3>2 DEF TypeOK, Explained
    <3>3. \A a \in assets' : bytes'[a.path] = a.from /\ call'[a.from].drop = a.drop
      BY <1>0, <2>1, <2>3, <2>5, <3>1 DEF ContentIsAccounted
    <3>4. \A a \in assets : ~(a.drop = new.drop /\ a.position = new.position) /\ a.path # new.path
      BY <1>0, <2>1, <2>3, <3>1 DEF PositionTaken, ContentIsAccounted
    <3>5. \A a, b \in assets' :
            a.path = b.path \/ (a.drop = b.drop /\ a.position = b.position) => a = b
      BY <2>1, <3>1, <3>4 DEF ContentIsAccounted
    <3>6. \A d \in published' : HasAssets(d)'
      BY <2>1, <3>1 DEF ContentIsAccounted, HasAssets
    <3> QED BY <3>3, <3>5, <3>6, <3>7 DEF ContentIsAccounted
  <2> QED BY <2>5, <2>7, <2>9, <2>10 DEF IInv
<1> QED BY <1>1, <1>2

\* Publication, decided on assets read before: none is ever taken away.
LEMMA ReleaseKeeps ==
  ASSUME IInv, NEW r \in Calls, Release(r)
  PROVE  IInv'
<1>0. /\ TypeOK /\ pc[r] = "release" /\ Active(r) /\ r \notin stale /\ answer[r] = "none"
      /\ call[r].op = "publish" /\ call[r].drop \in Drops /\ HasAssets(call[r].drop)
  <2>1. pc[r] = "release"
    BY DEF Release, At
  <2>2. Typed(call[r]) /\ call[r].op = "publish"
    BY <2>1, StudioCall
  <2> QED BY <2>1, <2>2, StudioCall DEF IInv, UploadsAreHeld, Typed
<1>1. /\ Finish(r, "ok") /\ published' = published \union {call[r].drop}
      /\ UNCHANGED <<accountVars, sessionVars>>
      /\ UNCHANGED <<emailOf, slugOf, onboarded, session, issued>>
      /\ UNCHANGED <<ownerOf, bytes, assets, plans>>
  BY DEF Release, accountVars, sessionVars
<1>2. Grows
  <2>1. issued \in Tokens /\ issued \in Nat
    BY <1>0, BoundAssumption DEF TypeOK, Tokens
  <2> QED BY <1>1, <2>1 DEF Grows
<1>3. /\ Others(r) /\ CallsInv'
      /\ pc'[r] = "done" /\ answer'[r] \in {"ok", "internal"} /\ UNCHANGED <<call, who, stale>>
      /\ DOMAIN pc' = Calls /\ failures' \in 0..MaxFailures
      /\ answer' \in [Calls -> {"none", "ok", "refused", "internal"}]
  BY <1>0, <1>1, <1>2, WriteMoves
<1>4. TypeOK'
  BY <1>0, <1>1, <1>3 DEF TypeOK
<1>5. AccountsAreWhole' /\ NamesAreHeld' /\ SessionsEnd'
  BY <1>0, <1>1, <1>3, <1>4, AccountsSide
<1>6. UploadsAreHeld'
  BY <1>0, <1>1, <1>2, <1>3, UploadsKept
<1>7. ContentIsAccounted'
  <2>1. ContentIsAccounted /\ UploadsAreHeld /\ TypeOK
    BY DEF IInv, AccountsAreWhole
  <2>2. ASSUME NEW s \in Calls, NEW o \in Objects, bytes[o] = s PROVE Explained(s)'
    <3>1. Explained(s) /\ pc[s] \in {"add", "done"}
      BY <2>1, <2>2, NobodyAssumption DEF ContentIsAccounted, UploadsAreHeld
    <3> QED BY <1>0, <1>2, <1>3, <3>1, ExplainedStays
  <2>4. \A o \in Objects : bytes'[o] # NoCall => Explained(bytes[o])'
    BY <1>1, <2>1, <2>2 DEF TypeOK, Explained
  <2>3. \A d \in published' : HasAssets(d)'
    BY <1>0, <1>1, <2>1 DEF ContentIsAccounted, HasAssets
  <2> QED BY <1>1, <1>3, <2>1, <2>3, <2>4 DEF ContentIsAccounted
<1> QED BY <1>3, <1>5, <1>6, <1>7 DEF IInv

-----------------------------------------------------------------------------
(* The services, and the theorems *)

\* A call that is refused, throws, or goes on after a read.
LEMMA RefuseKeeps ==
  ASSUME IInv, NEW r \in Calls, Active(r), pc[r] # "add", Refuse(r) \/ Throw(r)
  PROVE  IInv'
<1>1. failures \in 0..MaxFailures
  BY DEF IInv, AccountsAreWhole, TypeOK
<1> QED BY <1>1, RefusalKeeps DEF Refuse, Throw, Active

LEMMA AuthKeeps ==
  ASSUME IInv, NEW r \in Calls, Auth(r)
  PROVE  IInv'
<1>0. CallsInv
  BY DEF IInv
<1>1. CASE Register(r)
  <2>1. pc[r] = "register" /\ Active(r) /\ call[r].op = "register"
    BY <1>0, <1>1, OpOf DEF Register, At, Active
  <2>2. CASE Refuse(r)
    BY <2>1, <2>2, RefuseKeeps
  <2>3. CASE Proceed(r, "creator")
    <3>1. <<call[r].op, "creator">> \in Later
      BY <2>1 DEF Later
    <3>2. Relies(r, "creator")
      BY <2>1, <2>3 DEF Relies
    <3> QED BY <2>1, <2>3, <3>1, <3>2, ProceedKeeps
  <2> QED BY <1>1, <2>2, <2>3 DEF Register
<1>2. CASE InsertCreator(r)
  <2>1. pc[r] = "creator" /\ Active(r) /\ call[r].op = "register"
    BY <1>0, <1>2, OpOf DEF InsertCreator, At, Active
  <2>2. CASE Throw(r)
    BY <2>1, <2>2, RefuseKeeps
  <2>3. CASE ~HasSlug(call[r].slug) /\ Proceed(r, "identity")
    <3>1. <<call[r].op, "identity">> \in Later
      BY <2>1 DEF Later
    <3>2. Relies(r, "identity")
      BY <1>2, <2>1, <2>3 DEF Relies, InsertCreator
    <3> QED BY <2>1, <2>3, <3>1, <3>2, ProceedKeeps
  <2> QED BY <1>2, <2>2, <2>3 DEF InsertCreator
<1>3. CASE InsertIdentity(r)
  <2>1. pc[r] = "identity" /\ Active(r) /\ call[r].op = "register" /\ ~HasSlug(call[r].slug)
    BY <1>0, <1>3, OpOf DEF InsertIdentity, At, Active, IInv, NamesAreHeld, Inserted
  <2>2. CASE Throw(r)
    BY <2>1, <2>2, RefuseKeeps
  <2>3. CASE ~HasEmail(call[r].email) /\ Proceed(r, "commit")
    <3>1. <<call[r].op, "commit">> \in Later
      BY <2>1 DEF Later
    <3>2. Relies(r, "commit")
      BY <1>3, <2>1, <2>3 DEF Relies, InsertIdentity
    <3> QED BY <2>1, <2>3, <3>1, <3>2, ProceedKeeps
  <2> QED BY <1>3, <2>2, <2>3 DEF InsertIdentity, TakenEmail
<1>4. CASE Login(r)
  <2>1. pc[r] = "login" /\ Active(r) /\ call[r].op = "login"
    BY <1>0, <1>4, OpOf DEF Login, At, Active
  <2>2. CASE Refuse(r)
    BY <2>1, <2>2, RefuseKeeps
  <2>3. CASE Proceed(r, "issue")
    <3>1. <<call[r].op, "issue">> \in Later
      BY <2>1 DEF Later
    <3>2. Relies(r, "issue")
      BY <2>1, <2>3 DEF Relies
    <3> QED BY <2>1, <2>3, <3>1, <3>2, ProceedKeeps
  <2> QED BY <1>4, <2>2, <2>3 DEF Login
<1> QED BY <1>1, <1>2, <1>3, <1>4, CommitKeeps, IssueSessionKeeps, LogoutKeeps DEF Auth

LEMMA StudioKeeps ==
  ASSUME IInv, NEW r \in Calls, Studio(r)
  PROVE  IInv'
<1>0. CallsInv
  BY DEF IInv
<1>1. CASE Profile(r)
  <2>1. pc[r] = "profile" /\ Active(r) /\ call[r].op = "profile"
    BY <1>0, <1>1, OpOf DEF Profile, At, Active
  <2>2. CASE Refuse(r)
    BY <2>1, <2>2, RefuseKeeps
  <2>3. CASE Proceed(r, "update")
    <3>1. <<call[r].op, "update">> \in Later
      BY <2>1 DEF Later
    <3>2. Relies(r, "update")
      BY <2>1, <2>3 DEF Relies
    <3> QED BY <2>1, <2>3, <3>1, <3>2, ProceedKeeps
  <2> QED BY <1>1, <2>2, <2>3 DEF Profile
<1>2. CASE Complete(r)
  <2>1. pc[r] = "complete" /\ Active(r) /\ call[r].op = "complete" /\ r \notin stale
    BY <1>0, <1>2, OpOf, WhereActive DEF Complete, At, Active
  <2>2. CASE Refuse(r)
    BY <2>1, <2>2, RefuseKeeps
  <2>3. CASE slugOf[who[r]] # NoSlug /\ Proceed(r, "mark")
    <3>1. <<call[r].op, "mark">> \in Later
      BY <2>1 DEF Later
    <3>2. Relies(r, "mark")
      BY <2>1, <2>3 DEF Relies
    <3> QED BY <2>1, <2>3, <3>1, <3>2, ProceedKeeps
  <2>4. CASE Answer(r, "ok") /\ UNCHANGED <<rowVars, failures>>
    <3>1. failures' \in 0..MaxFailures
      BY <2>4 DEF IInv, AccountsAreWhole, TypeOK
    <3> QED BY <2>1, <2>4, <3>1, RefusalKeeps
  <2> QED BY <1>2, <2>2, <2>3, <2>4 DEF Complete
<1>3. CASE Upload(r)
  <2>1. pc[r] = "upload" /\ Active(r) /\ call[r].op = "upload"
    BY <1>0, <1>3, OpOf DEF Upload, At, Active
  <2>2. CASE Refuse(r)
    BY <2>1, <2>2, RefuseKeeps
  <2>3. CASE Owned(r) /\ Proceed(r, "store")
    <3>1. <<call[r].op, "store">> \in Later
      BY <2>1 DEF Later
    <3>2. Relies(r, "store")
      BY <2>1, <2>3 DEF Relies
    <3> QED BY <2>1, <2>3, <3>1, <3>2, ProceedKeeps
  <2> QED BY <1>3, <2>2, <2>3 DEF Upload
<1>4. CASE Publish(r)
  <2>1. pc[r] = "publish" /\ Active(r) /\ call[r].op = "publish"
    BY <1>0, <1>4, OpOf DEF Publish, At, Active
  <2>2. CASE Refuse(r)
    BY <2>1, <2>2, RefuseKeeps
  <2>3. CASE HasAssets(call[r].drop) /\ Proceed(r, "release")
    <3>1. <<call[r].op, "release">> \in Later
      BY <2>1 DEF Later
    <3>2. Relies(r, "release")
      BY <2>1, <2>3 DEF Relies
    <3> QED BY <2>1, <2>3, <3>1, <3>2, ProceedKeeps
  <2> QED BY <1>4, <2>2, <2>3 DEF Publish
<1>5. CASE CreatePlan(r) \/ \E d \in Drops : CreateDrop(r, d)
  BY <1>5, CreateKeeps
<1> QED
  BY <1>1, <1>2, <1>3, <1>4, <1>5, UpdateProfileKeeps, MarkOnboardedKeeps, StoreKeeps,
     AddAssetKeeps, ReleaseKeeps DEF Studio

LEMMA InitIsWhole == Init => IInv
<1> SUFFICES ASSUME Init PROVE IInv
  OBVIOUS
<1>1. TypeOK
  <2>1. 1 \in Tokens
    BY BoundAssumption DEF Tokens
  <2> QED BY <2>1, BoundAssumption, FounderAssumption DEF Init, TypeOK
<1>2. CallsInv
  BY NobodyAssumption DEF Init, CallsInv, StageFits, StaleStays, Principals, Nothing
<1>3. OneOfEach
  BY DEF Init, OneOfEach
<1>4. NothingWithoutAccount
  BY FounderAssumption, NobodyAssumption DEF Init, NothingWithoutAccount
<1>5. ToldIsRegistered /\ OnboardedHasSlug
  BY DEF Init, ToldIsRegistered, OnboardedHasSlug
<1>6. AccountsAreWhole
  BY <1>1, <1>3, <1>4, <1>5, AccountsParts
<1>7. NamesAreHeld /\ SessionsEnd
  BY DEF Init, NamesAreHeld, SessionsEnd, Inserted
<1>8. ContentIsAccounted
  BY DEF Init, ContentIsAccounted
<1>9. UploadsAreHeld
  BY DEF Init, UploadsAreHeld
<1> QED BY <1>2, <1>6, <1>7, <1>8, <1>9 DEF IInv

LEMMA StepKeeps == IInv /\ [Next]_vars => IInv'
<1> SUFFICES ASSUME IInv, [Next]_vars PROVE IInv'
  OBVIOUS
<1>1. ASSUME NEW r \in Calls, Route(r) \/ Auth(r) \/ Studio(r) PROVE IInv'
  BY <1>1, RouteKeeps, AuthKeeps, StudioKeeps
<1>2. CASE UNCHANGED vars
  <2>0. /\ UNCHANGED <<call, pc, answer, who, stale, emailOf, slugOf, onboarded, session>>
        /\ UNCHANGED <<issued, ownerOf, published, bytes, assets, plans, failures>>
    BY <1>2 DEF vars, callVars, rowVars, accountVars, sessionVars, contentVars
  <2>1. CallsInv'
    BY <2>0 DEF IInv, CallsInv, StageFits, StaleStays, Principals, Typed
  <2>2. AccountsAreWhole'
    BY <2>0 DEF IInv, AccountsAreWhole, TypeOK, HasEmail
  <2>3. NamesAreHeld' /\ SessionsEnd'
    BY <2>0 DEF IInv, NamesAreHeld, SessionsEnd, Inserted, HasSlug, HasEmail
  <2>4. UploadsAreHeld'
    BY <2>0 DEF IInv, UploadsAreHeld, Owned, Path, HasAssets
  <2>5. ContentIsAccounted'
    BY <2>0 DEF IInv, ContentIsAccounted, Explained, Owned, HasAssets, At
  <2> QED BY <2>1, <2>2, <2>3, <2>4, <2>5 DEF IInv
<1> QED BY <1>1, <1>2, ExpireKeeps DEF Next

\* However registrations and edits of profiles race over the unique indexes, an
\* email has one account and a slug one storefront, and nobody without an
\* account has anything (AuthService, CreatorService, OnboardingService).
THEOREM OneAccountEach == Spec => []AccountsAreWhole
<1>1. IInv => AccountsAreWhole
  BY DEF IInv
<1> QED BY <1>1, InitIsWhole, StepKeeps, PTL DEF Spec

\* A call sent with a session that was over does nothing, whatever is logged
\* out, issued or expires around it (AuthService.authenticate).
THEOREM EndedSessionsDoNothing == Spec => []SessionsEnd
<1>1. IInv => SessionsEnd
  BY DEF IInv
<1> QED BY <1>1, InitIsWhole, StepKeeps, PTL DEF Spec

\* Wherever the names of uploads lead and however they race and fail, an asset
\* delivers the bytes of its own upload, which was for its drop and by the owner of
\* it; bytes without an asset are explained, and what is published has something
\* to deliver (router.uploadAsset, SupabaseStorageProvider.store, DropService).
THEOREM MediaIsAccounted == Spec => []ContentIsAccounted
<1>1. IInv => ContentIsAccounted
  BY DEF IInv
<1> QED BY <1>1, InitIsWhole, StepKeeps, PTL DEF Spec
=============================================================================

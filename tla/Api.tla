-------------------------------- MODULE Api --------------------------------
(***************************************************************************)
(* The JSON API of the dashboard: registration, login and sessions         *)
(* (AuthService), the profile and its slug (CreatorService), onboarding    *)
(* (OnboardingService), plans, and drops from creation over the upload of  *)
(* their media to publication (DropService, router.uploadAsset).           *)
(*                                                                         *)
(* Calls run concurrently; a service's transaction is at READ COMMITTED,   *)
(* so what it has read may be stale when it writes, and a unique index     *)
(* makes an insert wait for another transaction that has inserted the same *)
(* key.  Rows a transaction has not committed are those its step implies.  *)
(* A creator is active and its rows are never deleted.                     *)
(***************************************************************************)
EXTENDS Naturals, FiniteSets

CONSTANTS Calls, NoCall,
          Creators, NoCreator, Founder,  \* Founder: has an account at first
          Emails, NoEmail, FounderEmail,
          Slugs, NoSlug,
          Drops, FirstDrop,              \* FirstDrop: Founder's draft at first
          Files, Positions,
          Objects, ObjectAt,             \* ObjectAt[c, d, f]: where file f of drop d of c is kept
          MaxTokens,                     \* bound: sessions issued
          MaxFailures                    \* bound: calls that fail

ASSUME NobodyAssumption ==
  NoCreator \notin Creators /\ NoEmail \notin Emails /\ NoSlug \notin Slugs /\ NoCall \notin Calls
\* Nothing more: a file name is taken as it comes, and one with path separators
\* in it may lead to an object of another drop.
ASSUME ObjectAssumption == ObjectAt \in [Creators \X Drops \X Files -> Objects]
ASSUME FounderAssumption ==
  Founder \in Creators /\ FounderEmail \in Emails /\ FirstDrop \in Drops
ASSUME BoundAssumption == MaxTokens \in Nat \ {0} /\ MaxFailures \in Nat

Tokens == 1..MaxTokens

VARIABLES
  call, pc, answer,    \* each call: what it asks, where it is, its answer
  who,                 \* the principal of a call
  stale,               \* calls whose session had ended when they were sent
  emailOf,             \* creator_identities, of the creators that have one
  slugOf, onboarded,   \* creators.slug and onboarding_completed_at
  session, issued,     \* the creator each live session is of; tokens issued
  ownerOf, published,  \* drops: their creator, and those published
  bytes,               \* the upload whose bytes each object in storage has
  assets,              \* drop_assets, each with the upload it is from
  plans,               \* active plans of each creator
  failures

callVars == <<call, pc, answer, who, stale>>
accountVars == <<emailOf, slugOf, onboarded>>
sessionVars == <<session, issued>>
contentVars == <<ownerOf, published, bytes, assets, plans>>
rowVars == <<accountVars, sessionVars, contentVars>>
vars == <<callVars, rowVars, failures>>

Nothing == [op |-> "nothing"]
WithToken == [op : {"logout", "complete", "createDrop", "createPlan"}, token : 1..issued]
Requests ==
  [op : {"register"}, email : Emails, slug : Slugs \union {NoSlug}]
    \union [op : {"login"}, email : Emails]
    \union WithToken
    \union [op : {"profile"}, token : 1..issued, slug : Slugs]
    \union [op : {"upload"}, token : 1..issued, drop : Drops, file : Files, position : Positions]
    \union [op : {"publish"}, token : 1..issued, drop : Drops]

Init ==
  /\ call = [r \in Calls |-> Nothing]
  /\ pc = [r \in Calls |-> "unsent"]
  /\ answer = [r \in Calls |-> "none"]
  /\ who = [r \in Calls |-> NoCreator]
  /\ stale = {}
  /\ emailOf = [c \in Creators |-> IF c = Founder THEN FounderEmail ELSE NoEmail]
  /\ slugOf = [c \in Creators |-> NoSlug]
  /\ onboarded = {}
  /\ session = [t \in Tokens |-> IF t = 1 THEN Founder ELSE NoCreator]
  /\ issued = 1
  /\ ownerOf = [d \in Drops |-> IF d = FirstDrop THEN Founder ELSE NoCreator]
  /\ published = {} /\ bytes = [o \in Objects |-> NoCall] /\ assets = {}
  /\ plans = [c \in Creators |-> 0]
  /\ failures = 0

At(r, where) == pc[r] = where
Goto(r, where) == pc' = [pc EXCEPT ![r] = where] /\ UNCHANGED <<call, answer, who, stale>>

Answer(r, code) ==
  /\ pc' = [pc EXCEPT ![r] = "done"]
  /\ answer' = [answer EXCEPT ![r] = code]
  /\ UNCHANGED <<call, who, stale>>

\* A call of the database or the storage fails, or the process dies.
Error == failures < MaxFailures /\ failures' = failures + 1

\* The last write of a call: it is answered, unless that write reports an
\* error although it was made.
Finish(r, code) ==
  \/ Answer(r, code) /\ UNCHANGED failures
  \/ Answer(r, "internal") /\ Error

\* An AppError, of any code: 4xx.  An exception: 500.
Refuse(r) == Answer(r, "refused") /\ UNCHANGED <<rowVars, failures>>
Throw(r) == Answer(r, "internal") /\ UNCHANGED <<rowVars, failures>>
Proceed(r, where) == Goto(r, where) /\ UNCHANGED <<rowVars, failures>>

-----------------------------------------------------------------------------
(* The router *)

Public == {"register", "login"}

Send(r, request) ==
  /\ At(r, "unsent")
  /\ call' = [call EXCEPT ![r] = request]
  /\ pc' = [pc EXCEPT ![r] = IF request.op \in Public THEN request.op ELSE "authenticate"]
  /\ stale' = IF request.op \notin Public /\ session[request.token] = NoCreator
              THEN stale \union {r} ELSE stale
  /\ UNCHANGED <<answer, who, rowVars, failures>>

\* The bucket of the client's address, and of the email of a login, are used
\* by other calls too, so they may be full at any time.
Limit(r) == pc[r] \in Public /\ Refuse(r)

\* Slip: a session whose row is gone or which is over still counts.
AnyToken(t) == IF session[t] = NoCreator THEN Founder ELSE session[t]
\* AuthService.authenticate
Principal(t) == session[t]

\* The session, and then the bucket of the creator, which may be full.
Authenticate(r) ==
  LET c == Principal(call[r].token) IN
  /\ At(r, "authenticate")
  /\ \/ Refuse(r)
     \/ /\ c # NoCreator
        /\ who' = [who EXCEPT ![r] = c]
        /\ pc' = [pc EXCEPT ![r] = call[r].op]
        /\ UNCHANGED <<call, answer, stale, rowVars, failures>>

\* Any step throws: a transaction in it is rolled back.
Fail(r) ==
  /\ pc[r] \notin {"unsent", "done"}
  /\ Error
  /\ Answer(r, "internal")
  /\ UNCHANGED rowVars

-----------------------------------------------------------------------------
(* AuthService *)

\* A session is issued, which lasts until it is deleted or expires.
Issue(c) ==
  /\ issued < MaxTokens
  /\ issued' = issued + 1
  /\ session' = [session EXCEPT ![issued + 1] = c]

HasEmail(email) == \E c \in Creators : emailOf[c] = email
HasSlug(slug) == slug # NoSlug /\ \E c \in Creators : slugOf[c] = slug

\* Transactions that have inserted a row with this slug, or email, and have
\* not committed: an insert of the same key waits for them.
InsertedSlug(slug) ==
  {r \in Calls : pc[r] \in {"identity", "commit"} /\ slug # NoSlug /\ call[r].slug = slug}
InsertedEmail(email) == {r \in Calls : At(r, "commit") /\ call[r].email = email}

\* register: the reads of its transaction.
Register(r) ==
  /\ At(r, "register")
  /\ IF HasEmail(call[r].email) \/ HasSlug(call[r].slug)
     THEN Refuse(r)
     ELSE Proceed(r, "creator")

\* The row of creators, whose slug is unique.
InsertCreator(r) ==
  /\ At(r, "creator")
  /\ InsertedSlug(call[r].slug) = {}
  /\ IF HasSlug(call[r].slug) THEN Throw(r) ELSE Proceed(r, "identity")

\* Slip: nothing stops a second identity with the email.
NotUnique(email) == FALSE
\* The unique index on creator_identities.email, at an insert.
TakenEmail(email) == HasEmail(email)

\* The row of creator_identities, whose email is unique.
InsertIdentity(r) ==
  /\ At(r, "identity")
  /\ InsertedEmail(call[r].email) = {}
  /\ IF TakenEmail(call[r].email) THEN Throw(r) ELSE Proceed(r, "commit")

\* The audit and the session, and the commit of all four rows.
Commit(r, c) ==
  /\ At(r, "commit")
  /\ emailOf[c] = NoEmail
  /\ emailOf' = [emailOf EXCEPT ![c] = call[r].email]
  /\ slugOf' = [slugOf EXCEPT ![c] = call[r].slug]
  /\ Issue(c)
  /\ Finish(r, "ok")
  /\ UNCHANGED <<onboarded, contentVars>>

\* login: the identity of the email, and whether the password is right, which
\* it may not be.
Login(r) ==
  /\ At(r, "login")
  /\ Refuse(r) \/ (HasEmail(call[r].email) /\ Proceed(r, "issue"))

IssueSession(r) ==
  /\ At(r, "issue")
  /\ \E c \in Creators : emailOf[c] = call[r].email /\ Issue(c)
  /\ Finish(r, "ok")
  /\ UNCHANGED <<accountVars, contentVars>>

Logout(r) ==
  /\ At(r, "logout")
  /\ session' = [session EXCEPT ![call[r].token] = NoCreator]
  /\ Finish(r, "ok")
  /\ UNCHANGED <<issued, accountVars, contentVars>>

\* sessionTtlHours are over.
Expire(t) ==
  /\ session[t] # NoCreator
  /\ session' = [session EXCEPT ![t] = NoCreator]
  /\ UNCHANGED <<callVars, issued, accountVars, contentVars, failures>>

-----------------------------------------------------------------------------
(* CreatorService, OnboardingService and createPlan *)

TakenByOther(r) == \E c \in Creators \ {who[r]} : slugOf[c] = call[r].slug

\* updateProfile with a slug: whether another creator has it.
Profile(r) ==
  /\ At(r, "profile")
  /\ IF TakenByOther(r) THEN Refuse(r) ELSE Proceed(r, "update")

UpdateProfile(r) ==
  /\ At(r, "update")
  /\ InsertedSlug(call[r].slug) = {}
  /\ IF TakenByOther(r)
     THEN Throw(r)
     ELSE /\ slugOf' = [slugOf EXCEPT ![who[r]] = call[r].slug]
          /\ Finish(r, "ok")
          /\ UNCHANGED <<emailOf, onboarded, sessionVars, contentVars>>

Complete(r) ==
  /\ At(r, "complete")
  /\ CASE who[r] \in onboarded -> Answer(r, "ok") /\ UNCHANGED <<rowVars, failures>>
       [] who[r] \notin onboarded /\ slugOf[who[r]] = NoSlug -> Refuse(r)
       [] OTHER -> Proceed(r, "mark")

\* markOnboarded, whatever has happened since the read.
MarkOnboarded(r) ==
  /\ At(r, "mark")
  /\ onboarded' = onboarded \union {who[r]}
  /\ Finish(r, "ok")
  /\ UNCHANGED <<emailOf, slugOf, sessionVars, contentVars>>

CreatePlan(r) ==
  /\ At(r, "createPlan")
  /\ plans' = [plans EXCEPT ![who[r]] = @ + 1]
  /\ Finish(r, "ok")
  /\ UNCHANGED <<accountVars, sessionVars, ownerOf, published, bytes, assets>>

-----------------------------------------------------------------------------
(* DropService and uploadAsset *)

CreateDrop(r, d) ==
  /\ At(r, "createDrop")
  /\ ownerOf[d] = NoCreator
  /\ ownerOf' = [ownerOf EXCEPT ![d] = who[r]]
  /\ Finish(r, "ok")
  /\ UNCHANGED <<accountVars, sessionVars, published, bytes, assets, plans>>

\* The drop exists and is the caller's.
Owned(r) == ownerOf[call[r].drop] = who[r]

\* getOwnedDrop
Upload(r) ==
  /\ At(r, "upload")
  /\ IF Owned(r) THEN Proceed(r, "store") ELSE Refuse(r)

\* buildStoragePath, and the object it leads to.
Path(r) == ObjectAt[who[r], call[r].drop, call[r].file]

\* Slip: upsert, an object of that name is replaced.
Overwrite(path) == FALSE
\* upsert: false, an object of that name stays.
Exists(path) == bytes[path] # NoCall

\* ContentProvider.store: the storage may have the bytes although it failed.
Store(r) ==
  /\ At(r, "store")
  /\ \/ Exists(Path(r)) /\ Throw(r)
     \/ /\ ~Exists(Path(r))
        /\ bytes' = [bytes EXCEPT ![Path(r)] = r]
        /\ \/ Goto(r, "add") /\ UNCHANGED failures
           \/ Answer(r, "internal") /\ Error
        /\ UNCHANGED <<accountVars, sessionVars, ownerOf, published, assets, plans>>

PositionTaken(r) == \E a \in assets : a.drop = call[r].drop /\ a.position = call[r].position

\* addAsset: the row, whose position in the drop is unique.
AddAsset(r) ==
  /\ At(r, "add")
  /\ \/ ~Owned(r) /\ Refuse(r)
     \/ Owned(r) /\ PositionTaken(r) /\ Throw(r)
     \/ /\ Owned(r) /\ ~PositionTaken(r)
        /\ assets' = assets \union
             {[drop |-> call[r].drop, position |-> call[r].position, path |-> Path(r), from |-> r]}
        /\ Finish(r, "ok")
        /\ UNCHANGED <<accountVars, sessionVars, ownerOf, published, bytes, plans>>

\* listAssets finds something.
HasAssets(d) == \E a \in assets : a.drop = d

\* publishDrop: what it reads.
Publish(r) ==
  LET d == call[r].drop IN
  /\ At(r, "publish")
  /\ IF Owned(r) /\ d \notin published /\ HasAssets(d)
     THEN Proceed(r, "release")
     ELSE Refuse(r)

\* drops.publish, whatever has happened since the read.
Release(r) ==
  /\ At(r, "release")
  /\ published' = published \union {call[r].drop}
  /\ Finish(r, "ok")
  /\ UNCHANGED <<accountVars, sessionVars, ownerOf, bytes, assets, plans>>

-----------------------------------------------------------------------------

Route(r) == Limit(r) \/ Authenticate(r) \/ Fail(r) \/ \E q \in Requests : Send(r, q)
Auth(r) ==
  \/ Register(r) \/ InsertCreator(r) \/ InsertIdentity(r) \/ \E c \in Creators : Commit(r, c)
  \/ Login(r) \/ IssueSession(r) \/ Logout(r)
Studio(r) ==
  \/ Profile(r) \/ UpdateProfile(r) \/ Complete(r) \/ MarkOnboarded(r) \/ CreatePlan(r)
  \/ Upload(r) \/ Store(r) \/ AddAsset(r) \/ Publish(r) \/ Release(r)
  \/ \E d \in Drops : CreateDrop(r, d)

Next ==
  \/ \E r \in Calls : Route(r) \/ Auth(r) \/ Studio(r)
  \/ \E t \in Tokens : Expire(t)

Spec == Init /\ [][Next]_vars

-----------------------------------------------------------------------------

\* The type of every variable.
TypeOK ==
  /\ DOMAIN call = Calls /\ DOMAIN pc = Calls
  /\ answer \in [Calls -> {"none", "ok", "refused", "internal"}]
  /\ who \in [Calls -> Creators \union {NoCreator}] /\ stale \subseteq Calls
  /\ emailOf \in [Creators -> Emails \union {NoEmail}]
  /\ slugOf \in [Creators -> Slugs \union {NoSlug}] /\ onboarded \subseteq Creators
  /\ session \in [Tokens -> Creators \union {NoCreator}] /\ issued \in Tokens
  /\ ownerOf \in [Drops -> Creators \union {NoCreator}] /\ published \subseteq Drops
  /\ bytes \in [Objects -> Calls \union {NoCall}]
  /\ assets \subseteq [drop : Drops, position : Positions, path : Objects, from : Calls]
  /\ plans \in [Creators -> Nat]
  /\ failures \in 0..MaxFailures

\* However registrations and edits of profiles race, an email has one account
\* and a slug one storefront, nobody without an account has anything, who was
\* told that he is registered is, and who has finished onboarding has a slug
\* to be linked by, also after edits of it.
AccountsAreWhole ==
  /\ TypeOK
  /\ \A c, d \in Creators : c # d =>
       /\ emailOf[c] # NoEmail => emailOf[c] # emailOf[d]
       /\ slugOf[c] # NoSlug => slugOf[c] # slugOf[d]
  /\ \A c \in Creators : emailOf[c] = NoEmail =>
       slugOf[c] = NoSlug /\ c \notin onboarded /\ \A t \in Tokens : session[t] # c
  /\ \A r \in Calls : call[r].op = "register" /\ answer[r] = "ok" => HasEmail(call[r].email)
  /\ \A c \in onboarded : slugOf[c] # NoSlug

\* A call sent after its session was logged out or had expired does nothing.
SessionsEnd == \A r \in stale : who[r] = NoCreator /\ answer[r] # "ok"

\* An upload that has stored bytes was for a drop of its caller, and it has its
\* asset, is on the way to it, or was told of an error.
Explained(r) ==
  /\ call[r].op = "upload" /\ who[r] # NoCreator /\ Owned(r)
  /\ \/ \E a \in assets : a.from = r
     \/ At(r, "add") \/ answer[r] = "internal"

\* However uploads race and fail, and although their names may lead to the same
\* object: an asset is of the drop its upload was for and delivers the bytes of
\* that upload, bytes without an asset are explained, no two assets share their
\* bytes or a position, and a published drop has something to deliver.
ContentIsAccounted ==
  /\ \A o \in Objects : bytes[o] # NoCall => Explained(bytes[o])
  /\ \A a \in assets : bytes[a.path] = a.from /\ call[a.from].drop = a.drop
  /\ \A a, b \in assets : a.path = b.path \/ (a.drop = b.drop /\ a.position = b.position) => a = b
  /\ \A d \in published : HasAssets(d)
=============================================================================

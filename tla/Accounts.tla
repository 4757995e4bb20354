------------------------------ MODULE Accounts ------------------------------
(***************************************************************************)
(* auth/auth.service.ts and users/users.service.ts: a user registers, logs *)
(* in, and uploads an avatar, in requests that are interleaved at their    *)
(* awaits and may be cut off there.  An avatar is a URL: the storage       *)
(* service makes up one for every upload, and a registration may bring any *)
(* URL it likes, that of somebody else's upload included.                  *)
(*                                                                         *)
(* Users are numbered as their rows are created, and stored objects as the *)
(* storage service makes up their names, so a number is never used twice.  *)
(* No operation deletes a user or an object.                               *)
(***************************************************************************)
EXTENDS Naturals, Sequences

CONSTANTS
  Emails,
  Passwords,    \* those users register with
  Wrong,        \* a password nobody registered with
  Requests,     \* the requests that may be in progress at once
  MaxUsers,     \* bound on the rows created in a run
  MaxObjects    \* bound on the objects stored in a run

ASSUME AccountsAssumption ==
  /\ Wrong \notin Passwords
  /\ MaxUsers \in Nat
  /\ MaxObjects \in Nat

VARIABLES
  users,        \* the rows, in the order of their ids
  objects,      \* the uploader of each stored object
  tokens,       \* the payloads signed so far
  requests      \* the requests in progress

vars == <<users, objects, tokens, requests>>

UserType == {"WORKER", "USER"}

\* avatar is 0 for a URL the storage service did not make, or none at all.
User == [email : Emails, password : Passwords, type : UserType, avatar : Nat]

Payload == [sub : Nat, email : Emails, type : UserType]

Idle == [pc |-> "idle"]
Registering == [pc : {"hash"}, user : User]
Comparing ==
  [pc : {"compare"}, given : Passwords \cup {Wrong}, stored : Passwords, payload : Payload]
Signing == [pc : {"sign"}, payload : Payload]
Uploading == [pc : {"upload"}, sub : Nat]
Saving == [pc : {"save"}, sub : Nat, object : Nat]

\* Rows, objects, tokens and requests have their types.
TypeOK ==
  /\ users \in Seq(User)
  /\ objects \in Seq(DOMAIN users)
  /\ tokens \subseteq Payload
  /\ requests \in [Requests ->
       {Idle} \cup Registering \cup Comparing \cup Signing \cup Uploading \cup Saving]

Init ==
  /\ users = <<>>
  /\ objects = <<>>
  /\ tokens = {}
  /\ requests = [r \in Requests |-> Idle]

Goto(r, next) == requests' = [requests EXCEPT ![r] = next]

\* Mutant: the e-mail is signed as the subject.
PayloadByEmail(id, user) ==
  [sub |-> user.email, email |-> user.email, type |-> user.type]

PayloadOf(id, user) == [sub |-> id, email |-> user.email, type |-> user.type]

-----------------------------------------------------------------------------
(* Registration and login.                                                 *)

\* register up to bcrypt.hash.  The body's avatarUrl is only known to be a URL.
Register(r, email, password, type, avatar) ==
  /\ requests[r] = Idle
  /\ Goto(r, [pc |-> "hash", user |->
       [email |-> email, password |-> password, type |-> type, avatar |-> avatar]])
  /\ UNCHANGED <<users, objects, tokens>>

Taken(email) == \E i \in DOMAIN users : users[i].email = email

\* Mutant: an e-mail that is taken has its row updated.
UpsertUser(r) ==
  /\ requests[r].pc = "hash"
  /\ Len(users) < MaxUsers
  /\ LET user == requests[r].user IN
       IF Taken(user.email)
         THEN \E i \in DOMAIN users :
                /\ users[i].email = user.email
                /\ users' = [users EXCEPT ![i] = user]
                /\ Goto(r, [pc |-> "sign", payload |-> PayloadOf(i, user)])
         ELSE /\ users' = Append(users, user)
              /\ Goto(r, [pc |-> "sign", payload |-> PayloadOf(Len(users) + 1, user)])
  /\ UNCHANGED <<objects, tokens>>

\* user.create; the unique index refuses an e-mail that is taken, a 409.
CreateUser(r) ==
  /\ requests[r].pc = "hash"
  /\ Len(users) < MaxUsers
  /\ LET user == requests[r].user IN
       IF Taken(user.email)
         THEN Goto(r, Idle) /\ UNCHANGED users
         ELSE /\ users' = Append(users, user)
              /\ Goto(r, [pc |-> "sign", payload |-> PayloadOf(Len(users) + 1, user)])
  /\ UNCHANGED <<objects, tokens>>

\* login up to bcrypt.compare, for an e-mail some user has.
Login(r, email, password) ==
  /\ requests[r] = Idle
  /\ \E i \in DOMAIN users :
       /\ users[i].email = email
       /\ Goto(r, [pc |-> "compare", given |-> password,
                   stored |-> users[i].password, payload |-> PayloadOf(i, users[i])])
  /\ UNCHANGED <<users, objects, tokens>>

\* Mutant: the arguments of bcrypt.compare are swapped, and nothing matches.
CompareSwapped(r) ==
  /\ requests[r].pc = "compare"
  /\ Goto(r, Idle)
  /\ UNCHANGED <<users, objects, tokens>>

\* The answer of bcrypt.compare: a wrong password is a 401.
Compare(r) ==
  /\ requests[r].pc = "compare"
  /\ Goto(r, IF requests[r].given = requests[r].stored
               THEN [pc |-> "sign", payload |-> requests[r].payload]
               ELSE Idle)
  /\ UNCHANGED <<users, objects, tokens>>

\* signAsync, and the answer.
Sign(r) ==
  /\ requests[r].pc = "sign"
  /\ tokens' = tokens \cup {requests[r].payload}
  /\ Goto(r, Idle)
  /\ UNCHANGED <<users, objects>>

-----------------------------------------------------------------------------
(* Avatars.                                                                *)

\* uploadAvatar with a valid file, for the user the token names: the payload
\* is trusted as it was signed.
UploadAvatar(r, token) ==
  /\ requests[r] = Idle
  /\ Goto(r, [pc |-> "upload", sub |-> token.sub])
  /\ UNCHANGED <<users, objects, tokens>>

\* Mutant: the user's row is written before the object is stored.
SaveBeforeStore(r) ==
  /\ requests[r].pc = "upload"
  /\ Len(objects) < MaxObjects
  /\ users' = [users EXCEPT ![requests[r].sub].avatar = Len(objects) + 1]
  /\ Goto(r, Idle)
  /\ UNCHANGED <<objects, tokens>>

\* storage.upload under a fresh name.
StoreObject(r) ==
  /\ requests[r].pc = "upload"
  /\ Len(objects) < MaxObjects
  /\ objects' = Append(objects, requests[r].sub)
  /\ Goto(r, [pc |-> "save", sub |-> requests[r].sub, object |-> Len(objects) + 1])
  /\ UNCHANGED <<users, tokens>>

\* user.update with the object's URL.
SaveUrl(r) ==
  /\ requests[r].pc = "save"
  /\ users' = [users EXCEPT ![requests[r].sub].avatar = requests[r].object]
  /\ Goto(r, Idle)
  /\ UNCHANGED <<objects, tokens>>

\* A request that is cut off, or an upload or a query that fails.  What was
\* written stays: a user without a token, an object no row names.
Abort(r) ==
  /\ requests[r] # Idle
  /\ Goto(r, Idle)
  /\ UNCHANGED <<users, objects, tokens>>

Next ==
  \E r \in Requests :
    \/ \E email \in Emails, password \in Passwords, type \in UserType,
          avatar \in {0} \cup DOMAIN objects :
         Register(r, email, password, type, avatar)
    \/ CreateUser(r)
    \/ \E email \in Emails, password \in Passwords \cup {Wrong} : Login(r, email, password)
    \/ Compare(r)
    \/ Sign(r)
    \/ \E token \in tokens : UploadAvatar(r, token)
    \/ StoreObject(r)
    \/ SaveUrl(r)
    \/ Abort(r)

Spec == Init /\ [][Next]_vars

(***************************************************************************)
(* Fairness: a request ends in some way, a user without a token goes on    *)
(* logging in with the right password, and of those logins not every one   *)
(* is cut off.                                                             *)
(***************************************************************************)
Runs(r) ==
  CreateUser(r) \/ Compare(r) \/ Sign(r) \/ StoreObject(r) \/ SaveUrl(r) \/ Abort(r)

LogsIn(u) ==
  /\ u \in DOMAIN users
  /\ \E r \in Requests : Login(r, users[u].email, users[u].password)

\* A request of u's passes bcrypt.compare, or gets its token signed.
Succeeds(u, pc) ==
  \E r \in Requests :
    /\ requests[r].pc = pc
    /\ requests[r].payload.sub = u
    /\ Compare(r) \/ Sign(r)
    /\ pc = "compare" => requests'[r] # Idle

Fairness ==
  /\ \A r \in Requests : WF_vars(Runs(r))
  /\ \A u \in 1..MaxUsers :
       /\ SF_vars(LogsIn(u))
       /\ SF_vars(Succeeds(u, "compare"))
       /\ SF_vars(Succeeds(u, "sign"))

FairSpec == Spec /\ Fairness

-----------------------------------------------------------------------------
(* Properties.                                                             *)

\* JwtStrategy.validate trusts a token without reading the user, for seven
\* days: so every token must go on saying what the user's row says.
TokensTellTheRow ==
  \A t \in tokens :
    /\ t.sub \in DOMAIN users
    /\ t.email = users[t.sub].email
    /\ t.type = users[t.sub].type

\* Whatever URL a user registered with, it gives way only to that of a stored
\* object, and of the user's own upload, whichever of several uploads was cut
\* off or overtaken (uploadAvatar).
AvatarChangesToOwn ==
  [][\A u \in DOMAIN users :
       users'[u].avatar # users[u].avatar =>
         /\ users'[u].avatar \in DOMAIN objects'
         /\ objects'[users'[u].avatar] = u]_vars

\* A registration that was cut off between user.create and signAsync, and is
\* refused as taken when it is repeated, locks nobody out: whoever has a row
\* and goes on logging in gets a token (login).
RegisteredGetsIn ==
  \A u \in 1..MaxUsers :
    (u \in DOMAIN users) ~> (\E t \in tokens : t.sub = u)

\* The strengthening that makes the two inductive: what a request carries to
\* signAsync, storage.upload or user.update names a row that says the same.
RequestTrue(r) ==
  /\ r.pc \in {"compare", "sign"} =>
       /\ r.payload.sub \in DOMAIN users
       /\ r.payload = PayloadOf(r.payload.sub, users[r.payload.sub])
  /\ r.pc = "upload" => r.sub \in DOMAIN users
  /\ r.pc = "save" =>
       /\ r.sub \in DOMAIN users
       /\ r.object \in DOMAIN objects
       /\ objects[r.object] = r.sub

IInv ==
  /\ TypeOK
  /\ TokensTellTheRow
  /\ \A r \in Requests : RequestTrue(requests[r])
=============================================================================

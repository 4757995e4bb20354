--------------------------- MODULE AccountsProofs ---------------------------
(***************************************************************************)
(* Theorems about Accounts, for every number of requests, e-mails and      *)
(* passwords, and every bound.                                             *)
(***************************************************************************)
EXTENDS Accounts, TLAPS, SequenceTheorems

LEMMA AppendFacts ==
  ASSUME NEW S, NEW s \in Seq(S), NEW e \in S
  PROVE  /\ Append(s, e) \in Seq(S)
         /\ DOMAIN Append(s, e) = DOMAIN s \cup {Len(s) + 1}
         /\ Len(s) + 1 \in Nat
         /\ Len(s) + 1 \notin DOMAIN s
         /\ \A i \in DOMAIN s : Append(s, e)[i] = s[i]
         /\ Append(s, e)[Len(s) + 1] = e
  OBVIOUS

\* A sequence over a set is one over a larger set.
LEMMA SeqGrows ==
  ASSUME NEW S, NEW T, S \subseteq T, NEW s \in Seq(S)
  PROVE  s \in Seq(T)
  OBVIOUS

Request ==
  {Idle} \cup Registering \cup Comparing \cup Signing \cup Uploading \cup Saving

\* A request's record is told by its pc.
LEMMA RequestCases ==
  ASSUME TypeOK, NEW r \in Requests
  PROVE  /\ requests[r] \in Request
         /\ requests[r].pc = "hash" => requests[r] \in Registering
         /\ requests[r].pc = "compare" => requests[r] \in Comparing
         /\ requests[r].pc = "sign" => requests[r] \in Signing
         /\ requests[r].pc = "upload" => requests[r] \in Uploading
         /\ requests[r].pc = "save" => requests[r] \in Saving
  BY DEF TypeOK, Request, Idle, Registering, Comparing, Signing, Uploading, Saving

LEMMA PayloadType ==
  ASSUME NEW user \in User, NEW i \in Nat
  PROVE  PayloadOf(i, user) \in Payload
  BY DEF User, Payload, PayloadOf

-----------------------------------------------------------------------------
(* What later steps may rely on: rows and objects are only added, and of a *)
(* row nothing but its avatar ever changes.                                *)

Grows ==
  /\ DOMAIN users \subseteq DOMAIN users'
  /\ \A i \in DOMAIN users : PayloadOf(i, users[i]) = PayloadOf(i, users[i])'
  /\ DOMAIN objects \subseteq DOMAIN objects'
  /\ \A i \in DOMAIN objects : objects'[i] = objects[i]

LEMMA RequestTrueStable ==
  ASSUME Grows, NEW q, RequestTrue(q)
  PROVE  RequestTrue(q)'
  BY DEF Grows, RequestTrue, PayloadOf

LEMMA TokensStable ==
  ASSUME Grows, TokensTellTheRow, UNCHANGED tokens
  PROVE  TokensTellTheRow'
  BY DEF Grows, TokensTellTheRow, PayloadOf

\* A request that goes on, over tables that only grow, leaves every request
\* typed and true.
LEMMA GotoStep ==
  ASSUME IInv, Grows, NEW r \in Requests, NEW q \in Request, Goto(r, q),
         RequestTrue(q)'
  PROVE  /\ requests' \in [Requests -> Request]
         /\ \A s \in Requests : RequestTrue(requests[s])'
<1>1. requests \in [Requests -> Request]
  BY DEF IInv, TypeOK, Request
<1>2. requests' = [requests EXCEPT ![r] = q]
  BY DEF Goto
<1>3. ASSUME NEW s \in Requests PROVE RequestTrue(requests[s])'
  <2>1. CASE s = r
    <3>1. requests'[s] = q
      BY <1>1, <1>2, <2>1
    <3> QED
      BY <3>1 DEF RequestTrue
  <2>2. CASE s # r
    <3>1. requests'[s] = requests[s]
      BY <1>1, <1>2, <2>2
    <3>2. RequestTrue(requests[s])
      BY DEF IInv
    <3> QED
      BY <3>1, <3>2, RequestTrueStable DEF RequestTrue
  <2> QED
    BY <2>1, <2>2
<1> QED
  BY <1>1, <1>2, <1>3

\* The steps that only read, as most of a request does.
LEMMA ReadStep ==
  ASSUME IInv, NEW r \in Requests, NEW q \in Request, Goto(r, q), RequestTrue(q),
         UNCHANGED <<users, objects, tokens>>
  PROVE  IInv'
<1>1. Grows
  BY DEF Grows, PayloadOf
<1>2. RequestTrue(q)'
  BY <1>1, RequestTrueStable
<1>3. /\ requests' \in [Requests -> Request]
      /\ \A s \in Requests : RequestTrue(requests[s])'
  BY <1>1, <1>2, GotoStep
<1>4. TokensTellTheRow'
  BY DEF IInv, TokensTellTheRow
<1> QED
  BY <1>3, <1>4 DEF IInv, TypeOK, Request

-----------------------------------------------------------------------------
LEMMA InitIInv == Init => IInv
<1> SUFFICES ASSUME Init PROVE IInv
  OBVIOUS
<1>1. TypeOK
  BY DEF Init, TypeOK
<1>2. TokensTellTheRow
  BY DEF Init, TokensTellTheRow
<1>3. \A r \in Requests : RequestTrue(requests[r])
  BY DEF Init, RequestTrue, Idle
<1> QED
  BY <1>1, <1>2, <1>3 DEF IInv

LEMMA IdleTrue == Idle \in Request /\ RequestTrue(Idle)
  BY DEF Request, RequestTrue, Idle

LEMMA StepIInv == IInv /\ [Next]_vars => IInv'
<1> SUFFICES ASSUME IInv, [Next]_vars PROVE IInv'
  OBVIOUS
<1>t. TypeOK
  BY DEF IInv
<1>1. ASSUME NEW r \in Requests, NEW email \in Emails, NEW password \in Passwords,
             NEW type \in UserType, NEW avatar \in {0} \cup DOMAIN objects,
             Register(r, email, password, type, avatar)
      PROVE  IInv'
  <2> DEFINE q == [pc |-> "hash", user |->
        [email |-> email, password |-> password, type |-> type, avatar |-> avatar]]
  <2>0. avatar \in Nat
    BY <1>t DEF TypeOK
  <2>1. q \in Request /\ RequestTrue(q)
    BY <2>0 DEF Request, Registering, User, RequestTrue
  <2> QED
    BY <1>1, <2>1, ReadStep DEF Register
<1>2. ASSUME NEW r \in Requests, CreateUser(r) PROVE IInv'
  <2> DEFINE user == requests[r].user
             row  == Len(users) + 1
  <2>0. PICK q : q = [pc |-> "sign", payload |-> PayloadOf(row, user)]
    OBVIOUS
  <2>1. user \in User
    BY <1>2, <1>t, RequestCases DEF CreateUser, Registering
  <2>2. CASE Taken(user.email)
    BY <1>2, <2>2, IdleTrue, ReadStep DEF CreateUser
  <2>3. CASE ~Taken(user.email)
    <3>1. /\ users' = Append(users, user)
          /\ Goto(r, q)
          /\ UNCHANGED <<objects, tokens>>
      BY <1>2, <2>0, <2>3 DEF CreateUser
    <3>2. users \in Seq(User)
      BY <1>t DEF TypeOK
    <3>3. /\ users' \in Seq(User)
          /\ DOMAIN users' = DOMAIN users \cup {row}
          /\ row \in Nat
          /\ row \notin DOMAIN users
          /\ \A i \in DOMAIN users : users'[i] = users[i]
          /\ users'[row] = user
      BY <2>1, <3>1, <3>2, AppendFacts
    <3>4. Grows
      BY <3>1, <3>3 DEF Grows, PayloadOf
    <3>5. q \in Request /\ RequestTrue(q)'
      <4>1. q \in Request
        BY <2>0, <2>1, <3>3, PayloadType DEF Request, Signing
      <4>2. /\ q.pc = "sign"
            /\ q.payload.sub = row
            /\ q.payload = PayloadOf(row, user)
        BY <2>0 DEF PayloadOf
      <4> QED
        BY <3>3, <4>1, <4>2 DEF RequestTrue, PayloadOf
    <3>6. /\ requests' \in [Requests -> Request]
          /\ \A s \in Requests : RequestTrue(requests[s])'
      BY <3>1, <3>4, <3>5, GotoStep
    <3>7. TokensTellTheRow'
      BY <3>1, <3>4, TokensStable DEF IInv
    <3>8. objects' \in Seq(DOMAIN users')
      BY <1>t, <3>1, <3>4, SeqGrows DEF TypeOK, Grows
    <3> QED
      BY <1>t, <3>1, <3>3, <3>6, <3>7, <3>8 DEF IInv, TypeOK, Request
  <2> QED
    BY <2>2, <2>3
<1>3. ASSUME NEW r \in Requests, NEW email \in Emails,
             NEW password \in Passwords \cup {Wrong},
             Login(r, email, password)
      PROVE  IInv'
  <2>1. PICK i \in DOMAIN users :
          Goto(r, [pc |-> "compare", given |-> password,
                   stored |-> users[i].password, payload |-> PayloadOf(i, users[i])])
    BY <1>3 DEF Login
  <2> DEFINE q == [pc |-> "compare", given |-> password,
                   stored |-> users[i].password, payload |-> PayloadOf(i, users[i])]
  <2>2. users[i] \in User /\ i \in Nat
    BY <1>t DEF TypeOK
  <2>3. q \in Request
    BY <2>2, PayloadType DEF Request, Comparing, User
  <2>4. RequestTrue(q)
    BY <2>2 DEF RequestTrue, PayloadOf
  <2> QED
    BY <1>3, <2>1, <2>3, <2>4, ReadStep DEF Login
<1>4. ASSUME NEW r \in Requests, Compare(r) PROVE IInv'
  <2> DEFINE q == [pc |-> "sign", payload |-> requests[r].payload]
  <2>1. q \in Request /\ RequestTrue(q)
    BY <1>4, <1>t, RequestCases
       DEF Compare, Comparing, Request, Signing, IInv, RequestTrue
  <2>2. Goto(r, q) \/ Goto(r, Idle)
    BY <1>4 DEF Compare
  <2> QED
    BY <1>4, <2>1, <2>2, IdleTrue, ReadStep DEF Compare
<1>5. ASSUME NEW r \in Requests, Sign(r) PROVE IInv'
  <2>1. /\ requests[r].payload \in Payload
        /\ RequestTrue(requests[r])
    BY <1>5, <1>t, RequestCases DEF Sign, Signing, IInv
  <2>2. Grows
    BY <1>5 DEF Sign, Grows, PayloadOf
  <2>3. RequestTrue(Idle)'
    BY DEF RequestTrue, Idle
  <2>4. /\ requests' \in [Requests -> Request]
        /\ \A s \in Requests : RequestTrue(requests[s])'
    BY <1>5, <2>2, <2>3, IdleTrue, GotoStep DEF Sign
  <2>5. TokensTellTheRow'
    BY <1>5, <2>1 DEF Sign, IInv, TokensTellTheRow, RequestTrue, PayloadOf
  <2> QED
    BY <1>5, <1>t, <2>1, <2>4, <2>5 DEF Sign, IInv, TypeOK, Request
<1>6. ASSUME NEW r \in Requests, NEW token \in tokens, UploadAvatar(r, token)
      PROVE  IInv'
  <2> DEFINE q == [pc |-> "upload", sub |-> token.sub]
  <2>1. q \in Request /\ RequestTrue(q)
    BY <1>t DEF TypeOK, Payload, Request, Uploading, IInv, TokensTellTheRow, RequestTrue
  <2> QED
    BY <1>6, <2>1, ReadStep DEF UploadAvatar
<1>7. ASSUME NEW r \in Requests, StoreObject(r) PROVE IInv'
  <2> DEFINE sub == requests[r].sub
             new == Len(objects) + 1
  <2>0. PICK q : q = [pc |-> "save", sub |-> sub, object |-> new]
    OBVIOUS
  <2>1. sub \in DOMAIN users
    BY <1>7 DEF StoreObject, IInv, RequestTrue
  <2>2. objects \in Seq(DOMAIN users) /\ sub \in Nat
    BY <1>7, <1>t, RequestCases DEF TypeOK, StoreObject, Uploading
  <2>3. /\ objects' \in Seq(DOMAIN users)
        /\ DOMAIN objects' = DOMAIN objects \cup {new}
        /\ new \in Nat
        /\ new \notin DOMAIN objects
        /\ \A i \in DOMAIN objects : objects'[i] = objects[i]
        /\ objects'[new] = sub
    BY <1>7, <2>1, <2>2, AppendFacts DEF StoreObject
  <2>4. Grows
    BY <1>7, <2>3 DEF StoreObject, Grows, PayloadOf
  <2>5. q \in Request /\ RequestTrue(q)'
    BY <1>7, <2>0, <2>1, <2>2, <2>3 DEF StoreObject, Request, Saving, RequestTrue
  <2>6. /\ requests' \in [Requests -> Request]
        /\ \A s \in Requests : RequestTrue(requests[s])'
    BY <1>7, <2>0, <2>4, <2>5, GotoStep DEF StoreObject
  <2>7. TokensTellTheRow'
    BY <1>7, <2>4, TokensStable DEF StoreObject, IInv
  <2> QED
    BY <1>7, <1>t, <2>3, <2>6, <2>7 DEF StoreObject, IInv, TypeOK, Request
<1>8. ASSUME NEW r \in Requests, SaveUrl(r) PROVE IInv'
  <2> DEFINE sub == requests[r].sub
             obj == requests[r].object
             row == [users[sub] EXCEPT !.avatar = obj]
  <2>1. /\ sub \in DOMAIN users
        /\ obj \in DOMAIN objects
        /\ objects[obj] = sub
    BY <1>8 DEF SaveUrl, IInv, RequestTrue
  <2>2. /\ users \in Seq(User)
        /\ obj \in Nat
    BY <1>8, <1>t, RequestCases DEF TypeOK, SaveUrl, Saving
  <2>3. /\ row \in User
        /\ row.avatar = obj
        /\ PayloadOf(sub, row) = PayloadOf(sub, users[sub])
    <3>1. users[sub] \in User
      BY <2>1, <2>2
    <3>2. row \in User /\ row.avatar = obj
      BY <2>2, <3>1 DEF User
    <3>3. row.email = users[sub].email /\ row.type = users[sub].type
      BY <3>1 DEF User
    <3> QED
      BY <3>2, <3>3 DEF PayloadOf
  <2>4. users' = [users EXCEPT ![sub] = row]
    BY <1>8 DEF SaveUrl
  <2>5. /\ users' \in Seq(User)
        /\ DOMAIN users' = DOMAIN users
        /\ \A i \in DOMAIN users : users'[i] = IF i = sub THEN row ELSE users[i]
    BY <2>1, <2>2, <2>3, <2>4, ExceptSeq
  <2>6. Grows
    BY <1>8, <2>3, <2>5 DEF SaveUrl, Grows, PayloadOf
  <2>7. RequestTrue(Idle)'
    BY DEF RequestTrue, Idle
  <2>8. /\ requests' \in [Requests -> Request]
        /\ \A s \in Requests : RequestTrue(requests[s])'
    BY <1>8, <2>6, <2>7, IdleTrue, GotoStep DEF SaveUrl
  <2>9. TokensTellTheRow'
    BY <1>8, <2>6, TokensStable DEF SaveUrl, IInv
  <2> QED
    BY <1>8, <1>t, <2>5, <2>8, <2>9 DEF SaveUrl, IInv, TypeOK, Request
<1>9. ASSUME NEW r \in Requests, Abort(r) PROVE IInv'
  BY <1>9, IdleTrue, ReadStep DEF Abort
<1>10. CASE UNCHANGED vars
  BY <1>10
     DEF vars, IInv, TypeOK, TokensTellTheRow, RequestTrue, PayloadOf
<1> QED
  BY <1>1, <1>2, <1>3, <1>4, <1>5, <1>6, <1>7, <1>8, <1>9, <1>10 DEF Next

\* Every variable keeps its type, with any number of registrations, logins
\* and uploads in progress.
THEOREM TypeCorrect == Spec => []TypeOK
<1>1. IInv => TypeOK
  BY DEF IInv
<1> QED
  BY <1>1, InitIInv, StepIInv, PTL DEF Spec

\* A token never says anything else than its user's row: not when the login
\* it came from was overtaken by other requests, nor later.
THEOREM TokensAreTrue == Spec => []TokensTellTheRow
<1>1. IInv => TokensTellTheRow
  BY DEF IInv
<1> QED
  BY <1>1, InitIInv, StepIInv, PTL DEF Spec

-----------------------------------------------------------------------------
(* Avatars.                                                                *)

\* One step: only user.update of uploadAvatar changes the row of a user that
\* is there, and the request that runs it carries its own upload.
LEMMA AvatarSteps ==
  ASSUME IInv, [Next]_vars, NEW u \in DOMAIN users,
         users'[u].avatar # users[u].avatar
  PROVE  /\ users'[u].avatar \in DOMAIN objects'
         /\ objects'[users'[u].avatar] = u
<1>t. TypeOK
  BY DEF IInv
<1>1. ASSUME NEW r \in Requests, SaveUrl(r)
      PROVE  users'[u].avatar \in DOMAIN objects' /\ objects'[users'[u].avatar] = u
  <2>1. /\ requests[r].object \in DOMAIN objects
        /\ objects[requests[r].object] = requests[r].sub
        /\ UNCHANGED objects
    BY <1>1 DEF SaveUrl, IInv, RequestTrue
  <2>2. users \in Seq(User) /\ users[u] \in User
    BY <1>t DEF TypeOK
  <2>3. u = requests[r].sub /\ users'[u].avatar = requests[r].object
    BY <1>1, <2>2 DEF SaveUrl, User
  <2> QED
    BY <2>1, <2>3
<1>2. ASSUME NEW r \in Requests, CreateUser(r) PROVE users'[u] = users[u]
  BY <1>2, <1>t, AppendFacts, RequestCases DEF CreateUser, TypeOK, Registering
<1>3. UNCHANGED users => users'[u] = users[u]
  OBVIOUS
<1> QED
  BY <1>1, <1>2, <1>3
     DEF Next, Register, Login, Compare, Sign, UploadAvatar, StoreObject, Abort, vars

\* A user's avatar changes only to a stored object of the user's own upload,
\* however uploads overtake each other or are cut off, and whatever URL anyone
\* registered with.
THEOREM AvatarsChangeToOwn == Spec => AvatarChangesToOwn
<1> DEFINE Own ==
      \A u \in DOMAIN users :
        users'[u].avatar # users[u].avatar =>
          /\ users'[u].avatar \in DOMAIN objects'
          /\ objects'[users'[u].avatar] = u
<1>1. IInv /\ [Next]_vars => [Own]_vars
  BY AvatarSteps
<1> QED
  BY <1>1, InitIInv, StepIInv, PTL DEF Spec, AvatarChangesToOwn
=============================================================================

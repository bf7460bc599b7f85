----------------------- MODULE UserRegistrationProofs -----------------------
(***************************************************************************)
(* Theorems about UserRegistration: types and tokens over both             *)
(* repositories, and over Postgres the refinement of AccountPromise.       *)
(***************************************************************************)
EXTENDS UserRegistration, TLAPS

\* Among the users with an address one is the first.  Sets of numbers have a
\* least element by induction; here it is kept along the behaviour.
HaveFirst ==
  \A e \in Emails : With(e) # {} => \E i \in With(e) : \A j \in With(e) : i <= j

\* Postgres loses no user and has no address twice.
Kept == Storage = "prisma" => lost = 0 /\ OneUserPerAddress

\* A login that compares found a user with its address.
RequestsFit ==
  /\ requests \in [Requests -> Request \cup {Idle}]
  /\ \A r \in Requests : requests[r].at = "compare" =>
       /\ requests[r].user \in 1 .. Len(users)
       /\ users[requests[r].user].email = requests[r].email

RegistrationInv == TypeOK /\ RequestsFit /\ TokensNameTheirUser /\ HaveFirst /\ Kept

-----------------------------------------------------------------------------
(* The table of users *)

\* A busy request is a Request.
LEMMA BusyRequest ==
  ASSUME TypeOK, NEW r \in Requests, requests[r].at # "idle"
  PROVE  /\ requests[r] \in Request
         /\ requests[r].email \in Emails /\ requests[r].password \in Passwords
<1>1. requests[r] \in Request \cup {Idle} /\ Idle.at = "idle"  BY DEF TypeOK, Idle
<1> QED  BY <1>1 DEF Request

\* FindByEmail finds a user with the address if there is one.
LEMMA FoundIsThere ==
  ASSUME TypeOK, HaveFirst, NEW e \in Emails, With(e) # {}
  PROVE  /\ FindByEmail(e) \in With(e)
         /\ FindByEmail(e) \in 1 .. Len(users)
<1>1. With(e) \in SUBSET (1 .. Len(users))  BY DEF With, TypeOK
<1>2. \E i \in With(e) : \A j \in With(e) : i <= j  BY DEF HaveFirst
<1> QED  BY <1>1, <1>2 DEF FindByEmail

\* Adding a user leaves the others where they are.
LEMMA AddedLast ==
  ASSUME TypeOK, NEW r \in Requests, requests[r].at # "idle", Add(r)
  PROVE  /\ users' \in Seq(User)
         /\ Len(users') = Len(users) + 1
         /\ Len(users') <= MaxUsers
         /\ \A i \in 1 .. Len(users) : users'[i] = users[i]
         /\ users'[Len(users) + 1] = NewUser(r)
         /\ NewUser(r) = [email |-> requests[r].email, password |-> requests[r].password]
<1>1. NewUser(r) \in User  BY BusyRequest DEF NewUser, User
<1>2. users \in Seq(User) /\ Len(users) \in Nat /\ MaxUsers \in Nat
  BY RegistrationAssumption DEF TypeOK
<1> QED  BY <1>1, <1>2 DEF Add, NewUser

\* What is found with each address after that.
LEMMA AddedWith ==
  ASSUME TypeOK, NEW r \in Requests, requests[r].at # "idle", Add(r), UNCHANGED lost
  PROVE  \A e \in Emails :
           With(e)' = IF e = requests[r].email THEN With(e) \cup {Len(users) + 1} ELSE With(e)
<1>1. lost \in Nat /\ Len(users) \in Nat /\ lost <= Len(users)  BY DEF TypeOK
<1>2. users'[Len(users) + 1].email = requests[r].email  BY AddedLast
<1>3. \A i \in 1 .. Len(users) : users'[i].email = users[i].email  BY AddedLast
<1>4. Len(users') = Len(users) + 1  BY AddedLast
<1>5. TAKE e \in Emails
<1>6. \A i : i \in With(e)' <=> i \in lost + 1 .. Len(users) + 1 /\ users'[i].email = e
  BY <1>4 DEF With
<1>7. \A i : i \in With(e) <=> i \in lost + 1 .. Len(users) /\ users[i].email = e
  BY DEF With
<1>8. \A i : i \in lost + 1 .. Len(users) + 1 <=> i \in lost + 1 .. Len(users) \/ i = Len(users) + 1
  BY <1>1
<1>9. \A i \in lost + 1 .. Len(users) : i \in 1 .. Len(users)  BY <1>1
<1> QED  BY <1>2, <1>3, <1>6, <1>7, <1>8, <1>9

\* With an unchanged table the same users are found.
LEMMA SameWith ==
  ASSUME UNCHANGED <<users, lost>>
  PROVE  /\ \A e \in Emails : With(e)' = With(e)
         /\ HaveFirst => HaveFirst'
         /\ Kept => Kept'
         /\ UNCHANGED tokens /\ TokensNameTheirUser => TokensNameTheirUser'
<1>1. \A e \in Emails : With(e)' = With(e)  BY DEF With
<1> QED  BY <1>1 DEF HaveFirst, Kept, OneUserPerAddress, TokensNameTheirUser

\* Adding a user keeps what is said of the table, whoever is told of it.
LEMMA AddStep ==
  ASSUME RegistrationInv, NEW r \in Requests, requests[r].at # "idle", Add(r), UNCHANGED lost
  PROVE  /\ HaveFirst'
         /\ Kept'
         /\ \A token \in tokens :
              /\ token.user \in 1 .. Len(users')
              /\ users'[token.user] = [email |-> token.email, password |-> token.password]
<1> USE DEF RegistrationInv
<1>1. \A e \in Emails :
        With(e)' = IF e = requests[r].email THEN With(e) \cup {Len(users) + 1} ELSE With(e)
  BY AddedWith
<1>2. \A e \in Emails : \A i \in With(e) : i \in Nat /\ i <= Len(users) + 1
  BY DEF With, TypeOK
<1>3. Len(users) + 1 \in Nat  BY DEF TypeOK
<1>4. HaveFirst'
  <2>1. ASSUME NEW e \in Emails, With(e)' # {}
        PROVE  \E i \in With(e)' : \A j \in With(e)' : i <= j
    <3>1. CASE With(e) = {}
      BY <1>1, <1>3, <2>1, <3>1
    <3>2. CASE With(e) # {}
      <4>1. PICK i \in With(e) : \A j \in With(e) : i <= j  BY <3>2 DEF HaveFirst
      <4> QED  BY <1>1, <1>2, <4>1
    <3> QED  BY <3>1, <3>2
  <2> QED  BY <2>1 DEF HaveFirst
<1>5. Kept'
  <2>1. SUFFICES ASSUME Storage = "prisma" PROVE lost' = 0 /\ OneUserPerAddress'
    BY DEF Kept
  <2>2. With(requests[r].email) = {}  BY <2>1 DEF Add, Refused
  <2>3. \A e \in Emails : \A i, j \in With(e) : i = j  BY <2>1 DEF Kept, OneUserPerAddress
  <2>4. \A e \in Emails : \A i, j \in With(e)' : i = j  BY <1>1, <2>2, <2>3
  <2> QED  BY <2>1, <2>4 DEF Kept, OneUserPerAddress
<1>6. ASSUME NEW token \in tokens
      PROVE  /\ token.user \in 1 .. Len(users')
             /\ users'[token.user] = [email |-> token.email, password |-> token.password]
  <2>1. token.user \in 1 .. Len(users)
        /\ users[token.user] = [email |-> token.email, password |-> token.password]
    BY DEF TokensNameTheirUser
  <2>2. Len(users') = Len(users) + 1 /\ users'[token.user] = users[token.user]
    BY <2>1, AddedLast
  <2> QED  BY <2>1, <2>2, <1>3
<1> QED  BY <1>4, <1>5, <1>6

-----------------------------------------------------------------------------
(* The requests *)

\* The table keeps the users that it has.
Grows ==
  /\ users \in Seq(User) /\ users' \in Seq(User) /\ Len(users) <= Len(users')
  /\ \A i \in 1 .. Len(users) : users'[i] = users[i]

\* An answered request leaves the others as they are.
LEMMA AnswerFits ==
  ASSUME RequestsFit, NEW r \in Requests, Answer(r), Grows
  PROVE  RequestsFit'
<1>1. \A q \in Requests : requests[q].at = "compare" =>
        /\ requests[q].user \in 1 .. Len(users')
        /\ users'[requests[q].user].email = requests[q].email
  <2>1. Len(users) \in Nat /\ Len(users') \in Nat  BY DEF Grows
  <2> QED  BY <2>1 DEF RequestsFit, Grows
<1>2. Idle.at = "idle"  BY DEF Idle
<1>3. requests' = [requests EXCEPT ![r] = Idle]  BY DEF Answer
<1> QED  BY <1>1, <1>2, <1>3 DEF RequestsFit

\* A request that goes on to compare has found a user with its address.
LEMMA GoesOnFits ==
  ASSUME TypeOK, RequestsFit, NEW r \in Requests, requests[r].at # "idle",
         NEW step \in Steps, NEW user \in Nat, GoesOn(r, step, user), UNCHANGED users,
         step = "compare" =>
           user \in 1 .. Len(users) /\ users[user].email = requests[r].email
  PROVE  RequestsFit'
<1>1. Awaiting(requests[r], step, user) \in Request
  BY BusyRequest DEF Awaiting, Request
<1>2. /\ Awaiting(requests[r], step, user).at = step
      /\ Awaiting(requests[r], step, user).user = user
      /\ Awaiting(requests[r], step, user).email = requests[r].email
  BY DEF Awaiting
<1>3. requests' = [requests EXCEPT ![r] = Awaiting(requests[r], step, user)]
  BY DEF GoesOn
<1> QED  BY <1>1, <1>2, <1>3 DEF RequestsFit

\* A token signed for the credentials of a user names that user.
LEMMA SignNames ==
  ASSUME TypeOK, NEW r \in Requests, requests[r].at # "idle", NEW user \in Nat, Sign(r, user)
  PROVE  /\ tokens' \subseteq Token
         /\ \A token \in tokens' :
              token \in tokens \/ token = [user |-> user, email |-> requests[r].email,
                                         password |-> requests[r].password]
<1> QED  BY BusyRequest DEF TypeOK, Sign, Token

-----------------------------------------------------------------------------
(* Every action keeps the invariant *)

LEMMA ArriveStep ==
  ASSUME RegistrationInv, NEW r \in Requests, NEW kind \in {"register", "login"},
         NEW e \in Emails, NEW p \in Passwords, Arrive(r, kind, e, p)
  PROVE  RegistrationInv'
<1>1. UNCHANGED <<users, lost, faults, tokens, told>>  BY DEF Arrive
<1> DEFINE new == [kind |-> kind, email |-> e, password |-> p, at |-> "find", user |-> 0]
<1>2. new \in Request /\ new.at = "find"  BY DEF Request, Steps
<1>3. requests' = [requests EXCEPT ![r] = new]  BY DEF Arrive
<1> HIDE DEF new
<1>4. RequestsFit'  BY <1>1, <1>2, <1>3 DEF RegistrationInv, RequestsFit
<1>5. TypeOK'  BY <1>1, <1>4 DEF RegistrationInv, TypeOK, RequestsFit
<1> QED  BY <1>1, <1>4, <1>5, SameWith DEF RegistrationInv

\* What only answers or goes on changes nothing else.
LEMMA SameTable ==
  ASSUME RegistrationInv, UNCHANGED <<users, lost, faults, tokens, told>>, RequestsFit'
  PROVE  RegistrationInv'
<1>1. TypeOK'  BY DEF RegistrationInv, TypeOK, RequestsFit
<1> QED  BY <1>1, SameWith DEF RegistrationInv

LEMMA FindToRegisterStep ==
  ASSUME RegistrationInv, NEW r \in Requests, FindToRegister(r)
  PROVE  RegistrationInv'
<1> USE DEF RegistrationInv
<1>1. UNCHANGED <<users, lost, faults, tokens, told>> /\ requests[r].at = "find"
  BY DEF FindToRegister, At
<1>2. CASE Answer(r)
  <2>1. Grows  BY <1>1 DEF Grows, TypeOK
  <2> QED  BY <1>1, <1>2, <2>1, AnswerFits, SameTable
<1>3. CASE GoesOn(r, "create", 0)
  BY <1>1, <1>3, GoesOnFits, SameTable DEF Steps
<1> QED  BY <1>2, <1>3 DEF FindToRegister

LEMMA CreateStep ==
  ASSUME RegistrationInv, NEW r \in Requests, Create(r)
  PROVE  RegistrationInv'
<1> USE DEF RegistrationInv
<1>1. UNCHANGED <<lost, faults>> /\ requests[r].at = "create" /\ Answer(r)
  BY DEF Create, At
<1>2. CASE UNCHANGED <<users, tokens, told>>
  <2>1. Grows  BY <1>2 DEF Grows, TypeOK
  <2> QED  BY <1>1, <1>2, <2>1, AnswerFits, SameTable
<1>3. CASE /\ Add(r)
           /\ Sign(r, Len(users) + 1)
           /\ told' = told \cup {<<requests[r].email, requests[r].password>>}
  <2>1. Len(users) \in Nat /\ Len(users) + 1 \in Nat  BY DEF TypeOK
  <2>2. /\ users' \in Seq(User) /\ Len(users') = Len(users) + 1 /\ Len(users') <= MaxUsers
        /\ \A i \in 1 .. Len(users) : users'[i] = users[i]
        /\ users'[Len(users) + 1] =
             [email |-> requests[r].email, password |-> requests[r].password]
    BY <1>1, <1>3, AddedLast
  <2>3. Grows  BY <2>1, <2>2 DEF Grows, TypeOK
  <2>4. RequestsFit'  BY <1>1, <2>3, AnswerFits
  <2>5. /\ tokens' \subseteq Token
        /\ \A token \in tokens' :
              token \in tokens \/ token = [user |-> Len(users) + 1, email |-> requests[r].email,
                                         password |-> requests[r].password]
    BY <1>1, <1>3, <2>1, SignNames
  <2>6. told' \subseteq Emails \X Passwords
    BY <1>1, <1>3, BusyRequest DEF TypeOK
  <2>7. TypeOK'
    BY <1>1, <2>1, <2>2, <2>4, <2>5, <2>6 DEF TypeOK, RequestsFit
  <2>8. ASSUME NEW token \in tokens'
        PROVE  /\ token.user \in 1 .. Len(users')
               /\ users'[token.user] = [email |-> token.email, password |-> token.password]
    <3>1. CASE token \in tokens
      BY <1>1, <1>3, <3>1, AddStep
    <3>2. CASE token = [user |-> Len(users) + 1, email |-> requests[r].email,
                        password |-> requests[r].password]
      <4>1. /\ token.user = Len(users) + 1 /\ token.email = requests[r].email
            /\ token.password = requests[r].password
        BY <3>2
      <4> QED  BY <2>1, <2>2, <4>1
    <3> QED  BY <2>5, <3>1, <3>2
  <2>9. HaveFirst' /\ Kept'  BY <1>1, <1>3, AddStep
  <2> QED  BY <2>4, <2>7, <2>8, <2>9 DEF TokensNameTheirUser
<1> QED  BY <1>2, <1>3 DEF Create

LEMMA FindToLogInStep ==
  ASSUME RegistrationInv, NEW r \in Requests, FindToLogIn(r)
  PROVE  RegistrationInv'
<1> USE DEF RegistrationInv
<1>1. UNCHANGED <<users, lost, faults, tokens, told>> /\ requests[r].at = "find"
  BY DEF FindToLogIn, At
<1>2. CASE Answer(r)
  <2>1. Grows  BY <1>1 DEF Grows, TypeOK
  <2> QED  BY <1>1, <1>2, <2>1, AnswerFits, SameTable
<1>3. CASE With(requests[r].email) # {} /\ GoesOn(r, "compare", FindByEmail(requests[r].email))
  <2>1. /\ FindByEmail(requests[r].email) \in 1 .. Len(users)
        /\ FindByEmail(requests[r].email) \in With(requests[r].email)
    BY <1>1, <1>3, BusyRequest, FoundIsThere
  <2>2. Len(users) \in Nat  BY DEF TypeOK
  <2>3. FindByEmail(requests[r].email) \in Nat  BY <2>1, <2>2
  <2>4. users[FindByEmail(requests[r].email)].email = requests[r].email
    BY <2>1 DEF With
  <2>5. RequestsFit'  BY <1>1, <1>3, <2>1, <2>3, <2>4, GoesOnFits DEF Steps
  <2> QED  BY <1>1, <2>5, SameTable
<1> QED  BY <1>2, <1>3 DEF FindToLogIn

LEMMA CompareStep ==
  ASSUME RegistrationInv, NEW r \in Requests, Compare(r)
  PROVE  RegistrationInv'
<1> USE DEF RegistrationInv
<1>1. UNCHANGED <<users, lost, faults, told>> /\ requests[r].at = "compare" /\ Answer(r)
  BY DEF Compare, At
<1>2. Grows  BY <1>1 DEF Grows, TypeOK
<1>3. RequestsFit'  BY <1>1, <1>2, AnswerFits
<1>4. CASE UNCHANGED tokens
  BY <1>1, <1>3, <1>4, SameTable
<1>5. CASE /\ users[requests[r].user].password = requests[r].password
           /\ Sign(r, requests[r].user)
  <2>1. /\ requests[r].user \in 1 .. Len(users)
        /\ users[requests[r].user].email = requests[r].email
    BY <1>1 DEF RequestsFit
  <2>2. requests[r].user \in Nat  BY <1>1, BusyRequest DEF Request
  <2>3. users[requests[r].user] \in User  BY <2>1 DEF TypeOK
  <2>4. users[requests[r].user] =
          [email |-> requests[r].email, password |-> requests[r].password]
    BY <1>5, <2>1, <2>3 DEF User
  <2>5. /\ tokens' \subseteq Token
        /\ \A token \in tokens' :
              token \in tokens \/ token = [user |-> requests[r].user, email |-> requests[r].email,
                                         password |-> requests[r].password]
    BY <1>1, <1>5, <2>2, SignNames
  <2>6. TypeOK'  BY <1>1, <1>3, <2>5 DEF TypeOK, RequestsFit
  <2>7. ASSUME NEW token \in tokens'
        PROVE  /\ token.user \in 1 .. Len(users')
               /\ users'[token.user] = [email |-> token.email, password |-> token.password]
    <3>1. CASE token \in tokens
      BY <1>1, <3>1 DEF TokensNameTheirUser
    <3>2. CASE token = [user |-> requests[r].user, email |-> requests[r].email,
                        password |-> requests[r].password]
      <4>1. /\ token.user = requests[r].user /\ token.email = requests[r].email
            /\ token.password = requests[r].password
        BY <3>2
      <4> QED  BY <1>1, <2>1, <2>4, <4>1
    <3> QED  BY <2>5, <3>1, <3>2
  <2>8. TokensNameTheirUser'  BY <2>7 DEF TokensNameTheirUser
  <2> QED  BY <1>1, <1>3, <2>6, <2>8, SameWith
<1> QED  BY <1>4, <1>5 DEF Compare

LEMMA StatementFailsStep ==
  ASSUME RegistrationInv, NEW r \in Requests, NEW applied \in BOOLEAN, StatementFails(r, applied)
  PROVE  RegistrationInv'
<1> USE DEF RegistrationInv
<1>1. /\ UNCHANGED <<lost, tokens, told>> /\ requests[r].at # "idle" /\ Answer(r)
      /\ faults' \in 0 .. MaxFaults
  BY RegistrationAssumption DEF StatementFails, Fault, TypeOK
<1>2. CASE UNCHANGED users
  <2>1. Grows  BY <1>2 DEF Grows, TypeOK
  <2>2. RequestsFit'  BY <1>1, <2>1, AnswerFits
  <2>3. TypeOK'  BY <1>1, <1>2, <2>2 DEF TypeOK, RequestsFit
  <2> QED  BY <1>1, <1>2, <2>2, <2>3, SameWith
<1>3. CASE Add(r)
  <2>1. Len(users) \in Nat  BY DEF TypeOK
  <2>2. /\ users' \in Seq(User) /\ Len(users') = Len(users) + 1 /\ Len(users') <= MaxUsers
        /\ \A i \in 1 .. Len(users) : users'[i] = users[i]
    BY <1>1, <1>3, AddedLast
  <2>3. Grows  BY <2>1, <2>2 DEF Grows, TypeOK
  <2>4. RequestsFit'  BY <1>1, <2>3, AnswerFits
  <2>5. TypeOK'  BY <1>1, <2>1, <2>2, <2>4 DEF TypeOK, RequestsFit
  <2>6. TokensNameTheirUser'  BY <1>1, <1>3, AddStep DEF TokensNameTheirUser
  <2>7. HaveFirst' /\ Kept'  BY <1>1, <1>3, AddStep
  <2> QED  BY <2>4, <2>5, <2>6, <2>7
<1> QED  BY <1>2, <1>3 DEF StatementFails

LEMMA RestartStep ==
  ASSUME RegistrationInv, Restart
  PROVE  RegistrationInv'
<1> USE DEF RegistrationInv
<1>1. /\ UNCHANGED <<users, tokens>> /\ requests' = [r \in Requests |-> Idle]
      /\ faults' \in 0 .. MaxFaults
  BY RegistrationAssumption DEF Restart, Fault, TypeOK
<1>2. RequestsFit'
  <2>1. Idle.at = "idle"  BY DEF Idle
  <2> QED  BY <1>1, <2>1 DEF RequestsFit
<1>3. Len(users) \in Nat  BY DEF TypeOK
<1>4. CASE Storage = "memory"
  <2>1. lost' = Len(users) /\ told' = {}  BY <1>4 DEF Restart
  <2>2. \A e \in Emails : With(e)' = {}  BY <1>1, <1>3, <2>1 DEF With
  <2>3. HaveFirst' /\ Kept'  BY <1>4, <2>2 DEF HaveFirst, Kept
  <2>4. TypeOK'  BY <1>1, <1>2, <1>3, <2>1 DEF TypeOK, RequestsFit
  <2>5. TokensNameTheirUser'  BY <1>1 DEF TokensNameTheirUser
  <2> QED  BY <1>2, <2>3, <2>4, <2>5
<1>5. CASE UNCHANGED <<lost, told>>
  <2>1. TypeOK'  BY <1>1, <1>2, <1>5 DEF TypeOK, RequestsFit
  <2> QED  BY <1>1, <1>2, <1>5, <2>1, SameWith
<1> QED  BY <1>4, <1>5 DEF Restart

-----------------------------------------------------------------------------

\* The inductive invariant behind the theorems below, over both repositories.
THEOREM RegistrationInvariant == Spec => []RegistrationInv
<1>1. Init => RegistrationInv
  <2> SUFFICES ASSUME Init PROVE RegistrationInv  OBVIOUS
  <2>1. users = <<>> /\ lost = 0 /\ Len(users) = 0 /\ users \in Seq(User)  BY DEF Init
  <2>2. Idle.at = "idle"  BY DEF Idle
  <2>3. RequestsFit  BY <2>2 DEF Init, RequestsFit
  <2>4. TypeOK  BY <2>1, <2>3, RegistrationAssumption DEF Init, TypeOK, RequestsFit
  <2>5. \A e \in Emails : With(e) = {}  BY <2>1 DEF With
  <2> QED  BY <2>1, <2>3, <2>4, <2>5
       DEF Init, RegistrationInv, HaveFirst, Kept, OneUserPerAddress, TokensNameTheirUser
<1>2. RegistrationInv /\ [Next]_vars => RegistrationInv'
  <2>1. ASSUME RegistrationInv, Next PROVE RegistrationInv'
    BY <2>1, ArriveStep, FindToRegisterStep, CreateStep, FindToLogInStep, CompareStep,
       StatementFailsStep, RestartStep DEF Next
  <2>2. ASSUME RegistrationInv, UNCHANGED vars PROVE RegistrationInv'
    <3>1. UNCHANGED <<users, lost, requests, faults, tokens, told>>  BY <2>2 DEF vars
    <3>2. RequestsFit'  BY <2>2, <3>1 DEF RegistrationInv, RequestsFit
    <3> QED  BY <2>2, <3>1, <3>2, SameTable
  <2> QED  BY <2>1, <2>2
<1> QED  BY <1>1, <1>2, PTL DEF Spec

\* Every variable keeps its type, and a login compares with a user that exists.
THEOREM TypeCorrect == Spec => []TypeOK
<1>1. RegistrationInv => TypeOK  BY DEF RegistrationInv
<1> QED  BY <1>1, RegistrationInvariant, PTL

\* Whichever registrations and restarts come between finding a user and comparing,
\* a token names a user with the address and the password that were given.
THEOREM TokensAreOfTheirUser == Spec => []TokensNameTheirUser
<1>1. RegistrationInv => TokensNameTheirUser  BY DEF RegistrationInv
<1> QED  BY <1>1, RegistrationInvariant, PTL

-----------------------------------------------------------------------------
(* The refinement *)

\* The password that logging in with each address takes.
Password ==
  [e \in Emails |-> IF With(e) = {} THEN NoPassword ELSE users[FindByEmail(e)].password]

LEMMA SamePassword ==
  ASSUME UNCHANGED <<users, lost>>
  PROVE  Password' = Password
BY DEF Password, With, FindByEmail

\* Adding a user to Postgres gives its address a password and no other.
LEMMA AddedPassword ==
  ASSUME RegistrationInv, Storage = "prisma",
         NEW r \in Requests, requests[r].at # "idle", Add(r), UNCHANGED lost
  PROVE  /\ Password[requests[r].email] = NoPassword
         /\ Password' = [Password EXCEPT ![requests[r].email] = requests[r].password]
<1> USE DEF RegistrationInv
<1>1. \A e \in Emails :
        With(e)' = IF e = requests[r].email THEN With(e) \cup {Len(users) + 1} ELSE With(e)
  BY AddedWith
<1>2. With(requests[r].email) = {}  BY DEF Add, Refused
<1>3. requests[r].email \in Emails  BY BusyRequest
<1>4. Len(users) + 1 \in Nat  BY DEF TypeOK
<1>5. ASSUME NEW e \in Emails
      PROVE  Password'[e] = IF e = requests[r].email THEN requests[r].password ELSE Password[e]
  <2>1. CASE e = requests[r].email
    <3>1. With(e)' = {Len(users) + 1}  BY <1>1, <1>2, <2>1
    <3>2. FindByEmail(e)' = Len(users) + 1  BY <1>4, <3>1 DEF FindByEmail
    <3>3. users'[Len(users) + 1].password = requests[r].password  BY AddedLast
    <3> QED  BY <2>1, <3>1, <3>2, <3>3 DEF Password
  <2>2. CASE e # requests[r].email
    <3>1. With(e)' = With(e)  BY <1>1, <2>2
    <3>2. FindByEmail(e)' = FindByEmail(e)  BY <3>1 DEF FindByEmail
    <3>3. With(e) # {} => users'[FindByEmail(e)] = users[FindByEmail(e)]
      BY FoundIsThere, AddedLast
    <3> QED  BY <2>2, <3>1, <3>2, <3>3 DEF Password
  <2> QED  BY <2>1, <2>2
<1>6. Password[requests[r].email] = NoPassword  BY <1>2, <1>3 DEF Password
<1>7. Password' = [e \in Emails |-> Password'[e]] /\ Password = [e \in Emails |-> Password[e]]
  BY DEF Password
<1> HIDE DEF Password
<1> QED  BY <1>3, <1>5, <1>6, <1>7

\* Such a step is one of the promise, whether the client is told or not.
LEMMA AddRegisters ==
  ASSUME RegistrationInv, Storage = "prisma",
         NEW r \in Requests, requests[r].at # "idle", Add(r), UNCHANGED lost,
         told' \in {told, told \cup {<<requests[r].email, requests[r].password>>}}
  PROVE  Accounts!Next
<1>1. requests[r].email \in Emails /\ requests[r].password \in Passwords
  BY BusyRequest DEF RegistrationInv
<1>2. Password[requests[r].email] = NoPassword
      /\ Password' = [Password EXCEPT ![requests[r].email] = requests[r].password]
  BY AddedPassword
<1>3. Accounts!Register(requests[r].email, requests[r].password)
  BY <1>2 DEF Accounts!Register, Password
<1> QED  BY <1>1, <1>3 DEF Accounts!Next

LEMMA StepRefines ==
  ASSUME RegistrationInv, Storage = "prisma", [Next]_vars
  PROVE  [Accounts!Next]_<<Password, told>>
<1>1. CASE UNCHANGED <<users, lost, told>>
  BY <1>1, SamePassword
<1>2. ASSUME NEW r \in Requests, Create(r) PROVE [Accounts!Next]_<<Password, told>>
  <2>1. requests[r].at # "idle" /\ UNCHANGED lost  BY <1>2 DEF Create, At
  <2>2. CASE UNCHANGED <<users, tokens, told>>  BY <1>1, <2>1, <2>2
  <2>3. CASE Add(r) /\ told' = told \cup {<<requests[r].email, requests[r].password>>}
    BY <2>1, <2>3, AddRegisters
  <2> QED  BY <1>2, <2>2, <2>3 DEF Create
<1>3. ASSUME NEW r \in Requests, NEW applied \in BOOLEAN, StatementFails(r, applied)
      PROVE  [Accounts!Next]_<<Password, told>>
  <2>1. requests[r].at # "idle" /\ UNCHANGED <<lost, told>>  BY <1>3 DEF StatementFails
  <2>2. CASE UNCHANGED users  BY <1>1, <2>1, <2>2
  <2>3. CASE Add(r)  BY <2>1, <2>3, AddRegisters
  <2> QED  BY <1>3, <2>2, <2>3 DEF StatementFails
<1>4. CASE Restart
  BY <1>1, <1>4 DEF Restart
<1>5. CASE UNCHANGED vars
  BY <1>1, <1>5 DEF vars
<1> QED  BY <1>1, <1>2, <1>3, <1>4, <1>5
     DEF Next, Arrive, FindToRegister, FindToLogIn, Compare

\* Over Postgres the users implement AccountPromise: of registrations of one
\* address that race, fail or are repeated, one decides on the password, and at
\* most that one is told of success.
THEOREM AccountsAreKept == ASSUME Storage = "prisma" PROVE Spec => AccountsKept
<1>1. Init => Accounts!Init
  <2> SUFFICES ASSUME Init PROVE Accounts!Init  OBVIOUS
  <2>1. \A e \in Emails : With(e) = {}  BY DEF Init, With
  <2> QED  BY <2>1 DEF Accounts!Init, Init
<1>2. RegistrationInv /\ [Next]_vars => [Accounts!Next]_<<Password, told>>
  BY StepRefines
<1> QED  BY <1>1, <1>2, RegistrationInvariant, PTL DEF Spec, AccountsKept, Accounts!Spec, Password

=============================================================================

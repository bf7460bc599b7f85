-------------------------- MODULE UserRegistration --------------------------
(***************************************************************************)
(* Registering and logging in: AuthServiceImpl                             *)
(* (src/src/application/services/auth.service.ts) over the repository in   *)
(* memory or in Postgres (src/src/infrastructure/repositories).            *)
(*                                                                         *)
(* A registration looks for its address, hashes the password and adds the  *)
(* user.  Hashing and comparing run over several turns of the event loop,  *)
(* and so does every statement sent to Postgres, where only the unique     *)
(* column email stands between two registrations of one address.           *)
(* A statement that was applied and yet answered with an error stands for  *)
(* a token that could not be signed, too: both leave a user behind.        *)
(***************************************************************************)
EXTENDS Integers, Sequences

CONSTANTS
  Emails,
  Passwords,
  Requests,    \* of clients, each one after the other
  Storage,     \* "memory" or "prisma": the variable STORAGE
  MaxUsers,    \* bound of the users created
  MaxFaults    \* bound of the restarts and failed statements

NoPassword == "no password"

ASSUME RegistrationAssumption ==
  /\ NoPassword \notin Passwords
  /\ Storage \in {"memory", "prisma"}
  /\ MaxUsers \in Nat
  /\ MaxFaults \in Nat

\* The password stands for its hash, which the clear one is compared with.
User == [email : Emails, password : Passwords]

\* What a request awaits; user is the one that a login found.
Steps == {"find", "create", "compare"}
Request ==
  [kind : {"register", "login"}, email : Emails, password : Passwords, at : Steps, user : Nat]
Idle == [at |-> "idle"]

Token == [user : Nat, email : Emails, password : Passwords]

VARIABLES
  users,      \* all users ever created, in this order
  lost,       \* the number of them that the memory lost
  requests,   \* what each request is at
  faults,     \* the number of faults so far
  tokens,     \* history: the tokens signed, and for which credentials
  told        \* history: the registrations answered with 201

vars == <<users, lost, requests, faults, tokens, told>>

TypeOK ==
  /\ users \in Seq(User) /\ Len(users) <= MaxUsers
  /\ lost \in 0 .. Len(users)
  /\ requests \in [Requests -> Request \cup {Idle}]
  /\ \A r \in Requests : requests[r].at = "compare" => requests[r].user \in 1 .. Len(users)
  /\ faults \in 0 .. MaxFaults
  /\ tokens \subseteq Token
  /\ told \subseteq Emails \X Passwords

Init ==
  /\ users = <<>>
  /\ lost = 0
  /\ requests = [r \in Requests |-> Idle]
  /\ faults = 0
  /\ tokens = {} /\ told = {}

-----------------------------------------------------------------------------
(* The repository *)

With(e) == {i \in lost + 1 .. Len(users) : users[i].email = e}

\* The Map is searched in the order of insertion, the column is unique.
FindByEmail(e) == CHOOSE i \in With(e) : \A j \in With(e) : i <= j

\* A mistaken schema without @unique.
RefusedNever(e) == FALSE

\* Another user with the address is refused by Postgres only.
Refused(e) == Storage = "prisma" /\ With(e) # {}

NewUser(r) == [email |-> requests[r].email, password |-> requests[r].password]

Add(r) ==
  /\ ~Refused(requests[r].email)
  /\ Len(users) < MaxUsers
  /\ users' = Append(users, NewUser(r))

-----------------------------------------------------------------------------
(* The requests *)

At(r, kind, step) == requests[r].at = step /\ requests[r].kind = kind

Answer(r) == requests' = [requests EXCEPT ![r] = Idle]

Awaiting(request, step, user) ==
  [kind |-> request.kind, email |-> request.email, password |-> request.password,
   at |-> step, user |-> user]

GoesOn(r, step, user) == requests' = [requests EXCEPT ![r] = Awaiting(@, step, user)]

Sign(r, user) ==
  tokens' = tokens \cup
    {[user |-> user, email |-> requests[r].email, password |-> requests[r].password]}

\* POST /users/register and POST /users/login with an address and a password.
Arrive(r, kind, e, p) ==
  /\ requests[r].at = "idle"
  /\ requests' = [requests EXCEPT ![r] =
       [kind |-> kind, email |-> e, password |-> p, at |-> "find", user |-> 0]]
  /\ UNCHANGED <<users, lost, faults, tokens, told>>

\* A taken address is answered with 400.
FindToRegister(r) ==
  /\ At(r, "register", "find")
  /\ \/ With(requests[r].email) # {} /\ Answer(r)
     \/ With(requests[r].email) = {} /\ GoesOn(r, "create", 0)
  /\ UNCHANGED <<users, lost, faults, tokens, told>>

\* The password is hashed.  Postgres may refuse the row, answered with 500.
Create(r) ==
  /\ At(r, "register", "create")
  /\ \/ Refused(requests[r].email) /\ UNCHANGED <<users, tokens, told>>
     \/ /\ Add(r)
        /\ Sign(r, Len(users) + 1)
        /\ told' = told \cup {<<requests[r].email, requests[r].password>>}
  /\ Answer(r)
  /\ UNCHANGED <<lost, faults>>

\* A mistaken one that does not look whether there is a user.
FindToLogInUnchecked(r) ==
  /\ At(r, "login", "find")
  /\ LET found == With(requests[r].email) IN
     GoesOn(r, "compare", IF found = {} THEN 0 ELSE FindByEmail(requests[r].email))
  /\ UNCHANGED <<users, lost, faults, tokens, told>>

\* An unknown address is answered with 401.
FindToLogIn(r) ==
  /\ At(r, "login", "find")
  /\ \/ With(requests[r].email) = {} /\ Answer(r)
     \/ With(requests[r].email) # {} /\ GoesOn(r, "compare", FindByEmail(requests[r].email))
  /\ UNCHANGED <<users, lost, faults, tokens, told>>

\* A mistaken one that takes any password.
CompareNothing(r) ==
  /\ At(r, "login", "compare")
  /\ Sign(r, requests[r].user)
  /\ Answer(r)
  /\ UNCHANGED <<users, lost, faults, told>>

\* A wrong password is answered with 401.
Compare(r) ==
  /\ At(r, "login", "compare")
  /\ \/ /\ users[requests[r].user].password = requests[r].password
        /\ Sign(r, requests[r].user)
     \/ /\ users[requests[r].user].password # requests[r].password
        /\ UNCHANGED tokens
  /\ Answer(r)
  /\ UNCHANGED <<users, lost, faults, told>>

-----------------------------------------------------------------------------
(* Faults *)

Fault == faults < MaxFaults /\ faults' = faults + 1

\* A statement fails, without or after being applied, and is answered with 500.
\* In memory only the token can fail, when the user is there already.
StatementFails(r, applied) ==
  /\ requests[r].at \in {"find", "create"}
  /\ Storage = "memory" => applied
  /\ Fault
  /\ IF applied THEN requests[r].at = "create" /\ Add(r) ELSE UNCHANGED users
  /\ Answer(r)
  /\ UNCHANGED <<lost, tokens, told>>

\* The server ends and starts again, without the users it had in memory.
Restart ==
  /\ Fault
  /\ requests' = [r \in Requests |-> Idle]
  /\ IF Storage = "memory"
     THEN lost' = Len(users) /\ told' = {}
     ELSE UNCHANGED <<lost, told>>
  /\ UNCHANGED <<users, tokens>>

-----------------------------------------------------------------------------

Next ==
  \/ Restart
  \/ \E r \in Requests :
       \/ \E kind \in {"register", "login"}, e \in Emails, p \in Passwords :
            Arrive(r, kind, e, p)
       \/ FindToRegister(r) \/ Create(r) \/ FindToLogIn(r) \/ Compare(r)
       \/ \E applied \in BOOLEAN : StatementFails(r, applied)

Spec == Init /\ [][Next]_vars

-----------------------------------------------------------------------------
(* Properties *)

\* The users in Postgres implement AccountPromise, whatever registrations race,
\* fail or are repeated: the user that logging in finds is the first one that
\* got through, and nobody else was told of success.
Accounts == INSTANCE AccountPromise WITH
  password <- [e \in Emails |->
                 IF With(e) = {} THEN NoPassword ELSE users[FindByEmail(e)].password]

AccountsKept == Accounts!Spec

\* A token names a user whose address and password the request gave, although a
\* login compares with the user it found before.
TokensNameTheirUser ==
  \A token \in tokens :
    /\ token.user \in 1 .. Len(users)
    /\ users[token.user] = [email |-> token.email, password |-> token.password]

\* "if (existing) throw new Error('Email already in use')"
\* (src/src/application/services/auth.service.ts:16): no two users have the same
\* address.
OneUserPerAddress == \A e \in Emails : \A i, j \in With(e) : i = j

=============================================================================

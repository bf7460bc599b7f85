--------------------------- MODULE AccountPromise ---------------------------
(***************************************************************************)
(* What the User API (src/src/routes/user.routes.ts) lets its users expect *)
(* of an address: the first registration that gets through decides on the  *)
(* password, and only that one is ever told that it succeeded.             *)
(***************************************************************************)
CONSTANTS Emails, Passwords, NoPassword

VARIABLES
  password,   \* that logging in with an address takes, NoPassword if none does
  told        \* the registrations that were answered with 201

Init ==
  /\ password = [e \in Emails |-> NoPassword]
  /\ told = {}

\* The client may or may not learn of it.
Register(e, p) ==
  /\ password[e] = NoPassword
  /\ password' = [password EXCEPT ![e] = p]
  /\ told' \in {told, told \cup {<<e, p>>}}

Next == \E e \in Emails, p \in Passwords : Register(e, p)

Spec == Init /\ [][Next]_<<password, told>>
=============================================================================

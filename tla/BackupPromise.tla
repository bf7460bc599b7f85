---------------------------- MODULE BackupPromise ----------------------------
(***************************************************************************)
(* What POST /cms/save-db, POST /cms/load-db and the load at the start of  *)
(* the server promise of the rows in memory and in a file, whatever other  *)
(* requests do meanwhile.  A save stores, at one moment while it is under  *)
(* way, the rows its database had when it was asked for, or loses what was *)
(* stored.  A load gives a database exactly what is stored under its path. *)
(* Rows move between memory and files in no other way.                     *)
(***************************************************************************)
CONSTANTS
  Databases,    \* the database objects of one life of the server
  Files,        \* the paths
  PathOf(_),    \* the path of a database
  Rows,
  Item          \* the item that a row is a version of

VARIABLES
  memory,       \* the rows of each database
  stored,       \* what each file gives to a load
  pending       \* the rows of the saves to each file that are under way

vars == <<memory, stored, pending>>

Holding(rows) == [state |-> "rows", rows |-> rows]
Nothing == [state |-> "nothing", rows |-> {}]   \* there is no file
Lost == [state |-> "lost", rows |-> {}]         \* the file gives no rows

Init ==
  /\ memory = [d \in Databases |-> {}]
  /\ stored = [f \in Files |-> Nothing]
  /\ pending = [f \in Files |-> {}]

\* A request puts one row in place of the other versions of its item, or takes
\* the item out, or clears the database.
Edit(d) ==
  /\ \/ \E row \in Rows : \E put \in {{}, {row}} :
          memory' = [memory EXCEPT ![d] = {old \in @ : Item[old] # Item[row]} \cup put]
     \/ memory' = [memory EXCEPT ![d] = {}]
  /\ UNCHANGED <<stored, pending>>

Ask(d) ==
  /\ pending' = [pending EXCEPT ![PathOf(d)] = @ \cup {memory[d]}]
  /\ UNCHANGED <<memory, stored>>

Lose(f) ==
  /\ pending[f] # {}
  /\ stored' = [stored EXCEPT ![f] = Lost]
  /\ UNCHANGED <<memory, pending>>

\* Several saves of the same rows may be under way.
Store(f, rows) ==
  /\ rows \in pending[f]
  /\ stored' = [stored EXCEPT ![f] = Holding(rows)]
  /\ \E rest \in {pending[f], pending[f] \ {rows}} :
       pending' = [pending EXCEPT ![f] = rest]
  /\ UNCHANGED memory

GiveUp(f, rows) ==
  /\ rows \in pending[f]
  /\ pending' = [pending EXCEPT ![f] = @ \ {rows}]
  /\ UNCHANGED <<memory, stored>>

Load(d) ==
  /\ stored[PathOf(d)] # Lost
  /\ memory' = [memory EXCEPT ![d] = stored[PathOf(d)].rows]
  /\ UNCHANGED <<stored, pending>>

\* The memory is gone with the process; the files stay as they are.
Restart ==
  /\ memory' = [d \in Databases |-> {}]
  /\ pending' = [f \in Files |-> {}]
  /\ UNCHANGED stored

Next ==
  \/ \E d \in Databases : Edit(d) \/ Ask(d) \/ Load(d)
  \/ \E f \in Files : Lose(f) \/ \E rows \in SUBSET Rows : Store(f, rows) \/ GiveUp(f, rows)
  \/ Restart

Spec == Init /\ [][Next]_vars
=============================================================================

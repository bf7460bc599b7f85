--------------------------- MODULE MCRequestPath ---------------------------
(***************************************************************************)
(* Every combination of the variables that decide what is mounted, with    *)
(* the address restriction on; and every form of the restriction in one of *)
(* them.                                                                   *)
(***************************************************************************)
EXTENDS RequestPath

MCEnvironments ==
  {e \in Environment :
     \/ e.restriction = "true" /\ e.allowLocal = "unset"
     \/ /\ e.build = "server" /\ e.isolation = "true" /\ e.autoMap = "unset"
        /\ e.authMode = "prototype" /\ e.storage = "memory"}

MCAddresses == {"local", "listed", "other"}
MCListedIn == [e \in MCEnvironments |-> {"listed"}]
=============================================================================

------------------------- MODULE MCSessionIsolation -------------------------
(***************************************************************************)
(* Three sessions over two places: "u_2" and "u.2" normalize to one id,    *)
(* "u3" is also the session of the one client address.                     *)
(***************************************************************************)
EXTENDS SessionIsolation, TLC

MCKeys == {"u1", "u.2", "u_2", "u3"}
MCNormalize == [k \in MCKeys |-> IF k = "u.2" THEN "u_2" ELSE k]
MCIPSessionKey == [ip \in IPs |-> "u3"]
MCUsers == {"u_2"}
MCSymmetry == Permutations(Requests)
=============================================================================

---------------------------- MODULE MCConnManager ----------------------------
(* Constants for model checking ConnManager: four connections over three     *)
(* UUIDs, c1 and c4 being two registrations of the same listener.            *)
EXTENDS ConnManager

CONSTANTS c1, c2, c3, c4, u1, u2, u3

MCConns == {c1, c2, c3, c4}
MCIds == {u1, u2, u3}
MCID == (c1 :> u1) @@ (c2 :> u2) @@ (c3 :> u3) @@ (c4 :> u1)

=============================================================================

------------------------------ MODULE MCControl ------------------------------
(* Instances of Control: one identifier per server unless two servers are    *)
(* registrations of the same listener.                                       *)
EXTENDS Control, TLC

CONSTANTS r1, r2, u1, u2

SharedPair == (r1 :> u1) @@ (r2 :> u1)
Single == r1 :> u1

=============================================================================

------------------------------ MODULE MCDialer ------------------------------
(* Instances of Dialer: the first TCP connection usually registers, the      *)
(* others and the streams compete for the dials.                             *)
EXTENDS Dialer, TLC

Symmetry == Permutations(Dials) \cup Permutations(TcpConns) \cup Permutations(Streams)

=============================================================================

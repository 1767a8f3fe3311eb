----------------------------- MODULE MCListener -----------------------------
(* A connect, an event with a handler, one without, a ping, and a command the  *)
(* client refuses.                                                             *)
EXTENDS Listener

CONSTANTS c1, e1, s1, p1, x1, a1, main, extra

AllModes == {"v1", "v2", "pool"}

\* Enough to fill the channel; a pool has two command loops, so one command there.
MCOffered == [m \in AllModes |-> CASE m = "v1" -> {c1, s1, p1}
                                   [] m = "v2" -> {c1, e1, x1}
                                   [] m = "pool" -> {c1}]

=============================================================================

----------------------------- MODULE Rendezvous -----------------------------
(***************************************************************************)
(* What Dialer.DialContext promises its callers, without any of the        *)
(* machinery: every dial that asks for a connection ends at most once,     *)
(* either with a failure or with a connection that presented this dial's   *)
(* own request identifier, and no connection ends two dials.               *)
(*                                                                         *)
(* Dialer implements this specification with outcome, given, asked and     *)
(* claim computed from its own variables.                                  *)
(***************************************************************************)
CONSTANTS
    Dials,      \* calls of DialContext; each stands for its request UUID
    Conns,      \* connections that may answer
    NoDial,     \* the claim of a connection that presented nothing yet
    NoConn      \* what a dial that has no connection was given

VARIABLES
    asked,      \* dials whose connect command reached a listener
    claim,      \* the dial each connection presented in its bind command
    outcome,    \* "pending", "conn" or "error"
    given       \* the connection a dial was answered with

vars == <<asked, claim, outcome, given>>

Init ==
    /\ asked = {}
    /\ claim = [c \in Conns |-> NoDial]
    /\ outcome = [d \in Dials |-> "pending"]
    /\ given = [d \in Dials |-> NoConn]

Ask(d) ==
    /\ asked' = asked \cup {d}
    /\ UNCHANGED <<claim, outcome, given>>

Present(c, d) ==
    /\ d \in asked
    /\ claim[c] = NoDial
    /\ claim' = [claim EXCEPT ![c] = d]
    /\ UNCHANGED <<asked, outcome, given>>

Succeed(d, c) ==
    /\ outcome[d] = "pending"
    /\ claim[c] = d
    /\ outcome' = [outcome EXCEPT ![d] = "conn"]
    /\ given' = [given EXCEPT ![d] = c]
    /\ UNCHANGED <<asked, claim>>

Fail(d) ==
    /\ outcome[d] = "pending"
    /\ outcome' = [outcome EXCEPT ![d] = "error"]
    /\ UNCHANGED <<asked, claim, given>>

Next ==
    \E d \in Dials :
        \/ Ask(d)
        \/ Fail(d)
        \/ \E c \in Conns : Present(c, d) \/ Succeed(d, c)

Spec == Init /\ [][Next]_vars

=============================================================================

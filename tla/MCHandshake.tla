---------------------------- MODULE MCHandshake ----------------------------
(* Every configuration of client and server, chosen initially. *)
EXTENDS Handshake

AllOps == {"register", "registerV2", "bind"}
AllCreds == {"none", "good", "bad", "empty"}
AllServers == {TRUE, FALSE}

=============================================================================

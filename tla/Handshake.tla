------------------------------ MODULE Handshake ------------------------------
(***************************************************************************)
(* The handshake on one connection: Client.Register, Client.Bind and       *)
(* ClientV2.Register on the listener's side, Server.Process and            *)
(* ServerV2.Process on the dialer's.                                       *)
(*                                                                         *)
(* Each direction is a queue of the fields that were written and not read  *)
(* yet.  A field that is read with io.ReadFull comes whole; one that is    *)
(* read with a plain Read of a TCP connection may come in part, and the    *)
(* rest stays in the queue.  After the V2 upgrade the queues stand for the *)
(* control stream, whose frames yamux hands over whole.                    *)
(*                                                                         *)
(* Neither side sets a deadline.  What ends a wait is an answer, a closed  *)
(* connection, or a context: the client's closer goroutine and the         *)
(* dialer's watcher goroutine close the connection under a blocked read.   *)
(***************************************************************************)
EXTENDS Sequences

CONSTANTS
    Ops,        \* what clients do: subset of {"register", "registerV2", "bind"}
    Creds,      \* their credentials: subset of {"none", "good", "bad", "empty"}
    ServerV2s   \* whether the server is a ServerV2: subset of BOOLEAN

ASSUME ConfigAssumption ==
    /\ Ops \subseteq {"register", "registerV2", "bind"}
    /\ Creds \subseteq {"none", "good", "bad", "empty"}
    /\ ServerV2s \subseteq BOOLEAN

VARIABLES
    cfg,        \* how both ends were configured
    cpc,        \* where the client is; "ok" and "failed" have returned
    spc,        \* where the server is
    up,         \* fields on the way to the server
    down,       \* fields on the way to the client
    cOpen,      \* the client has not closed the connection
    sOpen,      \* the server has not closed the connection
    broken,     \* the network dropped the connection
    ctxDone,    \* the client's context is done: cancelled, or ended by the
                \* client itself after an error
    cancelled,  \* history: the caller cancelled it
    stopped,    \* the handler's context is cancelled (Dialer.Stop)
    stalled,    \* ends whose process stopped running
    sid,        \* the identifier the server took: "none", "full", "padded"
    short       \* history: some Read returned less than the whole field

vars == <<cfg, cpc, spc, up, down, cOpen, sOpen, broken, ctxDone, cancelled,
          stopped, stalled, sid, short>>
envVars == <<cfg, broken, cancelled, stopped, stalled>>
clientVars == <<cpc, cOpen, ctxDone>>
serverVars == <<spc, sOpen, sid, short>>

-----------------------------------------------------------------------------
(* State *)

Configs == [op : Ops, cred : Creds, v2server : ServerV2s,
            noAuth : BOOLEAN, userPassAuth : BOOLEAN]

ClientReads == {"method", "auth", "mux", "muxConfig", "result"}
ServerReads == {"init", "token", "command", "control", "uuid"}
Accepted == {"registered", "bound"}

ClientReturned == cpc \in {"ok", "failed"}
ServerReturned == spc \in Accepted \cup {"failed"}

Fields ==
    [f : {"methods", "method", "token", "result", "cmd", "uuid", "muxInit",
          "muxReady", "muxConfig"},
     v : {"noAuth", "userPass", "noAcceptable", "good", "bad", "empty",
          "success", "failure", "register", "bind", "whole", "rest"}]

TypeOK ==
    /\ cfg \in Configs
    /\ cpc \in {"idle", "ok", "failed"} \cup ClientReads
    /\ spc \in ServerReads \cup Accepted \cup {"failed"}
    /\ up \in Seq(Fields) /\ down \in Seq(Fields)
    /\ cOpen \in BOOLEAN /\ sOpen \in BOOLEAN /\ broken \in BOOLEAN
    /\ ctxDone \in BOOLEAN /\ cancelled \in BOOLEAN
    /\ stopped \in BOOLEAN /\ short \in BOOLEAN
    /\ stalled \subseteq {"client", "server"}
    /\ sid \in {"none", "full", "padded"}
    /\ spc \in Accepted => sid # "none"

Init ==
    /\ cfg \in Configs
    /\ cpc = "idle"
    /\ spc = "init"
    /\ up = <<>> /\ down = <<>>
    /\ cOpen = TRUE /\ sOpen = TRUE
    /\ broken = FALSE
    /\ ctxDone = FALSE /\ cancelled = FALSE
    /\ stopped = FALSE
    /\ stalled = {}
    /\ sid = "none"
    /\ short = FALSE

Field(name, value) == [f |-> name, v |-> value]

\* The client's authMode; WithUserPass also takes empty names and passwords.
AuthMode == IF cfg.cred = "none" THEN "noAuth" ELSE "userPass"

\* Mutants of the next definition: the option is not looked at, the default
\* is not set.
AcceptsNoAuthAlways == TRUE
AcceptsNoAuthByOption == cfg.noAuth

\* s.noAuth: WithNoAuth, or no WithUserPassAuth.
AcceptsNoAuth == cfg.noAuth \/ ~cfg.userPassAuth

\* The next field has arrived for the end that waits at a read.
Arrived(queue, names) == queue # <<>> /\ Head(queue).f \in names

-----------------------------------------------------------------------------
(* Mutants: one plausible slip per property, substituted by the checks. *)

AnswersEarly ==
    /\ spc = "control" /\ sOpen /\ "server" \notin stalled
    /\ Arrived(up, {"cmd"})
    /\ up' = Tail(up)
    /\ spc' = "uuid"
    /\ down' = Append(down, Field("result", "success"))
    /\ UNCHANGED <<envVars, clientVars, sOpen, sid, short>>

RegisterUnread ==
    /\ spc = "control" /\ sOpen /\ "server" \notin stalled
    /\ up # <<>>
    /\ up' = Tail(up)
    /\ spc' = "registered"
    /\ down' = Append(down, Field("result", "success"))
    /\ UNCHANGED <<envVars, clientVars, sOpen, sid, short>>

NextMethod ==
    /\ spc = "init" /\ sOpen /\ "server" \notin stalled
    /\ Arrived(up, {"methods"})
    /\ up' = Tail(up)
    /\ \/ /\ Head(up).v = "noAuth" /\ AcceptsNoAuth
          /\ down' = Append(down, Field("method", "noAuth"))
          /\ spc' = "command"
       \/ /\ Head(up).v = "userPass" /\ cfg.userPassAuth
          /\ down' = Append(down, Field("method", "userPass"))
          /\ spc' = "token"
       \/ /\ \/ Head(up).v = "noAuth" /\ ~AcceptsNoAuth
             \/ Head(up).v = "userPass" /\ ~cfg.userPassAuth
          /\ UNCHANGED <<down, spc>>
    /\ UNCHANGED <<envVars, clientVars, sOpen, sid, short>>

CloserAfterReturn ==
    /\ ctxDone /\ cOpen /\ "client" \notin stalled
    /\ ClientReturned
    /\ cOpen' = FALSE
    /\ UNCHANGED <<envVars, cpc, ctxDone, serverVars, up, down>>

BindLeavesConn ==
    /\ cpc = "failed" /\ cOpen /\ "client" \notin stalled
    /\ cfg.op # "bind"
    /\ cOpen' = FALSE
    /\ ctxDone' = TRUE
    /\ UNCHANGED <<envVars, cpc, serverVars, up, down>>

-----------------------------------------------------------------------------
(* The client *)

ClientReceives(names) ==
    /\ cOpen /\ "client" \notin stalled
    /\ Arrived(down, names)
    /\ down' = Tail(down)

\* Every error return; Register cancels its own context, ClientV2's V2 path
\* and Bind leave that to their caller.
ClientFails ==
    /\ cpc' = "failed"
    /\ ctxDone' = (ctxDone \/ cfg.op = "register")
    /\ UNCHANGED <<up, cOpen>>

ClientWrites(fields, pc) ==
    /\ up' = up \o fields
    /\ cpc' = pc
    /\ UNCHANGED <<cOpen, ctxDone>>

\* After authentication: register or bind, or ask for the V2 upgrade.
SendCommand ==
    IF cfg.op = "registerV2"
    THEN ClientWrites(<<Field("muxInit", "whole")>>, "mux")
    ELSE ClientWrites(<<Field("cmd", cfg.op), Field("uuid", "whole")>>, "result")

\* establish offers one method.
Establish == ClientWrites(<<Field("methods", AuthMode)>>, "method")

\* Register and Bind: state connected -> processing, and the closer goroutine is
\* started.
Begin ==
    /\ cpc = "idle" /\ "client" \notin stalled
    /\ Establish
    /\ UNCHANGED <<envVars, serverVars, down>>

\* handleAuth
RecvMethod ==
    /\ cpc = "method"
    /\ ClientReceives({"method"})
    /\ \/ Head(down).v = "noAuth" /\ AuthMode = "noAuth" /\ SendCommand
       \/ /\ Head(down).v = "userPass" /\ AuthMode = "userPass"
          /\ ClientWrites(<<Field("token", cfg.cred)>>, "auth")
       \/ Head(down).v # AuthMode /\ ClientFails
    /\ UNCHANGED <<envVars, serverVars>>

RecvAuth ==
    /\ cpc = "auth"
    /\ ClientReceives({"result"})
    /\ \/ Head(down).v = "success" /\ SendCommand
       \/ Head(down).v # "success" /\ ClientFails
    /\ UNCHANGED <<envVars, serverVars>>

\* readMsg takes the two bytes of MuxReady (no server of this repository answers
\* the request with anything else) ...
RecvMuxReady ==
    /\ cpc = "mux"
    /\ ClientReceives({"muxReady"})
    /\ ClientWrites(<<>>, "muxConfig")
    /\ UNCHANGED <<envVars, serverVars>>

\* ... and ReadFull the server's configuration; the session is created, the
\* control stream opened and the register command sent on it.
RecvMuxConfig ==
    /\ cpc = "muxConfig"
    /\ ClientReceives({"muxConfig"})
    /\ ClientWrites(<<Field("cmd", "register"), Field("uuid", "whole")>>, "result")
    /\ UNCHANGED <<envVars, serverVars>>

\* The answer to register, on the connection or on the control stream ...
RecvRegister ==
    /\ cpc = "result" /\ cfg.op # "bind"
    /\ ClientReceives({"result"})
    /\ IF Head(down).v = "success" THEN ClientWrites(<<>>, "ok") ELSE ClientFails
    /\ UNCHANGED <<envVars, serverVars>>

\* ... and to bind.
RecvBind ==
    /\ cpc = "result" /\ cfg.op = "bind"
    /\ ClientReceives({"result"})
    /\ IF Head(down).v = "success" THEN ClientWrites(<<>>, "ok") ELSE ClientFails
    /\ UNCHANGED <<envVars, serverVars>>

\* sendRequest or ReadFull fails: the connection is gone.
ClientReadError ==
    /\ cpc \in ClientReads /\ "client" \notin stalled
    /\ ~cOpen \/ ~sOpen \/ broken
    /\ ClientFails
    /\ UNCHANGED <<envVars, serverVars, down>>

\* The closer goroutine of Register and Bind.
Closer ==
    /\ ctxDone /\ cOpen /\ "client" \notin stalled
    /\ cOpen' = FALSE
    /\ UNCHANGED <<envVars, cpc, ctxDone, serverVars, up, down>>

\* Listen and createPoolConnection after a failed Register, acceptV1Connection
\* after a failed Bind: the caller closes the connection.
CallerCloses ==
    /\ cpc = "failed" /\ cOpen /\ "client" \notin stalled
    /\ cOpen' = FALSE
    /\ ctxDone' = (ctxDone \/ cfg.op # "bind")
    /\ UNCHANGED <<envVars, cpc, serverVars, up, down>>

-----------------------------------------------------------------------------
(* The server *)

ServerReceives(names) ==
    /\ sOpen /\ "server" \notin stalled
    /\ Arrived(up, names)

\* Process returns an error.  Server.Process closes the connection in every
\* case, ServerV2.Process only for some.
ServerFails(closes) ==
    /\ spc' = "failed"
    /\ sOpen' = (sOpen /\ ~closes /\ cfg.v2server)
    /\ UNCHANGED sid

ServerContinues(pc) ==
    /\ spc' = pc
    /\ UNCHANGED <<sOpen, sid>>

\* handleInit and handleAuth for the one method clients offer.
ReadMethods ==
    /\ spc = "init"
    /\ ServerReceives({"methods"})
    /\ up' = Tail(up)
    /\ \/ /\ Head(up).v = "noAuth" /\ AcceptsNoAuth
          /\ down' = Append(down, Field("method", "noAuth"))
          /\ ServerContinues("command")
       \/ /\ Head(up).v = "userPass" /\ cfg.userPassAuth
          /\ down' = Append(down, Field("method", "userPass"))
          /\ ServerContinues("token")
       \/ /\ \/ Head(up).v = "noAuth" /\ ~AcceptsNoAuth
             \/ Head(up).v = "userPass" /\ ~cfg.userPassAuth
          /\ down' = Append(down, Field("method", "noAcceptable"))
          /\ ServerFails(TRUE)
    /\ UNCHANGED <<envVars, clientVars, short>>

\* handleUserPassAuth: lengths of zero are errors without an answer.
ReadToken ==
    /\ spc = "token"
    /\ ServerReceives({"token"})
    /\ up' = Tail(up)
    /\ \/ /\ Head(up).v = "good"
          /\ down' = Append(down, Field("result", "success"))
          /\ ServerContinues("command")
       \/ /\ Head(up).v = "bad"
          /\ down' = Append(down, Field("result", "failure"))
          /\ ServerFails(TRUE)
       \/ /\ Head(up).v = "empty"
          /\ ServerFails(TRUE)
          /\ UNCHANGED down
    /\ UNCHANGED <<envVars, clientVars, short>>

\* A plain Read of the name or the password returns a part of it: what
\* userPassAuth gets to see is garbled, or a zero is taken for a length.
ReadTokenShort ==
    /\ spc = "token"
    /\ ServerReceives({"token"})
    /\ Head(up).v # "empty"
    /\ up' = <<Field("token", "rest")>> \o Tail(up)
    /\ down' \in {down, Append(down, Field("result", "failure"))}
    /\ ServerFails(TRUE)
    /\ short' = TRUE
    /\ UNCHANGED <<envVars, clientVars>>

\* A command of V1, or the request to upgrade, which only ServerV2 knows: it
\* answers, sends its configuration and starts the session.
ReadCommand ==
    /\ spc = "command"
    /\ ServerReceives({"cmd", "muxInit"})
    /\ up' = Tail(up)
    /\ \/ /\ Head(up).f = "cmd"
          /\ ServerContinues("uuid")
          /\ UNCHANGED down
       \/ /\ Head(up).f = "muxInit" /\ cfg.v2server
          /\ down' = down \o <<Field("muxReady", "whole"), Field("muxConfig", "whole")>>
          /\ ServerContinues("control")
       \/ /\ Head(up).f = "muxInit" /\ ~cfg.v2server
          /\ ServerFails(TRUE)
          /\ UNCHANGED down
    /\ UNCHANGED <<envVars, clientVars, short>>

\* The first stream is accepted and the register command read from it.
ReadControl ==
    /\ spc = "control"
    /\ ServerReceives({"cmd"})
    /\ up' = Tail(up)
    /\ ServerContinues("uuid")
    /\ UNCHANGED <<envVars, clientVars, down, short>>

\* The identifier is read, success written and the state set, in either order.
Accept ==
    /\ down' = Append(down, Field("result", "success"))
    /\ spc' = IF cfg.op = "bind" THEN "bound" ELSE "registered"
    /\ UNCHANGED sOpen

ReadUUID ==
    /\ spc = "uuid"
    /\ ServerReceives({"uuid"})
    /\ up' = Tail(up)
    /\ sid' = "full"
    /\ Accept
    /\ UNCHANGED <<envVars, clientVars, short>>

\* Read returns fewer than 16 bytes; the rest of the array is zero.
ReadUUIDShort ==
    /\ spc = "uuid"
    /\ cfg.op # "registerV2"
    /\ ServerReceives({"uuid"})
    /\ up' = <<Field("uuid", "rest")>> \o Tail(up)
    /\ sid' = "padded"
    /\ short' = TRUE
    /\ Accept
    /\ UNCHANGED <<envVars, clientVars>>

\* Closed by Process itself except where ServerV2 reads after the command.
ServerReadError ==
    /\ spc \in ServerReads /\ "server" \notin stalled
    /\ ~cOpen \/ ~sOpen \/ broken
    /\ ServerFails(spc \in {"init", "token", "command"})
    /\ UNCHANGED <<envVars, clientVars, up, down, short>>

\* The watcher goroutine of handleConnection: the dialer stops, or the handler
\* returns after an error.
WatcherCloses ==
    /\ sOpen /\ "server" \notin stalled
    /\ (stopped /\ ~ServerReturned) \/ spc = "failed"
    /\ sOpen' = FALSE
    /\ UNCHANGED <<envVars, clientVars, spc, sid, short, up, down>>

-----------------------------------------------------------------------------
(* The environment *)

\* The context of Listen, or of the listener for a bind, ends.
CancelClient ==
    /\ cpc \in ClientReads /\ ~ctxDone
    /\ ctxDone' = TRUE
    /\ cancelled' = TRUE
    /\ UNCHANGED <<cfg, broken, stopped, stalled, cpc, cOpen, serverVars, up, down>>

StopServer ==
    /\ ~ServerReturned /\ ~stopped
    /\ stopped' = TRUE
    /\ UNCHANGED <<cfg, broken, cancelled, stalled, clientVars, serverVars, up, down>>

Break ==
    /\ ~broken
    /\ broken' = TRUE
    /\ UNCHANGED <<cfg, cancelled, stopped, stalled, clientVars, serverVars, up, down>>

Stall(end) ==
    /\ end \notin stalled
    /\ stalled' = stalled \cup {end}
    /\ UNCHANGED <<cfg, broken, cancelled, stopped, clientVars, serverVars, up, down>>

ClientStep == \/ RecvMethod \/ RecvAuth \/ RecvMuxReady \/ RecvMuxConfig
              \/ RecvRegister \/ RecvBind \/ ClientReadError \/ CallerCloses
ServerStep == \/ ReadMethods \/ ReadToken \/ ReadTokenShort \/ ReadCommand
              \/ ReadControl \/ ReadUUID \/ ReadUUIDShort \/ ServerReadError
Environment == CancelClient \/ StopServer \/ Break \/ \E end \in {"client", "server"} : Stall(end)

Next == Begin \/ ClientStep \/ Closer \/ ServerStep \/ WatcherCloses \/ Environment

Spec == Init /\ [][Next]_vars

\* Goroutines of a process that runs are scheduled.  The client need not
\* begin, and nothing of the environment has to happen.
Fairness == /\ WF_vars(ClientStep) /\ WF_vars(Closer)
            /\ WF_vars(ServerStep) /\ WF_vars(WatcherCloses)

FairSpec == Spec /\ Fairness

-----------------------------------------------------------------------------
(* Properties *)

\* What the options of the server (server.go:404-415) let in.
Authorised == IF cfg.cred = "none" THEN cfg.noAuth \/ ~cfg.userPassAuth
              ELSE cfg.userPassAuth /\ cfg.cred = "good"

\* No server gets past authentication (server.go:253-321) unless the client may
\* use a method the server allows, with credentials it accepts, whatever was
\* cut short, closed or cancelled in between.
AuthRespected ==
    spc \in {"command", "control", "uuid"} \cup Accepted => Authorised

\* When Register or Bind returns nil, the server at the other end is registered
\* or bound too, for the same operation, and neither direction holds a field
\* that the first command, or the application on a bound connection, would read
\* as its own.  Only a short Read of the identifier (server.go:347, 379) makes
\* the two ends disagree on it, and it leaves bytes behind.
Agreement ==
    cpc = "ok" =>
        /\ spc = (IF cfg.op = "bind" THEN "bound" ELSE "registered")
        /\ down = <<>>
        /\ (sid = "full" /\ up = <<>>) \/ (short /\ sid = "padded" /\ up # <<>>)

-----------------------------------------------------------------------------
(* The inductive invariant *)

Methods == Field("methods", AuthMode)
Token == Field("token", cfg.cred)
UUID == Field("uuid", "whole")
Final == IF cfg.op = "bind" THEN "bound" ELSE "registered"

\* What the server has yet to read is what it expects next, and a server that
\* accepted has taken the identifier or left a rest of it.
ServerView ==
    /\ spc = "init" => up \in {<<>>, <<Methods>>}
    /\ spc = "token" => up \in {<<>>, <<Token>>} /\ cfg.userPassAuth /\ cfg.cred # "none"
    /\ spc = "command" => \/ up = <<>>
                          \/ up = <<Field("muxInit", "whole")>> /\ cfg.op = "registerV2"
                          \/ up = <<Field("cmd", cfg.op), UUID>> /\ cfg.op # "registerV2"
    /\ spc = "control" => /\ up \in {<<>>, <<Field("cmd", "register"), UUID>>}
                          /\ cfg.op = "registerV2"
    /\ spc = "uuid" => up = <<UUID>>
    /\ spc \in Accepted =>
          /\ spc = Final
          /\ \/ up = <<>> /\ sid = "full"
             \/ up = <<Field("uuid", "rest")>> /\ sid = "padded" /\ short

\* One exchange at a time: while the client waits at a read, either its last
\* fields are on their way up, or the answer is on its way down, or the server
\* has failed and there may be an answer from before.
ClientView ==
    /\ cpc = "idle" => spc \in {"init", "failed"} /\ up = <<>> /\ down = <<>>
    /\ cpc = "method" =>
          \/ spc = "init" /\ up = <<Methods>> /\ down = <<>>
          \/ spc = "token" /\ up = <<>> /\ down = <<Field("method", "userPass")>>
          \/ spc = "command" /\ up = <<>> /\ down = <<Field("method", "noAuth")>>
          \/ spc = "failed" /\ (down = <<>> \/ \E v \in {"noAuth", "userPass", "noAcceptable"} :
                                                  down = <<Field("method", v)>>)
    /\ cpc = "auth" =>
          \/ spc = "token" /\ up = <<Token>> /\ down = <<>>
          \/ spc = "command" /\ up = <<>> /\ down = <<Field("result", "success")>>
          \/ spc = "failed" /\ (down = <<>> \/ \E v \in {"success", "failure"} :
                                                  down = <<Field("result", v)>>)
    /\ cpc = "mux" =>
          /\ cfg.op = "registerV2"
          /\ \/ spc = "command" /\ up = <<Field("muxInit", "whole")>> /\ down = <<>>
             \/ spc = "control" /\ up = <<>>
                /\ down = <<Field("muxReady", "whole"), Field("muxConfig", "whole")>>
             \/ spc = "failed"
                /\ down \in {<<>>, <<Field("muxReady", "whole"), Field("muxConfig", "whole")>>}
    /\ cpc = "muxConfig" =>
          /\ cfg.op = "registerV2"
          /\ down = <<Field("muxConfig", "whole")>>
          /\ (spc = "control" /\ up = <<>>) \/ spc = "failed"
    /\ cpc = "result" =>
          \/ spc = "command" /\ cfg.op # "registerV2" /\ up # <<>> /\ down = <<>>
          \/ spc = "control" /\ up # <<>> /\ down = <<>>
          \/ spc \in {"uuid", "failed"} /\ down = <<>>
          \/ spc = Final /\ down = <<Field("result", "success")>>
    /\ cpc = "ok" => spc = Final /\ down = <<>>

IndInv == TypeOK /\ AuthRespected /\ ServerView /\ ClientView

-----------------------------------------------------------------------------
(* Liveness *)

\* What the ends do to themselves when they fail is no disturbance.
Disturbed == cancelled \/ stopped \/ broken \/ stalled # {} \/ short

\* Two ends that nobody disturbs and whose configurations fit reach the end of
\* the handshake.  A V2 client fits a ServerV2 only.
CompatibleSucceeds ==
    (cpc # "idle" /\ Authorised /\ (cfg.op = "registerV2" => cfg.v2server))
        ~> (cpc = "ok" \/ Disturbed)

\* Whatever the configurations, the ends never wait for each other: as long as
\* both processes run, both calls return.
HandshakeEnds ==
    (cpc # "idle") ~> (stalled # {} \/ (ClientReturned /\ ServerReturned))

\* A cancelled end returns, even if the other stays silent: neither sets a
\* deadline, but the client's closer (client.go:79-85, 144-150) and the dialer's
\* watcher (dialer.go:213-219) close the connection under a blocked read.
CancelledEndsReturn ==
    /\ cancelled ~> (ClientReturned \/ "client" \in stalled)
    /\ stopped ~> (ServerReturned \/ "server" \in stalled)

\* An end whose handshake failed gives its connection up, so that the other end,
\* which may believe it succeeded, learns of it.
FailedEndsClose ==
    /\ (cpc = "failed") ~> (~cOpen \/ "client" \in stalled)
    /\ (spc = "failed") ~> (~sOpen \/ "server" \in stalled)

=============================================================================

--------------------------- MODULE HandshakeProofs ---------------------------
(***************************************************************************)
(* Proofs about Handshake, for any of the operations, credentials, server  *)
(* versions and options, and however the two ends are disturbed.           *)
(***************************************************************************)
EXTENDS Handshake, TLAPS

-----------------------------------------------------------------------------
(* Queues of one and two fields *)

LEMMA OneField ==
    ASSUME NEW x
    PROVE  /\ <<x>> # <<>> /\ Head(<<x>>) = x /\ Tail(<<x>>) = <<>>
           /\ Append(<<>>, x) = <<x>> /\ <<>> \o <<x>> = <<x>> /\ <<x>> \o <<>> = <<x>>
    OBVIOUS

LEMMA TwoFields ==
    ASSUME NEW x, NEW y
    PROVE  /\ <<x, y>> # <<>> /\ Head(<<x, y>>) = x /\ Tail(<<x, y>>) = <<y>>
           /\ <<>> \o <<x, y>> = <<x, y>>
    OBVIOUS

\* Fields differ in their names or their values.
LEMMA FieldParts ==
    ASSUME NEW n, NEW v
    PROVE  Field(n, v).f = n /\ Field(n, v).v = v
    BY DEF Field

-----------------------------------------------------------------------------
(* Types *)

\* What cfg can be.
LEMMA ConfigTypes ==
    ASSUME TypeOK
    PROVE  /\ cfg.op \in {"register", "registerV2", "bind"}
           /\ cfg.cred \in {"none", "good", "bad", "empty"}
           /\ cfg.v2server \in BOOLEAN
           /\ cfg.noAuth \in BOOLEAN /\ cfg.userPassAuth \in BOOLEAN
    BY ConfigAssumption DEF TypeOK, Configs

\* What the ends write are fields.
LEMMA WrittenFields ==
    ASSUME TypeOK
    PROVE  /\ Field("methods", AuthMode) \in Fields
           /\ AuthMode = "userPass" => Field("token", cfg.cred) \in Fields
           /\ cfg.op # "registerV2" => Field("cmd", cfg.op) \in Fields
           /\ Field("cmd", "register") \in Fields
           /\ Field("uuid", "whole") \in Fields /\ Field("uuid", "rest") \in Fields
           /\ Field("token", "rest") \in Fields
           /\ Field("muxInit", "whole") \in Fields
           /\ Field("muxReady", "whole") \in Fields
           /\ Field("muxConfig", "whole") \in Fields
           /\ \A v \in {"noAuth", "userPass", "noAcceptable"} : Field("method", v) \in Fields
           /\ \A v \in {"success", "failure"} : Field("result", v) \in Fields
    BY ConfigTypes DEF Field, Fields, AuthMode

LEMMA QueueTypes ==
    ASSUME NEW q \in Seq(Fields), NEW x \in Fields, NEW y \in Fields
    PROVE  /\ q # <<>> => Tail(q) \in Seq(Fields)
           /\ Append(q, x) \in Seq(Fields)
           /\ <<>> \in Seq(Fields)
           /\ <<x>> \in Seq(Fields) /\ <<x, y>> \in Seq(Fields)
           /\ q \o <<>> \in Seq(Fields) /\ q \o <<x>> \in Seq(Fields)
           /\ q \o <<x, y>> \in Seq(Fields)
           /\ q # <<>> => <<x>> \o Tail(q) \in Seq(Fields)
    OBVIOUS

\* What a client's write, failure and command leave behind.
LEMMA WriteTypes ==
    ASSUME TypeOK, NEW fields, NEW pc \in {"ok"} \cup ClientReads,
           ClientWrites(fields, pc),
           \/ fields = <<>>
           \/ \E x \in Fields : fields = <<x>>
           \/ \E x \in Fields, y \in Fields : fields = <<x, y>>
    PROVE  /\ up' \in Seq(Fields)
           /\ cpc' \in {"idle", "ok", "failed"} \cup ClientReads
           /\ cOpen' \in BOOLEAN /\ ctxDone' \in BOOLEAN
<1>1. up \in Seq(Fields) /\ up' = up \o fields
    BY DEF ClientWrites, TypeOK
<1>2. up' \in Seq(Fields)
    <2>1. CASE fields = <<>>
        BY <1>1, <2>1
    <2>2. ASSUME NEW x \in Fields, fields = <<x>> PROVE up' \in Seq(Fields)
        BY <1>1, <2>2, QueueTypes
    <2>3. ASSUME NEW x \in Fields, NEW y \in Fields, fields = <<x, y>>
          PROVE  up' \in Seq(Fields)
        BY <1>1, <2>3, QueueTypes
    <2> QED
        BY <2>1, <2>2, <2>3
<1> QED
    BY <1>2 DEF ClientWrites, TypeOK

LEMMA FailTypes ==
    ASSUME TypeOK, ClientFails
    PROVE  /\ up' \in Seq(Fields)
           /\ cpc' \in {"idle", "ok", "failed"} \cup ClientReads
           /\ cOpen' \in BOOLEAN /\ ctxDone' \in BOOLEAN
    BY DEF ClientFails, TypeOK

LEMMA CommandTypes ==
    ASSUME TypeOK, SendCommand
    PROVE  /\ up' \in Seq(Fields)
           /\ cpc' \in {"idle", "ok", "failed"} \cup ClientReads
           /\ cOpen' \in BOOLEAN /\ ctxDone' \in BOOLEAN
<1>1. CASE cfg.op = "registerV2"
    <2>1. ClientWrites(<<Field("muxInit", "whole")>>, "mux")
        BY <1>1 DEF SendCommand
    <2> QED
        BY <2>1, WriteTypes, WrittenFields DEF ClientReads
<1>2. CASE cfg.op # "registerV2"
    <2>1. ClientWrites(<<Field("cmd", cfg.op), Field("uuid", "whole")>>, "result")
        BY <1>2 DEF SendCommand
    <2> QED
        BY <1>2, <2>1, WriteTypes, WrittenFields DEF ClientReads
<1> QED
    BY <1>1, <1>2

\* The client's steps keep the types.
LEMMA ClientTypes ==
    ASSUME TypeOK, Begin \/ ClientStep \/ Closer
    PROVE  TypeOK'
<1>1. /\ UNCHANGED <<cfg, spc, sOpen, broken, cancelled, stopped, stalled, sid, short>>
      /\ down' \in Seq(Fields)
    <2>1. UNCHANGED <<cfg, spc, sOpen, broken, cancelled, stopped, stalled, sid, short>>
        BY DEF Begin, ClientStep, RecvMethod, RecvAuth, RecvMuxReady, RecvMuxConfig,
               RecvRegister, RecvBind, ClientReadError, CallerCloses, Closer, envVars,
               serverVars
    <2>2. down' = down \/ (down # <<>> /\ down' = Tail(down))
        BY DEF Begin, ClientStep, RecvMethod, RecvAuth, RecvMuxReady, RecvMuxConfig,
               RecvRegister, RecvBind, ClientReadError, CallerCloses, Closer,
               ClientReceives, Arrived
    <2>3. down' \in Seq(Fields)
        BY <2>2 DEF TypeOK
    <2> QED
        BY <2>1, <2>3
<1>2. /\ up' \in Seq(Fields)
      /\ cpc' \in {"idle", "ok", "failed"} \cup ClientReads
      /\ cOpen' \in BOOLEAN /\ ctxDone' \in BOOLEAN
    <2>1. CASE Begin
        BY <2>1, WriteTypes, WrittenFields DEF Begin, Establish, ClientReads
    <2>2. CASE RecvMethod
        <3>1. CASE SendCommand
            BY <3>1, CommandTypes
        <3>2. CASE AuthMode = "userPass" /\ ClientWrites(<<Field("token", cfg.cred)>>, "auth")
            BY <3>2, WriteTypes, WrittenFields DEF ClientReads
        <3>3. CASE ClientFails
            BY <3>3, FailTypes
        <3> QED
            BY <2>2, <3>1, <3>2, <3>3 DEF RecvMethod
    <2>3. CASE RecvAuth
        BY <2>3, CommandTypes, FailTypes DEF RecvAuth
    <2>4. CASE RecvMuxReady
        BY <2>4, WriteTypes DEF RecvMuxReady, ClientReads
    <2>5. CASE RecvMuxConfig
        BY <2>5, WriteTypes, WrittenFields DEF RecvMuxConfig, ClientReads
    <2>6. CASE RecvRegister \/ RecvBind
        <3>1. ClientWrites(<<>>, "ok") \/ ClientFails
            BY <2>6 DEF RecvRegister, RecvBind
        <3> QED
            BY <3>1, WriteTypes, FailTypes
    <2>7. CASE ClientReadError
        BY <2>7, FailTypes DEF ClientReadError
    <2>8. CASE CallerCloses \/ Closer
        BY <2>8 DEF CallerCloses, Closer, TypeOK
    <2> QED
        BY <2>1, <2>2, <2>3, <2>4, <2>5, <2>6, <2>7, <2>8 DEF ClientStep
<1> QED
    BY <1>1, <1>2 DEF TypeOK

LEMMA ServerTypes ==
    ASSUME TypeOK, ServerStep \/ WatcherCloses \/ Environment
    PROVE  TypeOK'
<1>1. CASE WatcherCloses \/ Environment
    <2> USE DEF TypeOK, clientVars, serverVars
    <2>1. CASE WatcherCloses
        BY <2>1 DEF WatcherCloses, envVars
    <2>2. CASE CancelClient
        BY <2>2 DEF CancelClient
    <2>3. CASE StopServer
        BY <2>3 DEF StopServer
    <2>4. CASE Break
        BY <2>4 DEF Break
    <2>5. ASSUME NEW end \in {"client", "server"}, Stall(end) PROVE TypeOK'
        BY <2>5 DEF Stall
    <2> QED
        BY <1>1, <2>1, <2>2, <2>3, <2>4, <2>5 DEF Environment
<1>2. CASE ServerStep
    <2>1. UNCHANGED <<cfg, cpc, cOpen, ctxDone, cancelled, broken, stopped, stalled>>
        BY <1>2 DEF ServerStep, ReadMethods, ReadToken, ReadTokenShort, ReadCommand,
                    ReadControl, ReadUUID, ReadUUIDShort, ServerReadError, envVars,
                    clientVars
    <2>2. /\ up' \in Seq(Fields)
          /\ down' \in Seq(Fields)
        <3>1. \/ up' = up
              \/ up # <<>> /\ \/ up' = Tail(up)
                              \/ up' = <<Field("token", "rest")>> \o Tail(up)
                              \/ up' = <<Field("uuid", "rest")>> \o Tail(up)
            BY <1>2 DEF ServerStep, ReadMethods, ReadToken, ReadTokenShort, ReadCommand,
                        ReadControl, ReadUUID, ReadUUIDShort, ServerReadError,
                        ServerReceives, Arrived
        <3>2. \/ down' = down
              \/ \E v \in {"noAuth", "userPass", "noAcceptable"} :
                    down' = Append(down, Field("method", v))
              \/ \E v \in {"success", "failure"} : down' = Append(down, Field("result", v))
              \/ down' = down \o <<Field("muxReady", "whole"), Field("muxConfig", "whole")>>
            BY <1>2 DEF ServerStep, ReadMethods, ReadToken, ReadTokenShort, ReadCommand,
                        ReadControl, ReadUUID, ReadUUIDShort, ServerReadError, Accept
        <3>3. up \in Seq(Fields) /\ down \in Seq(Fields)
            BY DEF TypeOK
        <3>4. up' \in Seq(Fields)
            BY <3>1, <3>3, WrittenFields, QueueTypes
        <3>5. down' \in Seq(Fields)
            <4>1. \A x \in Fields : Append(down, x) \in Seq(Fields)
                BY <3>3, QueueTypes
            <4>2. down \o <<Field("muxReady", "whole"), Field("muxConfig", "whole")>> \in Seq(Fields)
                BY <3>3, WrittenFields, QueueTypes
            <4> QED
                BY <3>2, <3>3, <4>1, <4>2, WrittenFields
        <3> QED
            BY <3>4, <3>5
    <2>3. /\ spc' \in ServerReads \cup Accepted \cup {"failed"}
          /\ sOpen' \in BOOLEAN /\ short' \in BOOLEAN
          /\ sid' \in {"none", "full", "padded"}
          /\ spc' \in Accepted => sid' # "none"
        <3>1. CASE ReadMethods \/ ReadToken \/ ReadTokenShort \/ ReadCommand
            BY <3>1 DEF ReadMethods, ReadToken, ReadTokenShort, ReadCommand, ServerFails,
                        ServerContinues, TypeOK, ServerReads, Accepted
        <3>2. CASE ReadControl \/ ServerReadError
            BY <3>2 DEF ReadControl, ServerReadError, ServerFails, ServerContinues, TypeOK,
                        ServerReads, Accepted
        <3>3. CASE ReadUUID \/ ReadUUIDShort
            BY <3>3 DEF ReadUUID, ReadUUIDShort, Accept, TypeOK, ServerReads, Accepted
        <3> QED
            BY <1>2, <3>1, <3>2, <3>3 DEF ServerStep
    <2> QED
        BY <2>1, <2>2, <2>3 DEF TypeOK
<1> QED
    BY <1>1, <1>2

LEMMA StepTypes ==
    ASSUME TypeOK, [Next]_vars
    PROVE  TypeOK'
<1>1. CASE UNCHANGED vars
    BY <1>1 DEF vars, TypeOK
<1> QED
    BY <1>1, ClientTypes, ServerTypes DEF Next

-----------------------------------------------------------------------------
(* The client's steps and the queues *)

\* Configurations do not change, nor do the fields they determine.
LEMMA SameConfig ==
    ASSUME cfg' = cfg
    PROVE  /\ Methods' = Methods /\ Token' = Token /\ UUID' = UUID /\ Final' = Final
           /\ AuthMode' = AuthMode /\ Authorised' = Authorised
    BY DEF Methods, Token, UUID, Final, AuthMode, Authorised

\* A client that gives up leaves the server's view as it was.
LEMMA FailViews ==
    ASSUME IndInv, ClientFails, UNCHANGED <<cfg, spc, sid, short>>
    PROVE  ServerView' /\ ClientView'
    BY SameConfig DEF IndInv, ServerView, ClientView, ClientFails, Accepted

\* A client that got past authentication sends its command to a server that
\* waits for one, or to nobody.
LEMMA CommandViews ==
    ASSUME IndInv, SendCommand, UNCHANGED <<cfg, spc, sid, short>>,
           spc = "failed" \/ (spc = "command" /\ up = <<>>), down' = <<>>
    PROVE  ServerView' /\ ClientView'
<1>1. CASE cfg.op = "registerV2"
    <2>1. cpc' = "mux" /\ up' = up \o <<Field("muxInit", "whole")>>
        BY <1>1 DEF SendCommand, ClientWrites
    <2>2. spc = "command" => up' = <<Field("muxInit", "whole")>>
        BY <2>1, OneField
    <2>3. ServerView'
        BY <1>1, <2>2 DEF ServerView, Accepted
    <2>4. ClientView'
        BY <1>1, <2>1, <2>2 DEF ClientView
    <2> QED
        BY <2>3, <2>4
<1>2. CASE cfg.op # "registerV2"
    <2>1. cpc' = "result" /\ up' = up \o <<Field("cmd", cfg.op), UUID>>
        BY <1>2 DEF SendCommand, ClientWrites, UUID
    <2>2. spc = "command" => up' = <<Field("cmd", cfg.op), UUID>>
        BY <2>1, TwoFields
    <2>3. ServerView'
        BY <1>2, <2>2, SameConfig DEF ServerView, Accepted
    <2>4. ClientView'
        BY <1>2, <2>1, <2>2, TwoFields DEF ClientView
    <2> QED
        BY <2>3, <2>4
<1> QED
    BY <1>1, <1>2

LEMMA BeginViews ==
    ASSUME IndInv, Begin
    PROVE  ServerView' /\ ClientView'
<1>1. /\ spc \in {"init", "failed"} /\ up = <<>> /\ down = <<>>
      /\ cpc' = "method" /\ up' = up \o <<Methods>> /\ down' = down
      /\ UNCHANGED <<cfg, spc, sid, short>>
    BY DEF Begin, Establish, ClientWrites, Methods, IndInv, ClientView, envVars, serverVars
<1>2. up' = <<Methods>>
    BY <1>1, OneField
<1> QED
    BY <1>1, <1>2, SameConfig DEF ServerView, ClientView, Accepted

LEMMA RecvMethodViews ==
    ASSUME IndInv, RecvMethod
    PROVE  ServerView' /\ ClientView'
<1>1. /\ cpc = "method" /\ down # <<>> /\ down' = Tail(down)
      /\ UNCHANGED <<cfg, spc, sid, short>>
    BY DEF RecvMethod, ClientReceives, Arrived, envVars, serverVars
<1>2. PICK v : /\ down = <<Field("method", v)>>
               /\ \/ spc = "token" /\ up = <<>> /\ v = "userPass"
                  \/ spc = "command" /\ up = <<>> /\ v = "noAuth"
                  \/ spc = "failed"
    BY <1>1 DEF IndInv, ClientView
<1>3. down' = <<>> /\ Head(down).v = v
    BY <1>1, <1>2, OneField, FieldParts
<1>4. CASE v = "noAuth" /\ SendCommand
    BY <1>1, <1>2, <1>3, <1>4, CommandViews
<1>5. CASE v = "userPass" /\ ClientWrites(<<Token>>, "auth")
    <2>1. cpc' = "auth" /\ up' = up \o <<Token>>
        BY <1>5 DEF ClientWrites
    <2>2. spc = "token" => up' = <<Token>>
        BY <1>2, <1>5, <2>1, OneField
    <2>3. spc \in {"token", "failed"}
        BY <1>2, <1>5
    <2>4. ServerView'
        BY <1>1, <2>2, <2>3, SameConfig DEF IndInv, ServerView, Accepted
    <2>5. ClientView'
        BY <1>1, <1>3, <2>1, <2>2, <2>3, SameConfig DEF ClientView
    <2> QED
        BY <2>4, <2>5
<1>6. CASE ClientFails
    BY <1>1, <1>6, FailViews
<1> QED
    BY <1>3, <1>4, <1>5, <1>6 DEF RecvMethod, Token

LEMMA RecvAuthViews ==
    ASSUME IndInv, RecvAuth
    PROVE  ServerView' /\ ClientView'
<1>1. /\ cpc = "auth" /\ down # <<>> /\ down' = Tail(down)
      /\ UNCHANGED <<cfg, spc, sid, short>>
    BY DEF RecvAuth, ClientReceives, Arrived, envVars, serverVars
<1>2. PICK v : /\ down = <<Field("result", v)>>
               /\ spc = "failed" \/ (spc = "command" /\ up = <<>>)
    BY <1>1 DEF IndInv, ClientView
<1>3. down' = <<>>
    BY <1>1, <1>2, OneField
<1>4. CASE SendCommand
    BY <1>1, <1>2, <1>3, <1>4, CommandViews
<1>5. CASE ClientFails
    BY <1>1, <1>5, FailViews
<1> QED
    BY <1>4, <1>5 DEF RecvAuth

LEMMA RecvMuxViews ==
    ASSUME IndInv, RecvMuxReady \/ RecvMuxConfig
    PROVE  ServerView' /\ ClientView'
<1>0. UNCHANGED <<cfg, spc, sid, short>> /\ down # <<>> /\ down' = Tail(down)
    BY DEF RecvMuxReady, RecvMuxConfig, ClientReceives, Arrived, envVars, serverVars
<1>1. CASE RecvMuxReady
    <2>1. /\ cpc = "mux" /\ cpc' = "muxConfig" /\ up' = up \o <<>>
          /\ up \in Seq(Fields)
        BY <1>1 DEF RecvMuxReady, ClientWrites, IndInv, TypeOK
    <2>2. /\ cfg.op = "registerV2"
          /\ down = <<Field("muxReady", "whole"), Field("muxConfig", "whole")>>
          /\ (spc = "control" /\ up = <<>>) \/ spc = "failed"
        BY <1>0, <2>1 DEF IndInv, ClientView
    <2>3. down' = <<Field("muxConfig", "whole")>> /\ up' = up
        BY <1>0, <2>1, <2>2, TwoFields
    <2>4. ServerView'
        BY <1>0, <2>2, <2>3, SameConfig DEF IndInv, ServerView, Accepted
    <2>5. ClientView'
        BY <1>0, <2>1, <2>2, <2>3 DEF ClientView
    <2> QED
        BY <2>4, <2>5
<1>2. CASE RecvMuxConfig
    <2>1. /\ cpc = "muxConfig" /\ cpc' = "result"
          /\ up' = up \o <<Field("cmd", "register"), UUID>>
        BY <1>2 DEF RecvMuxConfig, ClientWrites, UUID
    <2>2. /\ cfg.op = "registerV2"
          /\ down = <<Field("muxConfig", "whole")>>
          /\ (spc = "control" /\ up = <<>>) \/ spc = "failed"
        BY <2>1 DEF IndInv, ClientView
    <2>3. /\ down' = <<>>
          /\ spc = "control" => up' = <<Field("cmd", "register"), UUID>>
        BY <1>0, <2>1, <2>2, OneField, TwoFields
    <2>4. ServerView'
        BY <1>0, <2>2, <2>3, SameConfig DEF ServerView, Accepted
    <2>5. ClientView'
        BY <1>0, <2>1, <2>2, <2>3, TwoFields DEF ClientView
    <2> QED
        BY <2>4, <2>5
<1> QED
    BY <1>1, <1>2

\* The answer is there only once the server has accepted.
LEMMA RecvResultViews ==
    ASSUME IndInv, RecvRegister \/ RecvBind
    PROVE  ServerView' /\ ClientView'
<1>1. /\ cpc = "result" /\ down # <<>> /\ down' = Tail(down)
      /\ UNCHANGED <<cfg, spc, sid, short>>
      /\ ClientWrites(<<>>, "ok") \/ ClientFails
    BY DEF RecvRegister, RecvBind, ClientReceives, Arrived, envVars, serverVars
<1>2. CASE ClientFails
    BY <1>1, <1>2, FailViews
<1>3. CASE ClientWrites(<<>>, "ok")
    <2>1. cpc' = "ok" /\ up' = up \o <<>> /\ up \in Seq(Fields)
        BY <1>3 DEF ClientWrites, IndInv, TypeOK
    <2>2. spc = Final /\ down = <<Field("result", "success")>>
        BY <1>1 DEF IndInv, ClientView
    <2>3. up' = up /\ down' = <<>>
        BY <1>1, <2>1, <2>2, OneField
    <2>4. ServerView'
        BY <1>1, <2>3, SameConfig DEF IndInv, ServerView, Accepted
    <2>5. ClientView'
        BY <1>1, <2>1, <2>2, <2>3, SameConfig DEF ClientView
    <2> QED
        BY <2>4, <2>5
<1> QED
    BY <1>1, <1>2, <1>3

-----------------------------------------------------------------------------
(* The server's steps and the queues *)

\* The method is chosen by what the client offered and the options allow, or
\* refused (server.go:217-274).
LEMMA ReadMethodsViews ==
    ASSUME IndInv, ReadMethods
    PROVE  AuthRespected' /\ ServerView' /\ ClientView'
<1>1. /\ spc = "init" /\ up # <<>> /\ up' = Tail(up)
      /\ UNCHANGED <<cfg, cpc, short>>
    BY DEF ReadMethods, ServerReceives, Arrived, envVars, clientVars
<1>2. up = <<Methods>> /\ Head(up).v = AuthMode /\ up' = <<>>
    BY <1>1, OneField, FieldParts DEF IndInv, ServerView, Methods
<1>3. /\ cpc \in {"method", "failed"}
      /\ cpc = "method" => down = <<>>
    BY <1>1, <1>2, OneField DEF IndInv, ClientView, TypeOK, ClientReads, Final
<1>4. CASE /\ AuthMode = "noAuth" /\ AcceptsNoAuth /\ spc' = "command" /\ sid' = sid
           /\ down' = Append(down, Field("method", "noAuth"))
    <2>1. Authorised
        BY <1>4 DEF Authorised, AuthMode, AcceptsNoAuth
    <2>2. cpc = "method" => down' = <<Field("method", "noAuth")>>
        BY <1>3, <1>4, OneField
    <2> QED
        BY <1>1, <1>2, <1>3, <1>4, <2>1, <2>2, SameConfig
        DEF AuthRespected, ServerView, ClientView, Accepted
<1>5. CASE /\ AuthMode = "userPass" /\ cfg.userPassAuth /\ spc' = "token" /\ sid' = sid
           /\ down' = Append(down, Field("method", "userPass"))
    <2>1. cfg.cred # "none"
        BY <1>5 DEF AuthMode
    <2>2. cpc = "method" => down' = <<Field("method", "userPass")>>
        BY <1>3, <1>5, OneField
    <2> QED
        BY <1>1, <1>2, <1>3, <1>5, <2>1, <2>2, SameConfig
        DEF AuthRespected, ServerView, ClientView, Accepted
<1>6. CASE spc' = "failed" /\ down' = Append(down, Field("method", "noAcceptable"))
    <2>1. cpc = "method" => down' = <<Field("method", "noAcceptable")>>
        BY <1>3, <1>6, OneField
    <2> QED
        BY <1>1, <1>3, <1>6, <2>1 DEF AuthRespected, ServerView, ClientView, Accepted
<1> QED
    BY <1>2, <1>4, <1>5, <1>6 DEF ReadMethods, ServerContinues, ServerFails

LEMMA ReadTokenViews ==
    ASSUME IndInv, ReadToken \/ ReadTokenShort
    PROVE  AuthRespected' /\ ServerView' /\ ClientView'
<1>1. /\ spc = "token" /\ up # <<>>
      /\ UNCHANGED <<cfg, cpc>>
    BY DEF ReadToken, ReadTokenShort, ServerReceives, Arrived, envVars, clientVars
<1>2. /\ up = <<Token>> /\ Head(up).v = cfg.cred /\ Tail(up) = <<>>
      /\ cfg.userPassAuth /\ cfg.cred # "none"
    <2>1. up = <<Token>> /\ cfg.userPassAuth /\ cfg.cred # "none"
        BY <1>1 DEF IndInv, ServerView
    <2>2. Token.v = cfg.cred
        BY FieldParts DEF Token
    <2> QED
        BY <2>1, <2>2, OneField
<1>3. /\ cpc \in {"auth", "failed"}
      /\ cpc = "auth" => down = <<>>
    BY <1>1, <1>2, OneField DEF IndInv, ClientView, TypeOK, ClientReads, Final
<1>4. CASE /\ cfg.cred = "good" /\ spc' = "command" /\ up' = Tail(up)
           /\ UNCHANGED <<sid, short>>
           /\ down' = Append(down, Field("result", "success"))
    <2>1. Authorised
        BY <1>2, <1>4 DEF Authorised
    <2>2. cpc = "auth" => down' = <<Field("result", "success")>>
        BY <1>3, <1>4, OneField
    <2> QED
        BY <1>1, <1>2, <1>3, <1>4, <2>1, <2>2, SameConfig
        DEF AuthRespected, ServerView, ClientView, Accepted
<1>5. CASE spc' = "failed" /\ down' \in {down, Append(down, Field("result", "failure"))}
    <2>1. cpc = "auth" => down' \in {<<>>, <<Field("result", "failure")>>}
        BY <1>3, <1>5, OneField
    <2> QED
        BY <1>1, <1>3, <1>5, <2>1 DEF AuthRespected, ServerView, ClientView, Accepted
<1> QED
    BY <1>2, <1>4, <1>5
    DEF ReadToken, ReadTokenShort, ServerContinues, ServerFails

LEMMA ReadCommandViews ==
    ASSUME IndInv, ReadCommand
    PROVE  AuthRespected' /\ ServerView' /\ ClientView'
<1>1. /\ spc = "command" /\ up # <<>> /\ up' = Tail(up)
      /\ UNCHANGED <<cfg, cpc, short>>
    BY DEF ReadCommand, ServerReceives, Arrived, envVars, clientVars
<1>2. Authorised
    BY <1>1 DEF IndInv, AuthRespected
<1>3. CASE cfg.op = "registerV2"
    <2>1. /\ up = <<Field("muxInit", "whole")>>
          /\ Head(up).f = "muxInit" /\ up' = <<>>
        BY <1>1, <1>3, OneField, FieldParts DEF IndInv, ServerView
    <2>2. /\ cpc \in {"mux", "failed"}
          /\ cpc = "mux" => down = <<>>
        BY <1>1, <1>3 DEF IndInv, ClientView, TypeOK, ClientReads, Final
    <2>3. CASE /\ spc' = "control" /\ sid' = sid
               /\ down' = down \o <<Field("muxReady", "whole"), Field("muxConfig", "whole")>>
        <3>1. cpc = "mux" =>
                  down' = <<Field("muxReady", "whole"), Field("muxConfig", "whole")>>
            BY <2>2, <2>3, TwoFields
        <3> QED
            BY <1>1, <1>2, <1>3, <2>1, <2>2, <2>3, <3>1, SameConfig
            DEF AuthRespected, ServerView, ClientView, Accepted
    <2>4. CASE spc' = "failed" /\ down' = down
        BY <1>1, <1>3, <2>2, <2>4 DEF AuthRespected, ServerView, ClientView, Accepted
    <2> QED
        BY <2>1, <2>3, <2>4 DEF ReadCommand, ServerContinues, ServerFails
<1>4. CASE cfg.op # "registerV2"
    <2>1. /\ up = <<Field("cmd", cfg.op), UUID>>
          /\ Head(up).f = "cmd" /\ up' = <<UUID>>
        <3>1. up = <<Field("cmd", cfg.op), UUID>>
            BY <1>1, <1>4 DEF IndInv, ServerView
        <3>2. Field("cmd", cfg.op).f = "cmd"
            BY FieldParts
        <3> QED
            BY <1>1, <3>1, <3>2, TwoFields
    <2>2. /\ cpc \in {"result", "failed"}
          /\ cpc = "result" => down = <<>>
        BY <1>1, <1>4 DEF IndInv, ClientView, TypeOK, ClientReads, Final
    <2>3. spc' = "uuid" /\ down' = down
        BY <2>1 DEF ReadCommand, ServerContinues
    <2> QED
        BY <1>1, <1>2, <2>1, <2>2, <2>3, SameConfig
        DEF AuthRespected, ServerView, ClientView, Accepted
<1> QED
    BY <1>3, <1>4

LEMMA ReadControlViews ==
    ASSUME IndInv, ReadControl
    PROVE  AuthRespected' /\ ServerView' /\ ClientView'
<1>1. /\ spc = "control" /\ up # <<>> /\ up' = Tail(up)
      /\ spc' = "uuid"
      /\ UNCHANGED <<cfg, cpc, down>>
    BY DEF ReadControl, ServerReceives, Arrived, ServerContinues, envVars, clientVars
<1>2. Authorised
    BY <1>1 DEF IndInv, AuthRespected
<1>3. up' = <<UUID>>
    BY <1>1, TwoFields DEF IndInv, ServerView
<1>4. /\ cpc \in {"result", "failed"}
      /\ cpc = "result" => down = <<>>
    BY <1>1 DEF IndInv, ClientView, TypeOK, ClientReads, Final
<1> QED
    BY <1>1, <1>2, <1>3, <1>4, SameConfig
    DEF AuthRespected, ServerView, ClientView, Accepted

\* The server accepts, with the whole identifier or with a padded one.
LEMMA ReadUUIDViews ==
    ASSUME IndInv, ReadUUID \/ ReadUUIDShort
    PROVE  AuthRespected' /\ ServerView' /\ ClientView'
<1>1. /\ spc = "uuid"
      /\ UNCHANGED <<cfg, cpc>>
      /\ spc' = Final /\ down' = Append(down, Field("result", "success"))
    BY DEF ReadUUID, ReadUUIDShort, Accept, Final, envVars, clientVars
<1>2. Authorised
    BY <1>1 DEF IndInv, AuthRespected
<1>3. up = <<UUID>> /\ Tail(up) = <<>>
    BY <1>1, OneField DEF IndInv, ServerView
<1>4. \/ up' = <<>> /\ sid' = "full"
      \/ up' = <<Field("uuid", "rest")>> /\ sid' = "padded" /\ short' = TRUE
    BY <1>3, OneField DEF ReadUUID, ReadUUIDShort
<1>5. /\ cpc \in {"result", "failed"}
      /\ cpc = "result" => down = <<>>
    BY <1>1 DEF IndInv, ClientView, TypeOK, ClientReads, Final
<1>6. cpc = "result" => down' = <<Field("result", "success")>>
    BY <1>1, <1>5, OneField
<1>7. Final \in Accepted
    BY DEF Final, Accepted
<1>8. AuthRespected'
    BY <1>1, <1>2, <1>7, SameConfig DEF AuthRespected
<1>9. ServerView'
    BY <1>1, <1>4, <1>7, SameConfig DEF ServerView, Accepted
<1>10. ClientView'
    BY <1>1, <1>5, <1>6, SameConfig DEF ClientView
<1> QED
    BY <1>8, <1>9, <1>10

\* A read that fails ends the server with its answers on their way.
LEMMA ServerErrorViews ==
    ASSUME IndInv, ServerReadError
    PROVE  AuthRespected' /\ ServerView' /\ ClientView'
<1>1. /\ spc \in ServerReads /\ spc' = "failed"
      /\ UNCHANGED <<cfg, cpc, up, down>>
    BY DEF ServerReadError, ServerFails, envVars, clientVars
<1>2. cpc # "ok" /\ (cpc = "result" => down = <<>>)
    BY <1>1 DEF IndInv, ClientView, ServerReads, Final
<1> QED
    BY <1>1, <1>2 DEF IndInv, AuthRespected, ServerView, ClientView, ServerReads, Accepted

-----------------------------------------------------------------------------
(* Theorems *)

LEMMA InitIndInv == Init => IndInv
<1> SUFFICES ASSUME Init PROVE IndInv
    OBVIOUS
<1>1. up \in Seq(Fields) /\ down \in Seq(Fields)
    BY DEF Init
<1> QED
    BY <1>1 DEF Init, IndInv, TypeOK, AuthRespected, ServerView, ClientView, ServerReads,
                Accepted

LEMMA StepPreserves ==
    ASSUME IndInv, [Next]_vars
    PROVE  IndInv'
<1>1. TypeOK'
    BY StepTypes DEF IndInv
<1>2. CASE Begin \/ ClientStep
    <2>1. AuthRespected'
        BY <1>2, SameConfig
        DEF IndInv, AuthRespected, Begin, ClientStep, RecvMethod, RecvAuth, RecvMuxReady,
            RecvMuxConfig, RecvRegister, RecvBind, ClientReadError, CallerCloses, envVars,
            serverVars
    <2>2. ServerView' /\ ClientView'
        <3>1. CASE ClientReadError
            BY <3>1, FailViews DEF ClientReadError, envVars, serverVars
        <3>2. CASE CallerCloses
            BY <3>2, SameConfig
            DEF CallerCloses, envVars, serverVars, IndInv, ServerView, ClientView, Accepted
        <3> QED
            BY <1>2, <3>1, <3>2, BeginViews, RecvMethodViews, RecvAuthViews, RecvMuxViews,
               RecvResultViews DEF ClientStep
    <2> QED
        BY <1>1, <2>1, <2>2 DEF IndInv
<1>3. CASE ServerStep
    BY <1>1, <1>3, ReadMethodsViews, ReadTokenViews, ReadCommandViews, ReadControlViews,
       ReadUUIDViews, ServerErrorViews DEF ServerStep, IndInv
<1>4. CASE Closer \/ WatcherCloses \/ Environment \/ UNCHANGED vars
    <2>1. UNCHANGED <<cfg, cpc, spc, up, down, sid, short>>
        BY <1>4 DEF Closer, WatcherCloses, Environment, CancelClient, StopServer, Break,
                    Stall, vars, envVars, clientVars, serverVars
    <2>2. AuthRespected' /\ ServerView' /\ ClientView'
        BY <2>1, SameConfig DEF IndInv, AuthRespected, ServerView, ClientView, Accepted
    <2> QED
        BY <1>1, <2>2 DEF IndInv
<1> QED
    BY <1>2, <1>3, <1>4 DEF Next

LEMMA Invariance == Spec => []IndInv
<1>1. Init => IndInv
    BY InitIndInv
<1>2. IndInv /\ [Next]_vars => IndInv'
    BY StepPreserves
<1> QED
    BY <1>1, <1>2, PTL DEF Spec

\* Both ends stay within their states, and the queues hold fields of the
\* protocol only (client.go:60-290, server.go:217-400).
THEOREM TypeCorrect == Spec => []TypeOK
<1>1. IndInv => TypeOK
    BY DEF IndInv
<1> QED
    BY <1>1, Invariance, PTL

\* Nobody gets past authentication whom the server's options do not let in
\* (server.go:253-321, 404-415).
THEOREM AuthTheorem == Spec => []AuthRespected
<1>1. IndInv => AuthRespected
    BY DEF IndInv
<1> QED
    BY <1>1, Invariance, PTL

\* A client that returned success left a server that accepted the same
\* operation, and nothing unread but the rest of a short Read
\* (client.go:238-290, server.go:340-400).
THEOREM AgreementTheorem == Spec => []Agreement
<1>1. IndInv => Agreement
    <2> SUFFICES ASSUME IndInv, cpc = "ok" PROVE Agreement
        BY DEF Agreement
    <2>1. spc = Final /\ down = <<>> /\ Final \in Accepted
        BY DEF IndInv, ClientView, Final, Accepted
    <2>2. \/ up = <<>> /\ sid = "full"
          \/ up = <<Field("uuid", "rest")>> /\ sid = "padded" /\ short
        BY <2>1 DEF IndInv, ServerView
    <2> QED
        BY <2>1, <2>2, OneField DEF Agreement, Final
<1> QED
    BY <1>1, Invariance, PTL
=============================================================================

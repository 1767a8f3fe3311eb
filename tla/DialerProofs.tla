---------------------------- MODULE DialerProofs ----------------------------
(***************************************************************************)
(* Proofs about Dialer, for any number of dials, connections and streams.  *)
(*                                                                         *)
(* Most steps are quiet: they neither touch a request nor let a handler    *)
(* take one.  The others are the ones named below; the TCP and the stream  *)
(* handlers share their effect on requests, so each effect is treated      *)
(* once.                                                                   *)
(***************************************************************************)
EXTENDS Dialer, TLAPS

USE ConnsAssumption, DialsAssumption DEF Conns

\* No request moves and no handler comes to hold one.
Quiet ==
    /\ UNCHANGED <<bid, dialVars>>
    /\ \A c \in Conns : hpc'[c] = "matched" => hpc[c] = "matched"
    /\ \A c \in Conns :
          hpc'[c] \in {"none", "handshake"} => hpc[c] \in {"none", "handshake"}

\* A connection presents its UUID.
Binds(c, d) ==
    /\ hpc[c] = "handshake"
    /\ d \in asked
    /\ bid' = [bid EXCEPT ![c] = d]
    /\ hpc' = [hpc EXCEPT ![c] = "bound"]
    /\ UNCHANGED dialVars

\* A handler takes the request out of the map.
Takes(c) ==
    /\ hpc[c] = "bound"
    /\ bid[c] \in requests
    /\ requests' = requests \ {bid[c]}
    /\ hpc' = [hpc EXCEPT ![c] = "matched"]
    /\ UNCHANGED <<bid, ch, dpc, cancelled, asked, outcome, given>>

\* A handler sends its connection through the request's channel.
Sends(c) ==
    /\ hpc[c] = "matched"
    /\ ch[bid[c]] = NoConn
    /\ ch' = [ch EXCEPT ![bid[c]] = c]
    /\ \E next \in {"settled", "returned"} : hpc' = [hpc EXCEPT ![c] = next]
    /\ UNCHANGED <<bid, requests, dpc, cancelled, asked, outcome, given>>

-----------------------------------------------------------------------------
(* Type correctness *)

LEMMA InitType == Init => TypeOK
<1> SUFFICES ASSUME Init PROVE TypeOK
    OBVIOUS
<1>1. /\ phase \in Phases
      /\ ctxDone \in BOOLEAN /\ listening \in BOOLEAN /\ serving \in BOOLEAN
    BY DEF Init, Phases
<1>2. /\ hpc \in [Conns -> HandlerPCs]
      /\ wpc \in [TcpConns -> WatcherPCs]
      /\ done \subseteq TcpConns /\ control \subseteq TcpConns
      /\ bid \in [Conns -> Dials \cup {NoDial}]
      /\ closed \subseteq Conns
      /\ \A c \in Conns : hpc[c] = "none"
    BY DEF Init, HandlerPCs, WatcherPCs
<1>3. /\ requests \subseteq Dials
      /\ ch \in [Dials -> Conns \cup {NoConn}]
      /\ dpc \in [Dials -> DialPCs]
      /\ cancelled \subseteq Dials
      /\ asked \subseteq Dials
      /\ outcome \in [Dials -> Outcomes]
      /\ given \in [Dials -> Conns \cup {NoConn}]
    BY DEF Init, DialPCs, Outcomes
<1> QED
    BY <1>1, <1>2, <1>3 DEF TypeOK

LEMMA WakeType ==
    ASSUME TypeOK, NEW S
    PROVE  Wake(S) \in [TcpConns -> WatcherPCs]
    BY DEF Wake, TypeOK, WatcherPCs

LEMMA LifeType == ASSUME TypeOK, LifeStep PROVE TypeOK'
<1> USE DEF TypeOK, Phases, connVars, dialVars
<1>1. CASE Start
    BY <1>1 DEF Start
<1>2. CASE CancelStart
    BY <1>2, WakeType DEF CancelStart
<1>3. CASE StopCancel
    BY <1>3, WakeType DEF StopCancel
<1>4. CASE CloseListener
    BY <1>4 DEF CloseListener
<1>5. CASE AcceptError
    BY <1>5, WakeType DEF AcceptError
<1>6. CASE StopReturn
    BY <1>6 DEF StopReturn
<1> QED
    BY <1>1, <1>2, <1>3, <1>4, <1>5, <1>6 DEF LifeStep

LEMMA TcpType ==
    ASSUME TypeOK, NEW c \in TcpConns, TcpStep(c)
    PROVE  TypeOK'
<1> USE DEF TypeOK, HandlerPCs, WatcherPCs, lifeVars, dialVars
<1>1. CASE Accept(c)
    BY <1>1 DEF Accept
<1>2. CASE ProcessError(c)
    BY <1>2, WakeType DEF ProcessError, Return
<1>3. CASE ProcessRegister(c)
    BY <1>3 DEF ProcessRegister
<1>4. ASSUME NEW d \in Dials, ProcessBind(c, d) PROVE TypeOK'
    BY <1>4 DEF ProcessBind
<1>5. CASE TakeRequest(c)
    BY <1>5, WakeType DEF TakeRequest, Return
<1>6. CASE Deliver(c)
    BY <1>6 DEF Deliver
<1>7. CASE GiveUp(c)
    BY <1>7, WakeType DEF GiveUp, Return
<1>8. CASE CloseDone(c)
    BY <1>8 DEF CloseDone
<1>9. CASE Finish(c)
    BY <1>9, WakeType DEF Finish, Return
<1>10. CASE WatcherStep(c)
    BY <1>10 DEF WatcherStep, WatcherPark, WatcherDone, WatcherCtx, WatcherClose
<1> QED
    BY <1>1, <1>2, <1>3, <1>4, <1>5, <1>6, <1>7, <1>8, <1>9, <1>10
    DEF TcpStep, HandlerStep

LEMMA StreamType ==
    ASSUME TypeOK, NEW s \in Streams, StreamAnyStep(s)
    PROVE  TypeOK'
<1> USE DEF TypeOK, HandlerPCs, lifeVars, dialVars
<1>1. CASE AcceptStream(s)
    BY <1>1 DEF AcceptStream
<1>2. CASE StreamError(s)
    BY <1>2 DEF StreamError, StreamReturn
<1>3. ASSUME NEW d \in Dials, StreamBind(s, d) PROVE TypeOK'
    BY <1>3 DEF StreamBind
<1>4. CASE StreamTakeRequest(s)
    BY <1>4 DEF StreamTakeRequest, StreamReturn
<1>5. CASE StreamDeliver(s)
    BY <1>5 DEF StreamDeliver
<1>6. CASE StreamGiveUp(s)
    BY <1>6 DEF StreamGiveUp, StreamReturn
<1> QED
    BY <1>1, <1>2, <1>3, <1>4, <1>5, <1>6 DEF StreamAnyStep, StreamStep

LEMMA DialType ==
    ASSUME TypeOK, NEW d \in Dials, DialAnyStep(d)
    PROVE  TypeOK'
<1> USE DEF TypeOK, DialPCs, Outcomes, lifeVars, connVars
<1>1. CASE DialUnavailable(d) \/ AddRequest(d)
    BY <1>1 DEF DialUnavailable, AddRequest
<1>2. CASE SendCommand(d) \/ SendAck(d) \/ SendError(d)
    BY <1>2 DEF SendCommand, SendAck, SendError
<1>3. CASE SelectCtx(d)
    BY <1>3 DEF SelectCtx
<1>4. CASE SelectConn(d)
    BY <1>4 DEF SelectConn
<1>5. CASE Leave(d) \/ CancelDial(d)
    BY <1>5 DEF Leave, CancelDial
<1> QED
    BY <1>1, <1>2, <1>3, <1>4, <1>5 DEF DialAnyStep, DialStep

LEMMA StepType == TypeOK /\ [Next]_vars => TypeOK'
<1>1. TypeOK /\ UNCHANGED vars => TypeOK'
    BY DEF TypeOK, vars, lifeVars, connVars, dialVars
<1> QED
    BY <1>1, LifeType, TcpType, StreamType, DialType DEF Next

\* Every variable of the dialer keeps its type, and a handler past its
\* handshake knows which dial it answers.
THEOREM TypeCorrect == Spec => []TypeOK
<1> QED
    BY InitType, StepType, PTL DEF Spec

-----------------------------------------------------------------------------
(* The inductive invariant *)

LEMMA InitIndInv == Init => IndInv
<1> SUFFICES ASSUME Init PROVE IndInv
    OBVIOUS
<1>1. TypeOK
    BY InitType
<1>2. /\ \A c \in Conns : hpc[c] = "none" /\ bid[c] = NoDial
      /\ \A d \in Dials : ch[d] = NoConn /\ given[d] = NoConn
      /\ \A d \in Dials : dpc[d] = "idle" /\ outcome[d] = "pending"
      /\ requests = {} /\ asked = {}
    BY DEF Init
<1> QED
    BY <1>1, <1>2 DEF IndInv, OneOwner, Holders, OwnConnection, DeliveredTo,
        UnboundDuringHandshake, BidsWereAsked, AskedWereAdded,
        RequestsHaveCallers, WaitingIsPending

LEMMA QuietPreserves == ASSUME IndInv, TypeOK', Quiet PROVE IndInv'
<1> USE DEF IndInv, Quiet, dialVars
<1>1. \A d \in Dials : Holders(d)' \subseteq Holders(d)
    BY DEF Holders
<1>2. OneOwner'
    BY <1>1 DEF OneOwner
<1>3. OwnConnection' /\ UnboundDuringHandshake'
    BY DEF OwnConnection, DeliveredTo, UnboundDuringHandshake
<1>4. BidsWereAsked' /\ AskedWereAdded' /\ RequestsHaveCallers' /\ WaitingIsPending'
    BY DEF BidsWereAsked, AskedWereAdded, RequestsHaveCallers, WaitingIsPending
<1> QED
    BY <1>2, <1>3, <1>4

LEMMA BindsPreserves ==
    ASSUME IndInv, TypeOK', NEW c \in Conns, NEW d \in Dials, Binds(c, d)
    PROVE  IndInv'
<1> USE DEF IndInv, TypeOK, Binds, dialVars
<1>0. bid[c] = NoDial
    BY DEF UnboundDuringHandshake
<1>1. \A e \in Dials : Holders(e)' = Holders(e)
    BY DEF Holders
<1>2. OneOwner'
    BY <1>1 DEF OneOwner
<1>3. OwnConnection'
    BY <1>0 DEF OwnConnection, DeliveredTo
<1>4. UnboundDuringHandshake'
    BY DEF UnboundDuringHandshake
<1>5. BidsWereAsked'
    BY DEF BidsWereAsked
<1>6. AskedWereAdded' /\ RequestsHaveCallers' /\ WaitingIsPending'
    BY DEF AskedWereAdded, RequestsHaveCallers, WaitingIsPending
<1> QED
    BY <1>2, <1>3, <1>4, <1>5, <1>6

LEMMA TakesPreserves ==
    ASSUME IndInv, TypeOK', NEW c \in Conns, Takes(c)
    PROVE  IndInv'
<1> USE DEF IndInv, TypeOK, Takes
<1>1. Holders(bid[c]) = {} /\ Holders(bid[c])' = {c}
    BY DEF OneOwner, Holders
<1>2. \A e \in Dials \ {bid[c]} : Holders(e)' = Holders(e)
    BY DEF Holders
<1>3. OneOwner'
    BY <1>1, <1>2 DEF OneOwner
<1>4. OwnConnection' /\ UnboundDuringHandshake'
    BY DEF OwnConnection, DeliveredTo, UnboundDuringHandshake
<1>5. BidsWereAsked' /\ AskedWereAdded' /\ RequestsHaveCallers' /\ WaitingIsPending'
    BY DEF BidsWereAsked, AskedWereAdded, RequestsHaveCallers, WaitingIsPending
<1> QED
    BY <1>3, <1>4, <1>5

LEMMA SendsPreserves ==
    ASSUME IndInv, TypeOK', NEW c \in Conns, Sends(c)
    PROVE  IndInv'
<1> USE DEF IndInv, TypeOK, Sends
<1>0. c \in Holders(bid[c]) /\ bid[c] \in Dials
    BY DEF Holders
<1>1. Holders(bid[c])' = {}
    BY <1>0 DEF OneOwner, Holders
<1>2. \A e \in Dials \ {bid[c]} : Holders(e)' = Holders(e)
    BY DEF Holders
<1>3. OneOwner'
    BY <1>0, <1>1, <1>2 DEF OneOwner
<1>4. OwnConnection' /\ UnboundDuringHandshake'
    BY <1>0 DEF OwnConnection, DeliveredTo, UnboundDuringHandshake
<1>5. BidsWereAsked' /\ AskedWereAdded' /\ RequestsHaveCallers' /\ WaitingIsPending'
    BY DEF BidsWereAsked, AskedWereAdded, RequestsHaveCallers, WaitingIsPending
<1> QED
    BY <1>3, <1>4, <1>5

\* A dial that has not been asked for has left no trace outside its own call.
LEMMA NotAskedNoTrace ==
    ASSUME IndInv, NEW d \in Dials, d \notin asked
    PROVE  Holders(d) = {} /\ ch[d] = NoConn /\ given[d] = NoConn
    BY DEF IndInv, TypeOK, Holders, BidsWereAsked, OwnConnection, DeliveredTo

LEMMA DialPreserves ==
    ASSUME IndInv, TypeOK', NEW d \in Dials, DialAnyStep(d)
    PROVE  IndInv'
<1> USE DEF IndInv, TypeOK, lifeVars, connVars
<1>0. \A e \in Dials : UNCHANGED <<hpc, bid>> => Holders(e)' = Holders(e)
    BY DEF Holders
<1>1. CASE DialUnavailable(d)
    <2> USE <1>1 DEF DialUnavailable
    <2>1. OneOwner' /\ OwnConnection' /\ UnboundDuringHandshake' /\ BidsWereAsked'
        BY <1>0 DEF OneOwner, OwnConnection, DeliveredTo, UnboundDuringHandshake,
                    BidsWereAsked
    <2>2. AskedWereAdded' /\ RequestsHaveCallers' /\ WaitingIsPending'
        BY DEF AskedWereAdded, RequestsHaveCallers, WaitingIsPending
    <2> QED
        BY <2>1, <2>2
<1>2. CASE AddRequest(d)
    <2> USE <1>2 DEF AddRequest
    <2>0. Holders(d) = {} /\ ch[d] = NoConn /\ given[d] = NoConn
        BY NotAskedNoTrace DEF AskedWereAdded
    <2>1. OneOwner'
        BY <1>0, <2>0 DEF OneOwner
    <2>2. OwnConnection' /\ UnboundDuringHandshake' /\ BidsWereAsked'
        BY DEF OwnConnection, DeliveredTo, UnboundDuringHandshake, BidsWereAsked
    <2>3. AskedWereAdded' /\ RequestsHaveCallers' /\ WaitingIsPending'
        BY DEF AskedWereAdded, RequestsHaveCallers, WaitingIsPending
    <2> QED
        BY <2>1, <2>2, <2>3
<1>3. CASE SendCommand(d) \/ SendAck(d) \/ SendError(d) \/ SelectCtx(d)
    <2> USE <1>3 DEF SendCommand, SendAck, SendError, SelectCtx
    <2>1. OneOwner' /\ OwnConnection' /\ UnboundDuringHandshake' /\ BidsWereAsked'
        BY <1>0 DEF OneOwner, OwnConnection, DeliveredTo, UnboundDuringHandshake,
                    BidsWereAsked
    <2>2. AskedWereAdded' /\ RequestsHaveCallers' /\ WaitingIsPending'
        BY DEF AskedWereAdded, RequestsHaveCallers, WaitingIsPending
    <2> QED
        BY <2>1, <2>2
<1>4. CASE SelectConn(d)
    <2> USE <1>4 DEF SelectConn
    <2>1. OneOwner'
        BY <1>0 DEF OneOwner
    <2>2. OwnConnection'
        BY DEF OwnConnection, DeliveredTo
    <2>3. UnboundDuringHandshake' /\ BidsWereAsked'
        BY DEF UnboundDuringHandshake, BidsWereAsked
    <2>4. AskedWereAdded' /\ RequestsHaveCallers' /\ WaitingIsPending'
        BY DEF AskedWereAdded, RequestsHaveCallers, WaitingIsPending
    <2> QED
        BY <2>1, <2>2, <2>3, <2>4
<1>5. CASE Leave(d) \/ CancelDial(d)
    <2> USE <1>5 DEF Leave, CancelDial
    <2>1. OneOwner' /\ OwnConnection' /\ UnboundDuringHandshake' /\ BidsWereAsked'
        BY <1>0 DEF OneOwner, OwnConnection, DeliveredTo, UnboundDuringHandshake,
                    BidsWereAsked
    <2>2. AskedWereAdded' /\ RequestsHaveCallers' /\ WaitingIsPending'
        BY DEF AskedWereAdded, RequestsHaveCallers, WaitingIsPending
    <2> QED
        BY <2>1, <2>2
<1> QED
    BY <1>1, <1>2, <1>3, <1>4, <1>5 DEF DialAnyStep, DialStep

\* Every step of a TCP handler, a watcher, a stream handler, Start or Stop is
\* quiet or has one of the three effects.
LEMMA ConnStepKinds ==
    ASSUME TypeOK,
           \/ LifeStep
           \/ \E c \in TcpConns : TcpStep(c)
           \/ \E s \in Streams : StreamAnyStep(s)
    PROVE  \/ Quiet
           \/ \E c \in Conns : Takes(c) \/ Sends(c) \/ \E d \in Dials : Binds(c, d)
<1> USE DEF TypeOK
<1>1. CASE LifeStep
    BY <1>1 DEF LifeStep, Start, CancelStart, StopCancel, CloseListener,
                AcceptError, StopReturn, Quiet, connVars
<1>2. ASSUME NEW c \in TcpConns, TcpStep(c)
      PROVE  Quiet \/ Takes(c) \/ Sends(c) \/ \E d \in Dials : Binds(c, d)
    <2>1. CASE Accept(c) \/ ProcessError(c) \/ ProcessRegister(c) \/ GiveUp(c)
        BY <1>2, <2>1 DEF Accept, ProcessError, ProcessRegister, GiveUp, Return, Quiet
    <2>2. ASSUME NEW d \in Dials, ProcessBind(c, d) PROVE Binds(c, d)
        BY <2>2 DEF ProcessBind, Binds
    <2>3. CASE TakeRequest(c)
        BY <2>3 DEF TakeRequest, Takes, Quiet, Return, dialVars
    <2>4. CASE Deliver(c)
        BY <2>4 DEF Deliver, Sends
    <2>5. CASE CloseDone(c) \/ Finish(c)
        BY <1>2, <2>5 DEF CloseDone, Finish, Return, Quiet
    <2>6. CASE WatcherStep(c)
        BY <2>6 DEF WatcherStep, WatcherPark, WatcherDone, WatcherCtx,
                    WatcherClose, Quiet
    <2> QED
        BY <1>2, <2>1, <2>2, <2>3, <2>4, <2>5, <2>6 DEF TcpStep, HandlerStep
<1>3. ASSUME NEW s \in Streams, StreamAnyStep(s)
      PROVE  Quiet \/ Takes(s) \/ Sends(s) \/ \E d \in Dials : Binds(s, d)
    <2>1. CASE AcceptStream(s) \/ StreamError(s) \/ StreamGiveUp(s)
        BY <2>1 DEF AcceptStream, StreamError, StreamGiveUp, StreamReturn, Quiet
    <2>2. ASSUME NEW d \in Dials, StreamBind(s, d) PROVE Binds(s, d)
        BY <2>2 DEF StreamBind, Binds
    <2>3. CASE StreamTakeRequest(s)
        BY <2>3 DEF StreamTakeRequest, Takes, Quiet, StreamReturn, dialVars
    <2>4. CASE StreamDeliver(s)
        BY <2>4 DEF StreamDeliver, Sends
    <2> QED
        BY <1>3, <2>1, <2>2, <2>3, <2>4 DEF StreamAnyStep, StreamStep
<1> QED
    BY <1>1, <1>2, <1>3

LEMMA StepPreserves == IndInv /\ [Next]_vars => IndInv'
<1> SUFFICES ASSUME IndInv, [Next]_vars PROVE IndInv'
    OBVIOUS
<1>1. TypeOK /\ TypeOK'
    BY StepType DEF IndInv
<1>2. CASE UNCHANGED vars
    <2>1. Quiet
        BY <1>2 DEF Quiet, vars, connVars
    <2> QED
        BY <1>1, <2>1, QuietPreserves
<1>3. CASE \E d \in Dials : DialAnyStep(d)
    BY <1>1, <1>3, DialPreserves
<1>4. CASE \/ LifeStep
           \/ \E c \in TcpConns : TcpStep(c)
           \/ \E s \in Streams : StreamAnyStep(s)
    BY <1>1, <1>4, ConnStepKinds, QuietPreserves, TakesPreserves,
       SendsPreserves, BindsPreserves
<1> QED
    BY <1>2, <1>3, <1>4 DEF Next

THEOREM Invariance == Spec => []IndInv
<1> QED
    BY InitIndInv, StepPreserves, PTL DEF Spec

\* However dials, duplicate binds, cancellations and Stop interleave, a
\* request is in one place at a time: at most one connection is ever
\* delivered for it, and delivering it never blocks (dialer.go:242-254,
\* 389-409).
THEOREM SingleOwner == Spec => []OneOwner
<1>1. IndInv => OneOwner
    BY DEF IndInv
<1> QED
    BY <1>1, Invariance, PTL

\* No dial receives a connection that answered another one.
THEOREM NoCrossedConnections == Spec => []OwnConnection
<1>1. IndInv => OwnConnection
    BY DEF IndInv
<1> QED
    BY <1>1, Invariance, PTL

-----------------------------------------------------------------------------
(* Streams: closed or delivered *)

\* The state of one stream that both parts of StreamInv constrain.
StreamFine(s) ==
    IF hpc[s] = "returned" THEN s \in closed <=> ~Delivered(s)
                           ELSE s \notin closed /\ ~Delivered(s)

\* A step that leaves a stream's handler, its closed flag and its delivery
\* alone leaves it fine.
LEMMA StreamFrame ==
    ASSUME NEW s \in Streams, StreamFine(s),
           hpc'[s] = hpc[s],
           s \in closed' <=> s \in closed,
           Delivered(s)' <=> Delivered(s)
    PROVE  StreamFine(s)'
    BY DEF StreamFine

LEMMA DeliveryUntouched ==
    ASSUME UNCHANGED <<ch, given>>, NEW s
    PROVE  Delivered(s)' <=> Delivered(s)
    BY DEF Delivered, DeliveredTo

LEMMA TcpKeepsStreams ==
    ASSUME IndInv, NEW c \in TcpConns, TcpStep(c), NEW s \in Streams, StreamFine(s)
    PROVE  StreamFine(s)'
<1> USE DEF IndInv, TypeOK
<1>0. s # c /\ s # NoConn
    OBVIOUS
<1>1. hpc'[s] = hpc[s]
    BY <1>0 DEF TcpStep, HandlerStep, WatcherStep, Accept, ProcessError, Return,
        ProcessRegister, ProcessBind, TakeRequest, Deliver, GiveUp, CloseDone,
        Finish, WatcherPark, WatcherDone, WatcherCtx, WatcherClose
<1>2. s \in closed' <=> s \in closed
    BY <1>0 DEF TcpStep, HandlerStep, WatcherStep, Accept, ProcessError, Return,
        ProcessRegister, ProcessBind, TakeRequest, Deliver, GiveUp, CloseDone,
        Finish, WatcherPark, WatcherDone, WatcherCtx, WatcherClose
<1>3. Delivered(s)' <=> Delivered(s)
    <2>1. CASE Deliver(c)
        <3>1. bid[c] \in Dials /\ UNCHANGED given
            BY <2>1 DEF Deliver
        <3>2. \A d \in Dials : s = ch'[d] <=> s = ch[d]
            BY <1>0, <2>1, <3>1 DEF Deliver
        <3> QED
            BY <3>1, <3>2 DEF Delivered, DeliveredTo
    <2>2. CASE ~Deliver(c)
        <3>1. UNCHANGED <<ch, given>>
            BY <2>2 DEF TcpStep, HandlerStep, WatcherStep, Accept, ProcessError,
                ProcessRegister, ProcessBind, TakeRequest, GiveUp, CloseDone,
                Finish, WatcherPark, WatcherDone, WatcherCtx, WatcherClose, dialVars
        <3> QED
            BY <3>1, DeliveryUntouched
    <2> QED
        BY <2>1, <2>2
<1> QED
    BY <1>1, <1>2, <1>3, StreamFrame

LEMMA DialKeepsStreams ==
    ASSUME IndInv, NEW d \in Dials, DialAnyStep(d), NEW s \in Streams, StreamFine(s)
    PROVE  StreamFine(s)'
<1> USE DEF IndInv, TypeOK
<1>1. hpc' = hpc /\ closed' = closed
    BY DEF DialAnyStep, DialStep, DialUnavailable, AddRequest, SendCommand, SendAck,
        SendError, SelectCtx, SelectConn, Leave, CancelDial, connVars
<1>2. Delivered(s)' <=> Delivered(s)
    <2>1. CASE SelectConn(d)
        <3>1. given[d] = NoConn /\ s # NoConn
            BY <2>1 DEF SelectConn, WaitingIsPending
        <3>2. \A e \in Dials : DeliveredTo(s, e)' <=> DeliveredTo(s, e)
            BY <2>1, <3>1 DEF SelectConn, DeliveredTo
        <3> QED
            BY <3>2 DEF Delivered
    <2>2. CASE ~SelectConn(d)
        <3>1. UNCHANGED <<ch, given>>
            BY <2>2 DEF DialAnyStep, DialStep, DialUnavailable, AddRequest,
                SendCommand, SendAck, SendError, SelectCtx, Leave, CancelDial
        <3> QED
            BY <3>1, DeliveryUntouched
    <2> QED
        BY <2>1, <2>2
<1> QED
    BY <1>1, <1>2, StreamFrame

LEMMA StreamKeepsStreams ==
    ASSUME IndInv, NEW t \in Streams, StreamAnyStep(t), NEW s \in Streams, StreamFine(s)
    PROVE  StreamFine(s)'
<1> USE DEF IndInv, TypeOK
<1>1. CASE AcceptStream(t) \/ \E d \in Dials : StreamBind(t, d)
    <2>1. Delivered(s)' <=> Delivered(s)
        BY <1>1, DeliveryUntouched DEF AcceptStream, StreamBind, dialVars
    <2> QED
        BY <1>1, <2>1 DEF AcceptStream, StreamBind, StreamFine
<1>2. CASE StreamError(t) \/ StreamGiveUp(t)
    <2>1. Delivered(s)' <=> Delivered(s)
        BY <1>2, DeliveryUntouched DEF StreamError, StreamGiveUp, dialVars
    <2> QED
        BY <1>2, <2>1 DEF StreamError, StreamGiveUp, StreamReturn, StreamFine
<1>3. CASE StreamTakeRequest(t)
    <2>1. Delivered(s)' <=> Delivered(s)
        BY <1>3, DeliveryUntouched DEF StreamTakeRequest
    <2> QED
        BY <1>3, <2>1 DEF StreamTakeRequest, StreamReturn, StreamFine
<1>4. CASE StreamDeliver(t)
    <2>1. bid[t] \in Dials /\ s # NoConn /\ UNCHANGED <<given, closed>>
        BY <1>4 DEF StreamDeliver
    <2>2. CASE s = t
        <3>1. Delivered(s)'
            BY <1>4, <2>1, <2>2 DEF StreamDeliver, Delivered, DeliveredTo
        <3>2. hpc[s] # "returned" /\ hpc'[s] = "returned"
            BY <1>4, <2>2 DEF StreamDeliver
        <3> QED
            BY <2>1, <3>1, <3>2 DEF StreamFine
    <2>3. CASE s # t
        <3>1. \A d \in Dials : s = ch'[d] <=> s = ch[d]
            BY <1>4, <2>1, <2>3 DEF StreamDeliver
        <3>2. Delivered(s)' <=> Delivered(s)
            BY <2>1, <3>1 DEF Delivered, DeliveredTo
        <3> QED
            BY <1>4, <2>1, <2>3, <3>2, StreamFrame DEF StreamDeliver
    <2> QED
        BY <2>2, <2>3
<1> QED
    BY <1>1, <1>2, <1>3, <1>4 DEF StreamAnyStep, StreamStep

\* No stream leaks and none is closed behind the back of the dial that got
\* it: handleV2Stream ends with the stream either closed or delivered.
THEOREM StreamsClosedOrDelivered == Spec => []StreamClosedOrDelivered
<1>1. Init => StreamInv
    <2> SUFFICES ASSUME Init, NEW s \in Streams PROVE StreamFine(s)
        BY DEF StreamInv, StreamClosedOrDelivered, RunningStreamsOpen, StreamFine
    <2> QED
        BY DEF Init, StreamFine, Delivered, DeliveredTo
<1>2. IndInv /\ StreamInv /\ [Next]_vars => StreamInv'
    <2> SUFFICES ASSUME IndInv, [Next]_vars, NEW s \in Streams, StreamFine(s)
                 PROVE  StreamFine(s)'
        BY DEF StreamInv, StreamClosedOrDelivered, RunningStreamsOpen, StreamFine
    <2>1. CASE LifeStep \/ UNCHANGED vars
        <3>1. UNCHANGED <<hpc, closed, ch, given>>
            BY <2>1 DEF LifeStep, Start, CancelStart, StopCancel, CloseListener,
                AcceptError, StopReturn, vars, connVars, dialVars
        <3> QED
            BY <3>1, StreamFrame, DeliveryUntouched
    <2> QED
        BY <2>1, TcpKeepsStreams, DialKeepsStreams, StreamKeepsStreams DEF Next
<1>3. StreamInv => StreamClosedOrDelivered
    BY DEF StreamInv
<1> QED
    BY <1>1, <1>2, <1>3, Invariance, PTL DEF Spec

-----------------------------------------------------------------------------
(* Refinement *)

\* The dialer implements Rendezvous: every dial ends at most once, and with a
\* connection only if that connection presented the dial's own UUID.
THEOREM Refinement == Spec => Implements
<1>1. Init => R!Init
    BY DEF Init, R!Init
<1>2. IndInv /\ [Next]_vars => [R!Next]_(R!vars)
    <2> SUFFICES ASSUME IndInv, [Next]_vars
                 PROVE  R!Next \/ UNCHANGED R!vars
        BY DEF R!vars
    <2> USE DEF IndInv, TypeOK
    <2>1. CASE UNCHANGED vars
        BY <2>1 DEF vars, connVars, dialVars, R!vars
    <2>2. CASE \/ LifeStep
               \/ \E c \in TcpConns : TcpStep(c)
               \/ \E s \in Streams : StreamAnyStep(s)
        <3>1. CASE Quiet
            BY <3>1 DEF Quiet, dialVars, R!vars
        <3>2. ASSUME NEW c \in Conns, Takes(c) \/ Sends(c)
              PROVE  UNCHANGED R!vars
            BY <3>2 DEF Takes, Sends, R!vars
        <3>3. ASSUME NEW c \in Conns, NEW d \in Dials, Binds(c, d)
              PROVE  R!Present(c, d)
            BY <3>3 DEF Binds, UnboundDuringHandshake, dialVars, R!Present
        <3> QED
            BY <2>2, <3>1, <3>2, <3>3, ConnStepKinds DEF R!Next
    <2>3. ASSUME NEW d \in Dials, DialAnyStep(d)
          PROVE  R!Next \/ UNCHANGED R!vars
        <3>1. CASE DialUnavailable(d) \/ SendError(d) \/ SelectCtx(d)
            <4>1. R!Fail(d)
                BY <3>1 DEF DialUnavailable, SendError, SelectCtx, connVars,
                    WaitingIsPending, R!Fail
            <4> QED
                BY <4>1 DEF R!Next
        <3>2. CASE SendCommand(d)
            <4>1. R!Ask(d)
                BY <3>2 DEF SendCommand, connVars, R!Ask
            <4> QED
                BY <4>1 DEF R!Next
        <3>3. CASE SelectConn(d)
            <4>1. ch[d] \in Conns /\ bid[ch[d]] = d
                BY <3>3 DEF SelectConn, OwnConnection, DeliveredTo
            <4>2. R!Succeed(d, ch[d])
                BY <3>3, <4>1 DEF SelectConn, connVars, WaitingIsPending, R!Succeed
            <4> QED
                BY <4>1, <4>2 DEF R!Next
        <3>4. CASE AddRequest(d) \/ SendAck(d) \/ Leave(d) \/ CancelDial(d)
            BY <3>4 DEF AddRequest, SendAck, Leave, CancelDial, connVars, R!vars
        <3> QED
            BY <2>3, <3>1, <3>2, <3>3, <3>4 DEF DialAnyStep, DialStep
    <2> QED
        BY <2>1, <2>2, <2>3 DEF Next
<1> QED
    BY <1>1, <1>2, Invariance, PTL DEF Spec, Implements, R!Spec

=============================================================================

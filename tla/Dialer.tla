------------------------------- MODULE Dialer -------------------------------
(***************************************************************************)
(* The rendezvous of dialer.go: DialContext publishes a request under a    *)
(* fresh UUID, asks a listener over a control connection to call back, and *)
(* waits; a connection that comes back and presents the UUID takes the     *)
(* request out of the map and is sent through the request's channel.       *)
(*                                                                         *)
(* Actors: the DialContext calls; one handler per accepted TCP connection  *)
(* (handleConnection) and the handshake watcher it spawns; one handler per *)
(* V2 stream (handleV2Stream); the accept loop and the goroutine that      *)
(* closes the listener; Stop, which holds d.mu while it waits for them.    *)
(*                                                                         *)
(* The control connections (GetConn, SendConnectCommand, RemoveConnection, *)
(* what handleV1/V2RegisteredConnection do) are module Control; here their *)
(* outcomes are nondeterministic.                                          *)
(***************************************************************************)
EXTENDS Naturals, FiniteSets

CONSTANTS
    Dials,      \* DialContext calls; each stands for the UUID it draws
    TcpConns,   \* connections the listener may accept
    Streams,    \* yamux streams V2 sessions may deliver
    NoDial, NoConn

Conns == TcpConns \cup Streams

ASSUME ConnsAssumption == TcpConns \cap Streams = {} /\ NoConn \notin Conns
ASSUME DialsAssumption == NoDial \notin Dials

VARIABLES
    phase,      \* of Start and Stop: "new", "running", "stopping", "stopped"
    ctxDone,    \* d.ctx is cancelled
    listening,  \* d.listener is open
    serving,    \* serve's accept loop runs
    hpc,        \* where each connection's handler is
    wpc,        \* where each TCP connection's watcher is (dialer.go:213-219)
    done,       \* TCP connections whose done channel is closed
    control,    \* TCP connections that registered
    bid,        \* the dial a connection presented in its bind command
    closed,     \* connections the dialer closed
    requests,   \* domain of d.requests
    ch,         \* the buffered channel of each request
    dpc,        \* where each DialContext call is
    cancelled,  \* dials whose own context is cancelled
    asked,      \* dials whose connect command reached the listener
    outcome,    \* what DialContext is going to return
    given       \* and with which connection

dialVars == <<requests, ch, dpc, cancelled, asked, outcome, given>>
connVars == <<hpc, wpc, done, control, bid, closed>>
lifeVars == <<phase, ctxDone, listening, serving>>
vars == <<lifeVars, connVars, dialVars>>

-----------------------------------------------------------------------------
(* State *)

Phases == {"new", "running", "stopping", "stopped"}

\* "settled": the select of a bind sent the connection, or the handshake of a
\* control connection ended; close(done) comes next.  "released": done is
\* closed and the deferred cancel has not run yet.
HandlerPCs == {"none", "handshake", "bound", "matched", "settled", "released",
               "returned"}

\* A watcher is "spawned" until its select runs; "parked" once the select
\* found neither channel ready and waits in both queues; "closing" when it
\* took the ctx case.
WatcherPCs == {"none", "spawned", "parked", "closing", "exited"}

DialPCs == {"idle", "added", "sending", "waiting", "leaving", "done"}

Outcomes == {"pending", "conn", "error"}

TypeOK ==
    /\ phase \in Phases
    /\ ctxDone \in BOOLEAN /\ listening \in BOOLEAN /\ serving \in BOOLEAN
    /\ hpc \in [Conns -> HandlerPCs]
    /\ wpc \in [TcpConns -> WatcherPCs]
    /\ done \subseteq TcpConns
    /\ control \subseteq TcpConns
    /\ bid \in [Conns -> Dials \cup {NoDial}]
    /\ \A c \in Conns : hpc[c] \in {"bound", "matched"} => bid[c] \in Dials
    /\ closed \subseteq Conns
    /\ requests \subseteq Dials
    /\ ch \in [Dials -> Conns \cup {NoConn}]
    /\ dpc \in [Dials -> DialPCs]
    /\ cancelled \subseteq Dials
    /\ asked \subseteq Dials
    /\ outcome \in [Dials -> Outcomes]
    /\ given \in [Dials -> Conns \cup {NoConn}]

Init ==
    /\ phase = "new"
    /\ ctxDone = FALSE
    /\ listening = FALSE
    /\ serving = FALSE
    /\ hpc = [c \in Conns |-> "none"]
    /\ wpc = [c \in TcpConns |-> "none"]
    /\ done = {}
    /\ control = {}
    /\ bid = [c \in Conns |-> NoDial]
    /\ closed = {}
    /\ requests = {}
    /\ ch = [d \in Dials |-> NoConn]
    /\ dpc = [d \in Dials |-> "idle"]
    /\ cancelled = {}
    /\ asked = {}
    /\ outcome = [d \in Dials |-> "pending"]
    /\ given = [d \in Dials |-> NoConn]

\* Stop keeps d.mu from its first statement to its return.
MuFree == phase # "stopping"

\* The context handleConnection derives (line 209): cancelled with d.ctx, by
\* serve when Accept fails, and by the handler's own return.
HandlerCtxDone(c) == ctxDone \/ ~serving \/ hpc[c] = "returned"

\* Control connections handed to the connection manager.
Managed == control \cap done

\* Cancelling a context wakes the watchers parked on it.
Wake(S) == [c \in TcpConns |->
                IF c \in S /\ wpc[c] = "parked" THEN "closing" ELSE wpc[c]]

-----------------------------------------------------------------------------
(* Mutants: one plausible slip per property, substituted by the checks. *)

ReturnWithoutCancel(c) ==
    /\ hpc' = [hpc EXCEPT ![c] = "returned"]
    /\ UNCHANGED wpc

DeliverUnbuffered(c) ==
    /\ hpc[c] = "matched"
    /\ dpc[bid[c]] = "waiting"
    /\ ch' = [ch EXCEPT ![bid[c]] = c]
    /\ hpc' = [hpc EXCEPT ![c] = "settled"]
    /\ UNCHANGED <<lifeVars, wpc, done, control, bid, closed, requests, dpc,
                   cancelled, asked, outcome, given>>

StreamErrorIgnored(s) ==
    /\ hpc[s] = "handshake"
    /\ hpc' = [hpc EXCEPT ![s] = "bound"]
    /\ UNCHANGED <<lifeVars, wpc, done, control, bid, closed, dialVars>>

StreamTakeRequestKeepingEntry(s) ==
    /\ hpc[s] = "bound"
    /\ MuFree
    /\ bid[s] \in requests
    /\ hpc' = [hpc EXCEPT ![s] = "matched"]
    /\ UNCHANGED <<lifeVars, wpc, done, control, bid, closed, dialVars>>

StreamDeliverToAny(s) ==
    /\ hpc[s] = "matched"
    /\ \E d \in Dials :
          /\ dpc[d] = "waiting"
          /\ ch[d] = NoConn
          /\ ch' = [ch EXCEPT ![d] = s]
    /\ hpc' = [hpc EXCEPT ![s] = "returned"]
    /\ UNCHANGED <<lifeVars, wpc, done, control, bid, closed, requests, dpc,
                   cancelled, asked, outcome, given>>

StreamGiveUpLeaking(s) ==
    /\ hpc[s] = "matched"
    /\ bid[s] \in cancelled \/ ctxDone
    /\ hpc' = [hpc EXCEPT ![s] = "returned"]
    /\ UNCHANGED <<lifeVars, wpc, done, control, bid, closed, dialVars>>

SendErrorWaiting(d) ==
    /\ dpc[d] \in {"added", "sending"}
    /\ dpc' = [dpc EXCEPT ![d] = "waiting"]
    /\ outcome' = [outcome EXCEPT ![d] = "error"]
    /\ UNCHANGED <<lifeVars, connVars, requests, ch, cancelled, asked, given>>

SelectDialerCtx(d) ==
    /\ dpc[d] = "waiting"
    /\ ctxDone
    /\ dpc' = [dpc EXCEPT ![d] = "leaving"]
    /\ outcome' = [outcome EXCEPT ![d] = "error"]
    /\ UNCHANGED <<lifeVars, connVars, requests, ch, cancelled, asked, given>>

-----------------------------------------------------------------------------
(* Start and Stop *)

Start ==
    /\ phase = "new"
    /\ phase' = "running"
    /\ \E ok \in BOOLEAN : listening' = ok /\ serving' = ok
    /\ UNCHANGED <<ctxDone, connVars, dialVars>>

\* The context handed to Start is cancelled by its owner.
CancelStart ==
    /\ phase = "running"
    /\ ~ctxDone
    /\ ctxDone' = TRUE
    /\ wpc' = Wake(TcpConns)
    /\ UNCHANGED <<phase, listening, serving, hpc, done, control, bid, closed,
                   dialVars>>

\* Stop up to d.cancel(); before Start it returns at once and changes nothing.
StopCancel ==
    /\ phase = "running"
    /\ phase' = "stopping"
    /\ ctxDone' = TRUE
    /\ wpc' = Wake(TcpConns)
    /\ UNCHANGED <<listening, serving, hpc, done, control, bid, closed, dialVars>>

\* The second goroutine of Start.
CloseListener ==
    /\ ctxDone
    /\ listening
    /\ listening' = FALSE
    /\ UNCHANGED <<phase, ctxDone, serving, connVars, dialVars>>

\* Accept fails, because the listener was closed or on any other error: serve
\* cancels its context and returns.
AcceptError ==
    /\ serving
    /\ serving' = FALSE
    /\ wpc' = Wake(TcpConns)
    /\ UNCHANGED <<phase, ctxDone, listening, hpc, done, control, bid, closed,
                   dialVars>>

\* wg.Wait returns; the goroutines of registered connections it also waits
\* for are in module Control.
StopReturn ==
    /\ phase = "stopping"
    /\ ~serving
    /\ ~listening
    /\ phase' = "stopped"
    /\ UNCHANGED <<ctxDone, listening, serving, connVars, dialVars>>

-----------------------------------------------------------------------------
(* handleConnection and its watcher *)

Accept(c) ==
    /\ serving
    /\ listening
    /\ hpc[c] = "none"
    /\ hpc' = [hpc EXCEPT ![c] = "handshake"]
    /\ wpc' = [wpc EXCEPT ![c] = "spawned"]
    /\ UNCHANGED <<lifeVars, done, control, bid, closed, dialVars>>

\* The handler returns: its deferred cancel wakes a parked watcher.
Return(c) ==
    /\ hpc' = [hpc EXCEPT ![c] = "returned"]
    /\ wpc' = Wake({c})

\* Process fails; on some of its paths it closes the connection itself.
ProcessError(c) ==
    /\ hpc[c] = "handshake"
    /\ Return(c)
    /\ \/ UNCHANGED closed
       \/ closed' = closed \cup {c}
    /\ UNCHANGED <<lifeVars, done, control, bid, dialVars>>

ProcessRegister(c) ==
    /\ hpc[c] = "handshake"
    /\ c \notin closed
    /\ hpc' = [hpc EXCEPT ![c] = "settled"]
    /\ control' = control \cup {c}
    /\ UNCHANGED <<lifeVars, wpc, done, bid, closed, dialVars>>

\* A listener binds with a UUID some dial sent it; it may do so while that
\* dial still waits for the acknowledgement, after it gave up, and twice.
ProcessBind(c, d) ==
    /\ hpc[c] = "handshake"
    /\ c \notin closed
    /\ d \in asked
    /\ bid' = [bid EXCEPT ![c] = d]
    /\ hpc' = [hpc EXCEPT ![c] = "bound"]
    /\ UNCHANGED <<lifeVars, wpc, done, control, closed, dialVars>>

TakeRequest(c) ==
    /\ hpc[c] = "bound"
    /\ MuFree
    /\ \/ /\ bid[c] \in requests
          /\ requests' = requests \ {bid[c]}
          /\ hpc' = [hpc EXCEPT ![c] = "matched"]
          /\ UNCHANGED wpc
       \/ /\ bid[c] \notin requests
          /\ Return(c)
          /\ UNCHANGED requests
    /\ UNCHANGED <<lifeVars, done, control, bid, closed, ch, dpc, cancelled,
                   asked, outcome, given>>

\* The select of lines 248-254.
Deliver(c) ==
    /\ hpc[c] = "matched"
    /\ ch[bid[c]] = NoConn
    /\ ch' = [ch EXCEPT ![bid[c]] = c]
    /\ hpc' = [hpc EXCEPT ![c] = "settled"]
    /\ UNCHANGED <<lifeVars, wpc, done, control, bid, closed, requests, dpc,
                   cancelled, asked, outcome, given>>

GiveUp(c) ==
    /\ hpc[c] = "matched"
    /\ bid[c] \in cancelled
    /\ Return(c)
    /\ UNCHANGED <<lifeVars, done, control, bid, closed, dialVars>>

\* A watcher parked on both channels is dequeued by whichever fires first.
CloseDone(c) ==
    /\ hpc[c] = "settled"
    /\ hpc' = [hpc EXCEPT ![c] = "released"]
    /\ done' = done \cup {c}
    /\ wpc' = [wpc EXCEPT ![c] = IF @ = "parked" THEN "exited" ELSE @]
    /\ UNCHANGED <<lifeVars, control, bid, closed, dialVars>>

\* A registered connection joins the manager first (module Control).
Finish(c) ==
    /\ hpc[c] = "released"
    /\ Return(c)
    /\ UNCHANGED <<lifeVars, done, control, bid, closed, dialVars>>

\* The watcher's select: it parks if neither channel is ready, and takes
\* either case if both are.
WatcherPark(c) ==
    /\ wpc[c] = "spawned"
    /\ ~HandlerCtxDone(c)
    /\ c \notin done
    /\ wpc' = [wpc EXCEPT ![c] = "parked"]
    /\ UNCHANGED <<lifeVars, hpc, done, control, bid, closed, dialVars>>

WatcherDone(c) ==
    /\ wpc[c] = "spawned"
    /\ c \in done
    /\ wpc' = [wpc EXCEPT ![c] = "exited"]
    /\ UNCHANGED <<lifeVars, hpc, done, control, bid, closed, dialVars>>

WatcherCtx(c) ==
    /\ wpc[c] = "spawned"
    /\ HandlerCtxDone(c)
    /\ wpc' = [wpc EXCEPT ![c] = "closing"]
    /\ UNCHANGED <<lifeVars, hpc, done, control, bid, closed, dialVars>>

WatcherClose(c) ==
    /\ wpc[c] = "closing"
    /\ closed' = closed \cup {c}
    /\ wpc' = [wpc EXCEPT ![c] = "exited"]
    /\ UNCHANGED <<lifeVars, hpc, done, control, bid, dialVars>>

-----------------------------------------------------------------------------
(* handleV2Stream *)

\* A stream arrives on a managed session; the session is closed some time
\* after d.ctx is cancelled, and until then streams still arrive.
AcceptStream(s) ==
    /\ Managed # {}
    /\ hpc[s] = "none"
    /\ hpc' = [hpc EXCEPT ![s] = "handshake"]
    /\ UNCHANGED <<lifeVars, wpc, done, control, bid, closed, dialVars>>

StreamReturn(s) ==
    /\ hpc' = [hpc EXCEPT ![s] = "returned"]
    /\ closed' = closed \cup {s}

StreamError(s) ==
    /\ hpc[s] = "handshake"
    /\ StreamReturn(s)
    /\ UNCHANGED <<lifeVars, wpc, done, control, bid, dialVars>>

StreamBind(s, d) ==
    /\ hpc[s] = "handshake"
    /\ d \in asked
    /\ bid' = [bid EXCEPT ![s] = d]
    /\ hpc' = [hpc EXCEPT ![s] = "bound"]
    /\ UNCHANGED <<lifeVars, wpc, done, control, closed, dialVars>>

StreamTakeRequest(s) ==
    /\ hpc[s] = "bound"
    /\ MuFree
    /\ \/ /\ bid[s] \in requests
          /\ requests' = requests \ {bid[s]}
          /\ hpc' = [hpc EXCEPT ![s] = "matched"]
          /\ UNCHANGED closed
       \/ /\ bid[s] \notin requests
          /\ StreamReturn(s)
          /\ UNCHANGED requests
    /\ UNCHANGED <<lifeVars, wpc, done, control, bid, ch, dpc, cancelled, asked,
                   outcome, given>>

\* The select of lines 398-409.
StreamDeliver(s) ==
    /\ hpc[s] = "matched"
    /\ ch[bid[s]] = NoConn
    /\ ch' = [ch EXCEPT ![bid[s]] = s]
    /\ hpc' = [hpc EXCEPT ![s] = "returned"]
    /\ UNCHANGED <<lifeVars, wpc, done, control, bid, closed, requests, dpc,
                   cancelled, asked, outcome, given>>

StreamGiveUp(s) ==
    /\ hpc[s] = "matched"
    /\ bid[s] \in cancelled \/ ctxDone
    /\ StreamReturn(s)
    /\ UNCHANGED <<lifeVars, wpc, done, control, bid, dialVars>>

-----------------------------------------------------------------------------
(* DialContext *)

\* GetConn gave nil or a connection that is no longer registered.
DialUnavailable(d) ==
    /\ dpc[d] = "idle"
    /\ dpc' = [dpc EXCEPT ![d] = "done"]
    /\ outcome' = [outcome EXCEPT ![d] = "error"]
    /\ UNCHANGED <<lifeVars, connVars, requests, ch, cancelled, asked, given>>

\* GetConn gave a registered connection: some control connection is managed.
AddRequest(d) ==
    /\ dpc[d] = "idle"
    /\ Managed # {}
    /\ MuFree
    /\ requests' = requests \cup {d}
    /\ dpc' = [dpc EXCEPT ![d] = "added"]
    /\ UNCHANGED <<lifeVars, connVars, ch, cancelled, asked, outcome, given>>

\* SendConnectCommand writes the command ...
SendCommand(d) ==
    /\ dpc[d] = "added"
    /\ dpc' = [dpc EXCEPT ![d] = "sending"]
    /\ asked' = asked \cup {d}
    /\ UNCHANGED <<lifeVars, connVars, requests, ch, cancelled, outcome, given>>

\* ... and reads the acknowledgement.
SendAck(d) ==
    /\ dpc[d] = "sending"
    /\ dpc' = [dpc EXCEPT ![d] = "waiting"]
    /\ UNCHANGED <<lifeVars, connVars, requests, ch, cancelled, asked, outcome,
                   given>>

SendError(d) ==
    /\ dpc[d] \in {"added", "sending"}
    /\ dpc' = [dpc EXCEPT ![d] = "leaving"]
    /\ outcome' = [outcome EXCEPT ![d] = "error"]
    /\ UNCHANGED <<lifeVars, connVars, requests, ch, cancelled, asked, given>>

\* The select of lines 146-151; when both cases are ready either is taken.
SelectCtx(d) ==
    /\ dpc[d] = "waiting"
    /\ d \in cancelled
    /\ dpc' = [dpc EXCEPT ![d] = "leaving"]
    /\ outcome' = [outcome EXCEPT ![d] = "error"]
    /\ UNCHANGED <<lifeVars, connVars, requests, ch, cancelled, asked, given>>

SelectConn(d) ==
    /\ dpc[d] = "waiting"
    /\ ch[d] # NoConn
    /\ dpc' = [dpc EXCEPT ![d] = "leaving"]
    /\ outcome' = [outcome EXCEPT ![d] = "conn"]
    /\ given' = [given EXCEPT ![d] = ch[d]]
    /\ ch' = [ch EXCEPT ![d] = NoConn]
    /\ UNCHANGED <<lifeVars, connVars, requests, cancelled, asked>>

\* The deferred removeRequest, which needs d.mu.
Leave(d) ==
    /\ dpc[d] = "leaving"
    /\ MuFree
    /\ requests' = requests \ {d}
    /\ dpc' = [dpc EXCEPT ![d] = "done"]
    /\ UNCHANGED <<lifeVars, connVars, ch, cancelled, asked, outcome, given>>

\* The caller's context ends.
CancelDial(d) ==
    /\ d \notin cancelled
    /\ dpc[d] # "done"
    /\ cancelled' = cancelled \cup {d}
    /\ UNCHANGED <<lifeVars, connVars, requests, ch, dpc, asked, outcome, given>>

-----------------------------------------------------------------------------
(* Specification *)

LifeStep == CancelStart \/ StopCancel \/ Start \/ CloseListener \/ AcceptError
            \/ StopReturn

\* Steps of a handler and its watcher that wait for nothing outside the dialer.
HandlerStep(c) == \/ TakeRequest(c) \/ Deliver(c) \/ GiveUp(c)
                  \/ CloseDone(c) \/ Finish(c)
WatcherStep(c) == \/ WatcherPark(c) \/ WatcherDone(c) \/ WatcherCtx(c)
                  \/ WatcherClose(c)
StreamStep(s) == StreamTakeRequest(s) \/ StreamDeliver(s) \/ StreamGiveUp(s)

TcpStep(c) == \/ Accept(c) \/ ProcessError(c) \/ ProcessRegister(c)
              \/ \E d \in Dials : ProcessBind(c, d)
              \/ HandlerStep(c) \/ WatcherStep(c)

StreamAnyStep(s) == \/ AcceptStream(s) \/ StreamError(s)
                    \/ \E d \in Dials : StreamBind(s, d)
                    \/ StreamStep(s)

\* Steps of DialContext that wait for nothing but d.mu, its context and its
\* channel.
DialStep(d) == SelectCtx(d) \/ SelectConn(d) \/ Leave(d)

DialAnyStep(d) == \/ DialUnavailable(d) \/ AddRequest(d) \/ SendCommand(d)
                  \/ SendAck(d) \/ SendError(d) \/ CancelDial(d) \/ DialStep(d)

Next ==
    \/ LifeStep
    \/ \E c \in TcpConns : TcpStep(c)
    \/ \E s \in Streams : StreamAnyStep(s)
    \/ \E d \in Dials : DialAnyStep(d)

Spec == Init /\ [][Next]_vars

\* Goroutines that can run do run, and d.mu is handed to those who wait for
\* it; the peer (handshakes, acknowledgements), the callers' contexts and a
\* spontaneous Accept error owe nothing.
Fairness ==
    /\ WF_vars(CloseListener)
    /\ WF_vars(~listening /\ AcceptError)
    /\ WF_vars(StopReturn)
    /\ \A c \in TcpConns : WF_vars(HandlerStep(c)) /\ WF_vars(WatcherStep(c))
    /\ \A s \in Streams : WF_vars(StreamStep(s))
    /\ \A d \in Dials : WF_vars(DialStep(d))

FairSpec == Spec /\ Fairness

-----------------------------------------------------------------------------
(* Properties *)

\* Handlers that took the request of dial d and have not disposed of it.
Holders(d) == {c \in Conns : hpc[c] = "matched" /\ bid[c] = d}

\* A request is in one place at a time: the map, one handler, its channel or
\* the caller's result.  So two connections that bind with the same UUID can
\* never both be delivered, and the send on the one-slot channel never finds
\* it full and blocks (dialer.go:146-151, 242-254, 389-409, 431-443).
OneOwner ==
    \A d \in Dials :
        /\ d \in requests =>
               Holders(d) = {} /\ ch[d] = NoConn /\ given[d] = NoConn
        /\ Holders(d) # {} => ch[d] = NoConn /\ given[d] = NoConn
        /\ ch[d] # NoConn => given[d] = NoConn
        /\ \A c1, c2 \in Holders(d) : c1 = c2

\* Connection c went into the channel of dial d, and perhaps on to its caller.
DeliveredTo(c, d) == c = ch[d] \/ c = given[d]

Delivered(c) == \E d \in Dials : DeliveredTo(c, d)

\* A dial only ever receives the connection that presented its own UUID,
\* although connections arrive in any order, for any dial, before or after
\* the command is acknowledged.
OwnConnection == \A c \in Conns, d \in Dials : DeliveredTo(c, d) => bid[c] = d

\* handleV2Stream closes a stream exactly on the paths that do not deliver it:
\* when its handler is gone the stream is closed or delivered, never both.
StreamClosedOrDelivered ==
    \A s \in Streams :
        hpc[s] = "returned" => (s \in closed <=> ~Delivered(s))

\* What makes the invariants above inductive: a connection presents one UUID,
\* that of a dial that was asked for; such a dial has published its request;
\* a request in the map belongs to a call in progress; a call that still
\* waits has no result; a stream whose handler runs is neither closed nor
\* delivered.
UnboundDuringHandshake ==
    \A c \in Conns : hpc[c] \in {"none", "handshake"} => bid[c] = NoDial
BidsWereAsked == \A c \in Conns : bid[c] \in Dials => bid[c] \in asked
AskedWereAdded == \A d \in asked : dpc[d] \notin {"idle", "added"}
RequestsHaveCallers == \A d \in requests : dpc[d] \notin {"idle", "done"}
WaitingIsPending ==
    \A d \in Dials :
        dpc[d] \notin {"leaving", "done"} =>
            outcome[d] = "pending" /\ given[d] = NoConn
RunningStreamsOpen ==
    \A s \in Streams :
        hpc[s] # "returned" => s \notin closed /\ ~Delivered(s)

IndInv ==
    /\ TypeOK
    /\ OneOwner
    /\ OwnConnection
    /\ UnboundDuringHandshake
    /\ BidsWereAsked
    /\ AskedWereAdded
    /\ RequestsHaveCallers
    /\ WaitingIsPending

StreamInv == StreamClosedOrDelivered /\ RunningStreamsOpen

\* A DialContext whose context is cancelled while it waits for a connection
\* returns, even if Stop holds d.mu meanwhile (assuming that Stop returns).
CancelledDialReturns ==
    \A d \in Dials :
        (dpc[d] = "waiting" /\ d \in cancelled) ~> (dpc[d] = "done")

\* A TCP connection that neither registered nor was delivered is closed once
\* its handler returned: on every early return the deferred cancel reaches a
\* watcher that closes it (dialer.go:211-219).
RejectedConnClosed ==
    \A c \in TcpConns :
        (hpc[c] = "returned" /\ c \notin done) ~> (c \in closed)

\* Once a connection presented a UUID its handler comes to an end, whatever
\* the dial does; with OneOwner, its channel send cannot hang.
BindHandlerEnds ==
    \A c \in Conns : (hpc[c] = "bound") ~> (hpc[c] = "returned")

\* "Stop the handshake-phase lifecycle goroutine; connection lifetime is now
\* managed by the per-protocol handler below" (dialer.go:229-230): while the
\* dialer runs, closing done keeps the watcher from closing the connection.
ReleasedConnStaysOpen ==
    \A c \in done : c \in closed => ctxDone \/ ~serving

\* Dialer keeps the promise of Rendezvous.
R == INSTANCE Rendezvous WITH claim <- bid
Implements == R!Spec

=============================================================================

-------------------------------- MODULE Pool --------------------------------
(***************************************************************************)
(* The listener's pool of multiplexed connections: pool.Pool with its      *)
(* monitor goroutine, AutoScaler, LeastStreamsSelector and the counters of *)
(* Metrics and ConnMetrics.                                                *)
(*                                                                         *)
(* Every method that holds p.mu from start to end is one action.  Close    *)
(* keeps p.mu while it waits for the monitor, so that is a state of its    *)
(* own.  OpenStream selects under p.mu but opens the stream after          *)
(* releasing it, and each of the two counters moves in a step of its own.  *)
(* scaleUp releases p.mu while it creates a connection.                    *)
(***************************************************************************)
EXTENDS Integers, Sequences, SequencesExt, FiniteSetsExt

CONSTANTS
    Conns,          \* MuxConns that may come to exist
    Offered,        \* the ones handed to AddConnection from outside
    Removable,      \* the ones RemoveConnection is called with from outside
    Openers,        \* goroutines that open and close streams
    MinConnections, MaxConnections,
    ScaleUpThreshold, ScaleDownThreshold,
    NoConn

\* What Config.Validate leaves behind.
ValidConfig ==
    /\ MinConnections \in Nat \ {0} /\ MaxConnections \in Nat
    /\ MinConnections <= MaxConnections
    /\ ScaleUpThreshold \in Nat \ {0} /\ ScaleDownThreshold \in Nat \ {0}
    /\ ScaleDownThreshold < ScaleUpThreshold

ASSUME ConfigAssumption == ValidConfig
ASSUME ConnsAssumption ==
    /\ Offered \subseteq Conns /\ Removable \subseteq Conns
    /\ NoConn \notin Conns
ASSUME OpenersAssumption == IsFiniteSet(Openers)

VARIABLES
    connections,    \* p.connections
    count,          \* metrics.connectionCount
    active,         \* metrics.activeStreams
    streams,        \* activeStreams of each connection's ConnMetrics
    latency,        \* AvgLatency: below half the threshold, above it, between
    cooled,         \* ScaleCooldown has passed since the last scaling
    made,           \* connections that exist
    dropped,        \* history: those scaleUp created and could not add
    closed,         \* MuxConn.closed
    broken,         \* sessions the peer or the network ended
    phase,          \* "new", "started", "closing" (Close waits), "closed"
    ctxDone,        \* p.ctx is cancelled
    mpc,            \* where the monitor goroutine is
    fresh,          \* the connection scaleUp created and has not added
    opc,            \* where each opener is
    on              \* the connection it selected

poolVars == <<connections, count, closed>>
monitorVars == <<mpc, fresh, cooled, latency>>
openerVars == <<opc, on, active, streams>>
lifeVars == <<phase, ctxDone, made, broken>>
vars == <<poolVars, monitorVars, openerVars, lifeVars, dropped>>

-----------------------------------------------------------------------------
(* State *)

MonitorPCs == {"off", "waiting", "scaleUp", "creating", "adding", "scaleDown",
               "exited"}

\* "opened": the stream exists and only its connection counted it; "closing":
\* the pool no longer counts it, its connection still does.
OpenerPCs == {"idle", "selected", "opened", "using", "closing"}

TypeOK ==
    /\ connections \in Seq(Conns)
    /\ count \in Nat
    /\ active \in Int
    /\ streams \in [Conns -> Int]
    /\ latency \in {"good", "fair", "bad"}
    /\ cooled \in BOOLEAN
    /\ made \subseteq Conns /\ dropped \subseteq Conns
    /\ closed \subseteq Conns /\ broken \subseteq Conns
    /\ phase \in {"new", "started", "closing", "closed"}
    /\ ctxDone \in BOOLEAN
    /\ mpc \in MonitorPCs
    /\ fresh \in Conns \cup {NoConn}
    /\ opc \in [Openers -> OpenerPCs]
    /\ on \in [Openers -> Conns \cup {NoConn}]
    /\ \A o \in Openers : opc[o] # "idle" => on[o] \in Conns

Init ==
    /\ connections = <<>>
    /\ count = 0
    /\ active = 0
    /\ streams = [c \in Conns |-> 0]
    /\ latency = "good"
    /\ cooled = FALSE
    /\ made = {}
    /\ dropped = {}
    /\ closed = {}
    /\ broken = {}
    /\ phase = "new"
    /\ ctxDone = FALSE
    /\ mpc = "off"
    /\ fresh = NoConn
    /\ opc = [o \in Openers |-> "idle"]
    /\ on = [o \in Openers |-> NoConn]

\* The openers whose stream connection c counts.
Holders(c) == {o \in Openers : /\ on[o] = c
                              /\ opc[o] \in {"opened", "using", "closing"}}

\* Close holds p.mu while it waits for the monitor.
MuFree == phase # "closing"

\* The loops of Select and scaleDown: the first of the connections that have
\* the fewest streams.  The counters the loop reads one by one are taken as one
\* snapshot.
IsFewest(i) ==
    /\ \A j \in DOMAIN connections :
          streams[connections[i]] <= streams[connections[j]]
    /\ \A j \in 1..(i - 1) : streams[connections[j]] # streams[connections[i]]

SetConnections(s) ==
    /\ connections' = s
    /\ count' = Len(s)

-----------------------------------------------------------------------------
(* Mutants: one plausible slip per property, substituted by the checks. *)

AppendUnchecked(c) == SetConnections(Append(connections, c))

ScaleDownKeepingEntry ==
    /\ mpc = "scaleDown"
    /\ MuFree
    /\ mpc' = "waiting"
    /\ \E i \in DOMAIN connections :
          IsFewest(i) /\ closed' = closed \cup {connections[i]}
    /\ cooled' = FALSE
    /\ latency' = "good"
    /\ UNCHANGED <<connections, count, fresh, openerVars, lifeVars, dropped>>

UncountWithoutOnce(o) ==
    /\ opc[o] \in {"using", "closing"}
    /\ active' = active - 1
    /\ opc' = [opc EXCEPT ![o] = "closing"]
    /\ UNCHANGED <<poolVars, monitorVars, on, streams, lifeVars, dropped>>

CloseWithoutWait ==
    /\ phase = "closing"
    /\ phase' = "closed"
    /\ closed' = closed \cup ToSet(connections)
    /\ SetConnections(<<>>)
    /\ UNCHANGED <<monitorVars, openerVars, ctxDone, made, broken, dropped>>

SelectNil(o) ==
    /\ opc[o] = "idle"
    /\ MuFree
    /\ opc' = [opc EXCEPT ![o] = "selected"]
    /\ on' = [on EXCEPT ![o] = IF connections = <<>> THEN NoConn
                                                     ELSE connections[1]]
    /\ UNCHANGED <<poolVars, monitorVars, active, streams, lifeVars, dropped>>

-----------------------------------------------------------------------------
(* Start, Close and the public operations on connections *)

Start ==
    /\ phase = "new"
    /\ phase' = "started"
    /\ mpc' = "waiting"
    /\ UNCHANGED <<poolVars, fresh, cooled, latency, openerVars, ctxDone, made,
                   broken, dropped>>

\* The body of AddConnection below its capacity check.
AppendConnection(c) ==
    /\ Len(connections) < MaxConnections
    /\ SetConnections(Append(connections, c))

\* At capacity AddConnection only returns an error; the caller keeps c.
AddConnection(c) ==
    /\ MuFree
    /\ c \in Offered \ made
    /\ made' = made \cup {c}
    /\ AppendConnection(c)
    /\ UNCHANGED <<closed, monitorVars, openerVars, phase, ctxDone, broken,
                   dropped>>

RemoveConnection(c) ==
    /\ MuFree
    /\ c \in Removable
    /\ \E i \in DOMAIN connections :
          /\ connections[i] = c
          /\ SetConnections(RemoveAt(connections, i))
    /\ closed' = closed \cup {c}
    /\ UNCHANGED <<monitorVars, openerVars, lifeVars, dropped>>

\* Close up to wg.Wait; a pool that was never started has nothing to wait for.
CloseBegin ==
    /\ phase \in {"new", "started"}
    /\ phase' = "closing"
    /\ ctxDone' = (phase = "started")
    /\ UNCHANGED <<poolVars, monitorVars, openerVars, made, broken, dropped>>

CloseFinish ==
    /\ phase = "closing"
    /\ mpc \in {"off", "exited"}
    /\ phase' = "closed"
    /\ closed' = closed \cup ToSet(connections)
    /\ SetConnections(<<>>)
    /\ UNCHANGED <<monitorVars, openerVars, ctxDone, made, broken, dropped>>

\* The listener's context, from which p.ctx derives, ends.
CancelParent ==
    /\ phase = "started"
    /\ ~ctxDone
    /\ ctxDone' = TRUE
    /\ UNCHANGED <<poolVars, monitorVars, openerVars, phase, made, broken,
                   dropped>>

-----------------------------------------------------------------------------
(* The monitor *)

AvgStreams == active \div count

\* AutoScaler.Evaluate
Evaluate ==
    IF ~cooled THEN "none"
    ELSE IF count = 0 THEN "up"
    ELSE IF /\ count < MaxConnections
            /\ AvgStreams > ScaleUpThreshold \/ latency = "bad"
         THEN "up"
    ELSE IF /\ count > MinConnections
            /\ AvgStreams < ScaleDownThreshold
            /\ latency = "good"
         THEN "down"
    ELSE "none"

\* A tick of the ticker; evaluateScaling resets the latency at its end.
Tick ==
    /\ mpc = "waiting"
    /\ \/ Evaluate = "none" /\ latency' = "good" /\ UNCHANGED mpc
       \/ Evaluate = "up" /\ mpc' = "scaleUp" /\ UNCHANGED latency
       \/ Evaluate = "down" /\ mpc' = "scaleDown" /\ UNCHANGED latency
    /\ UNCHANGED <<poolVars, fresh, cooled, openerVars, lifeVars, dropped>>

MonitorExit ==
    /\ mpc = "waiting"
    /\ ctxDone
    /\ mpc' = "exited"
    /\ UNCHANGED <<poolVars, fresh, cooled, latency, openerVars, lifeVars,
                   dropped>>

\* scaleUp reads the number of connections under p.mu and releases it.
ScaleUpCheck ==
    /\ mpc = "scaleUp"
    /\ MuFree
    /\ \/ /\ Len(connections) < MaxConnections
          /\ mpc' = "creating"
          /\ UNCHANGED latency
       \/ /\ Len(connections) >= MaxConnections
          /\ mpc' = "waiting"
          /\ latency' = "good"
    /\ UNCHANGED <<poolVars, fresh, cooled, openerVars, lifeVars, dropped>>

\* onNewConn dials and registers, or fails.
Create ==
    /\ mpc = "creating"
    /\ \/ \E c \in Conns \ (made \cup Offered) :
             /\ made' = made \cup {c}
             /\ fresh' = c
             /\ mpc' = "adding"
             /\ UNCHANGED latency
       \/ /\ mpc' = "waiting"
          /\ latency' = "good"
          /\ UNCHANGED <<made, fresh>>
    /\ UNCHANGED <<poolVars, cooled, openerVars, phase, ctxDone, broken,
                   dropped>>

\* AddConnection from scaleUp: at capacity the new connection is dropped.
ScaleUpAdd ==
    /\ mpc = "adding"
    /\ MuFree
    /\ \/ /\ AppendConnection(fresh)
          /\ cooled' = FALSE
          /\ UNCHANGED dropped
       \/ /\ Len(connections) >= MaxConnections
          /\ dropped' = dropped \cup {fresh}
          /\ UNCHANGED <<connections, count, cooled>>
    /\ fresh' = NoConn
    /\ mpc' = "waiting"
    /\ latency' = "good"
    /\ UNCHANGED <<closed, openerVars, lifeVars>>

ScaleDown ==
    /\ mpc = "scaleDown"
    /\ MuFree
    /\ \/ /\ Len(connections) > MinConnections
          /\ \E i \in DOMAIN connections :
                /\ IsFewest(i)
                /\ closed' = closed \cup {connections[i]}
                /\ SetConnections(RemoveAt(connections, i))
          /\ cooled' = FALSE
       \/ /\ Len(connections) <= MinConnections
          /\ UNCHANGED <<poolVars, cooled>>
    /\ mpc' = "waiting"
    /\ latency' = "good"
    /\ UNCHANGED <<fresh, openerVars, lifeVars, dropped>>

\* Time passes.
Cool ==
    /\ ~cooled
    /\ cooled' = TRUE
    /\ UNCHANGED <<poolVars, mpc, fresh, latency, openerVars, lifeVars,
                   dropped>>

\* Metrics.RecordLatency
RecordLatency ==
    /\ latency' \in {"good", "fair", "bad"}
    /\ UNCHANGED <<poolVars, mpc, fresh, cooled, openerVars, lifeVars,
                   dropped>>

-----------------------------------------------------------------------------
(* Streams *)

\* Pool.OpenStream up to RUnlock; with no connection it returns an error.
Select(o) ==
    /\ opc[o] = "idle"
    /\ MuFree
    /\ \E i \in DOMAIN connections :
          /\ IsFewest(i)
          /\ on' = [on EXCEPT ![o] = connections[i]]
    /\ opc' = [opc EXCEPT ![o] = "selected"]
    /\ UNCHANGED <<poolVars, monitorVars, active, streams, lifeVars, dropped>>

\* MuxConn.OpenStream, under m.mu: fails if the connection was closed since,
\* or if the session does.
OpenStream(o) ==
    /\ opc[o] = "selected"
    /\ \/ /\ on[o] \notin closed \cup broken
          /\ streams' = [streams EXCEPT ![on[o]] = @ + 1]
          /\ opc' = [opc EXCEPT ![o] = "opened"]
          /\ UNCHANGED on
       \/ /\ on[o] \in closed \cup broken
          /\ opc' = [opc EXCEPT ![o] = "idle"]
          /\ on' = [on EXCEPT ![o] = NoConn]
          /\ UNCHANGED streams
    /\ UNCHANGED <<poolVars, monitorVars, active, lifeVars, dropped>>

\* metrics.IncrementActiveStreams, and Pool.OpenStream returns.
CountStream(o) ==
    /\ opc[o] = "opened"
    /\ active' = active + 1
    /\ opc' = [opc EXCEPT ![o] = "using"]
    /\ UNCHANGED <<poolVars, monitorVars, on, streams, lifeVars, dropped>>

\* poolTrackedStream.Close runs onClose once ...
UncountStream(o) ==
    /\ opc[o] = "using"
    /\ active' = active - 1
    /\ opc' = [opc EXCEPT ![o] = "closing"]
    /\ UNCHANGED <<poolVars, monitorVars, on, streams, lifeVars, dropped>>

\* ... and then trackedStream.Close, likewise.
CloseStream(o) ==
    /\ opc[o] = "closing"
    /\ streams' = [streams EXCEPT ![on[o]] = @ - 1]
    /\ opc' = [opc EXCEPT ![o] = "idle"]
    /\ on' = [on EXCEPT ![o] = NoConn]
    /\ UNCHANGED <<poolVars, monitorVars, active, lifeVars, dropped>>

\* A session ends on its own; nothing tells the pool.
Break(c) ==
    /\ c \in made \ (broken \cup closed)
    /\ broken' = broken \cup {c}
    /\ UNCHANGED <<poolVars, monitorVars, openerVars, phase, ctxDone, made,
                   dropped>>

-----------------------------------------------------------------------------
(* Specification *)

MonitorStep == \/ Tick \/ MonitorExit \/ ScaleUpCheck \/ Create \/ ScaleUpAdd
               \/ ScaleDown

OpenerStep(o) == \/ Select(o) \/ OpenStream(o) \/ CountStream(o)
                 \/ UncountStream(o) \/ CloseStream(o)

Next ==
    \/ Start \/ CloseBegin \/ CloseFinish \/ CancelParent
    \/ MonitorStep \/ Cool \/ RecordLatency
    \/ \E c \in Conns : AddConnection(c) \/ RemoveConnection(c) \/ Break(c)
    \/ \E o \in Openers : OpenerStep(o)

Spec == Init /\ [][Next]_vars

\* The monitor runs, its ticker ticks, cooldowns pass, and a select with a
\* permanently ready context case takes it in the end; Close goes on when the
\* wait group lets it.
Fairness ==
    /\ WF_vars(MonitorStep)
    /\ SF_vars(MonitorExit)
    /\ WF_vars(Cool)
    /\ WF_vars(CloseFinish)

FairSpec == Spec /\ Fairness

-----------------------------------------------------------------------------
(* Properties *)

\* The pool never exceeds MaxConnections, although scaleUp decides on a length
\* it read before it released p.mu and dialed (pool.go:296-316).
CapacityRespected == Len(connections) <= MaxConnections

\* What the scaler and the selector look at is open and listed once: a
\* connection leaves the list in the critical section that closes it
\* (pool.go:163-188, 320-365), so OpenStream can meet a closed one only because
\* it uses its selection after it released p.mu (pool.go:194-202).
PooledAreOpen ==
    /\ ToSet(connections) \cap closed = {}
    /\ IsInjective(connections)

\* The two stream counters move in separate steps, up on the connection first,
\* down on the pool first (pool.go:202-213, 375-378; mux_conn.go:49-55,
\* 137-140), and survive a scale-down that closes the connection under its
\* streams.  Whatever interleaves, the pool counts the streams that were handed
\* out and not closed, and each connection these and the ones between the two
\* steps.  So the average the scaler divides is never negative, the pool counts
\* no stream its connections do not, and nothing stays counted that nobody
\* holds.
CountersAgree ==
    /\ active = Cardinality({o \in Openers : opc[o] = "using"})
    /\ \A c \in Conns : streams[c] = Cardinality(Holders(c))

\* Once Close has returned, every connection the pool was given or created is
\* closed: Close waits for the monitor (pool.go:239), so no scaleUp adds one
\* behind its back.  (Close does not return at all when the monitor is in the
\* middle of scaleUp: PoolCloses.)  Two kinds escape it: what a caller adds after
\* Close, and what scaleUp could not add because the pool had filled up while it
\* dialed (pool.go:311-316).
NothingOpenAfterClose ==
    phase = "closed" =>
        made \subseteq closed \cup dropped \cup (ToSet(connections) \cap Offered)

-----------------------------------------------------------------------------
(* The inductive invariant *)

\* Where a connection that exists can be: in the list, closed, dropped, or in
\* the hands of scaleUp; the list and scaleUp hold open ones only.
Whereabouts ==
    /\ closed \cup dropped \cup ToSet(connections) \subseteq made
    /\ made \subseteq closed \cup dropped \cup ToSet(connections) \cup {fresh}
    /\ fresh # NoConn => /\ fresh \in made \ Offered
                        /\ fresh \notin closed \cup dropped
                        /\ fresh \notin ToSet(connections)

\* scaleUp holds a connection only before it adds it; the monitor runs between
\* Start and the wait of Close, after which only outsiders add.
MonitorLife ==
    /\ fresh # NoConn <=> mpc = "adding"
    /\ phase = "new" => mpc = "off"
    /\ phase = "closed" => /\ mpc \in {"off", "exited"}
                           /\ ToSet(connections) \subseteq Offered

IndInv ==
    /\ TypeOK
    /\ CapacityRespected
    /\ PooledAreOpen
    /\ Whereabouts
    /\ MonitorLife
    /\ CountersAgree

-----------------------------------------------------------------------------
(* Liveness *)

\* Close returns (pool.go:232, "Close stops the pool and closes all
\* connections.").
PoolCloses == (phase = "closing") ~> (phase = "closed")

=============================================================================

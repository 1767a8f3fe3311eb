------------------------------ MODULE Listener ------------------------------
(***************************************************************************)
(* A listener after its registration: the client's command loop, the       *)
(* bounded channel between it and Accept, Accept with its V1 and V2 call   *)
(* back, Close, and the registrations the pool adds (listener.go,          *)
(* proto/client.go, proto/client_v2.go).                                   *)
(*                                                                         *)
(* The dialer's end is reduced to what Control shows of it: one command at *)
(* a time per registration (s.mu), which waits for its acknowledgement     *)
(* without a deadline, and a connection that is closed after a failed      *)
(* send.  Pool has the pool's locks and counters; here only its members    *)
(* and the streams on them matter.                                         *)
(***************************************************************************)
EXTENDS Naturals, Sequences, FiniteSets

CONSTANTS
    Cmds,       \* commands the dialer may send
    Connects,   \* the connect commands among them
    Events,     \* the custom events that have a handler
    Pings,      \* pings
    Malformed,  \* commands handleCommand refuses: another version, an unknown
                \* type, an event that is not JSON; every other command is an
                \* event without a handler
    Acceptors,  \* goroutines of the application that call Accept
    Regs,       \* registrations: the listener's and those of the pool
    Primary,    \* the listener's own
    Modes,      \* subset of {"v1", "v2", "pool"}
    Cap,        \* slots of the command channel (10 in NewClient)
    Offered,    \* a bound per mode: the commands the dialer sends
    NoCmd

ASSUME CmdsAssumption ==
    /\ Connects \subseteq Cmds /\ Events \subseteq Cmds /\ Pings \subseteq Cmds
    /\ Connects \cap (Events \cup Pings) = {} /\ Events \cap Pings = {}
    /\ Malformed \subseteq Cmds \ (Connects \cup Events \cup Pings)
    /\ NoCmd \notin Cmds
ASSUME RegsAssumption ==
    Primary \in Regs /\ Regs \cap {"none", "closed", "tcp"} = {}
ASSUME BoundsAssumption ==
    /\ Cap \in Nat \ {0}
    /\ Modes \subseteq {"v1", "v2", "pool"}
    /\ \A m \in Modes : Offered[m] \subseteq Cmds

VARIABLES
    mode,       \* V1; V2; V2 with a pool
    ctx,        \* l.ctx: "live", "cancelled" by the caller, "dialFailed"
    lpc,        \* the command loop of each registration
    cur,        \* the command it works on
    cmds,       \* the channel c.cmds; closed when the loop has exited
    rest,       \* what a short Read of an identifier left on the connection: a
                \* single byte or more of them
    link,       \* "up"; "half": V2, only the control stream closed; "down"
    closers,    \* registrations whose closer goroutine has run
    why,        \* history: what else ended the registration first
    wire,       \* a command the loop has not read yet
    kst,        \* the call that sends each command
    to,         \* the registration it was sent to
    apc,        \* where each acceptor is
    acmd,       \* the command it works on
    conn,       \* what a command's call back runs over
    outcome,    \* what Accept made of each command
    pool,       \* the pool's connections, in order
    clpc        \* where Listener.Close is

loopVars == <<lpc, cur, cmds, rest>>
linkVars == <<link, closers, why>>
sendVars == <<wire, kst, to>>
acceptVars == <<apc, acmd, conn, outcome>>
vars == <<mode, ctx, loopVars, linkVars, sendVars, acceptVars, pool, clpc>>

-----------------------------------------------------------------------------
(* State *)

TypeOK ==
    /\ mode \in Modes
    /\ ctx \in {"live", "cancelled", "dialFailed"}
    /\ lpc \in [Regs -> {"none", "top", "reading", "queueing", "acking", "exited"}]
    /\ cur \in [Regs -> Cmds \cup {NoCmd}]
    /\ cmds \in [Regs -> Seq(Cmds)]
    /\ \A r \in Regs : Len(cmds[r]) <= Cap
    /\ rest \in [Regs -> {"none", "byte", "bytes"}]
    /\ link \in [Regs -> {"up", "half", "down"}]
    /\ closers \subseteq Regs
    /\ why \in [Regs -> {"none", "lost", "refused", "scaled"}]
    /\ wire \in [Regs -> Cmds \cup {NoCmd}]
    /\ kst \in [Cmds -> {"new", "sent", "answered", "acked", "failed"}]
    /\ to \in [Cmds -> Regs]
    /\ apc \in [Acceptors -> {"select", "handling", "connecting", "binding", "over"}]
    /\ acmd \in [Acceptors -> Cmds \cup {NoCmd}]
    /\ conn \in [Cmds -> {"none", "closed", "tcp"} \cup Regs]
    /\ outcome \in [Cmds -> {"none", "served", "refused"}]
    /\ pool \in Seq(Regs)
    /\ clpc \in {"none", "pool", "client", "waiting", "done"}

\* Listen has returned: the primary is registered and, with a pool, its member.
Init ==
    /\ mode \in Modes
    /\ ctx = "live"
    /\ lpc = [r \in Regs |-> IF r = Primary THEN "top" ELSE "none"]
    /\ cur = [r \in Regs |-> NoCmd]
    /\ cmds = [r \in Regs |-> <<>>]
    /\ rest = [r \in Regs |-> "none"]
    /\ link = [r \in Regs |-> "up"]
    /\ closers = {}
    /\ why = [r \in Regs |-> "none"]
    /\ wire = [r \in Regs |-> NoCmd]
    /\ kst = [k \in Cmds |-> "new"]
    /\ to = [k \in Cmds |-> Primary]
    /\ apc = [a \in Acceptors |-> "select"]
    /\ acmd = [a \in Acceptors |-> NoCmd]
    /\ conn = [k \in Cmds |-> "none"]
    /\ outcome = [k \in Cmds |-> "none"]
    /\ pool = IF mode = "pool" THEN <<Primary>> ELSE <<>>
    /\ clpc = "none"

Live(r) == lpc[r] # "none"

\* The context of a registration: derived from l.ctx, cancelled by the end of
\* its command loop and by Client.Close.
Done(r) ==
    \/ ctx # "live"
    \/ lpc[r] = "exited"
    \/ r = Primary /\ clpc \in {"waiting", "done"}

\* c.mu, which Close keeps while it waits for the client's goroutines.
MuFree == clpc # "waiting"

\* The registration ends; `reason` is recorded if nothing ended it before.
Blame(r, reason) ==
    why' = [why EXCEPT ![r] = IF link[r] = "up" /\ @ = "none" THEN reason ELSE @]

TakeDown(r, reason) ==
    /\ link' = [link EXCEPT ![r] = "down"]
    /\ Blame(r, reason)

-----------------------------------------------------------------------------
(* Mutants: one plausible slip per property, substituted by the checks. *)

QueueUnbounded(r) ==
    /\ lpc[r] = "queueing"
    /\ cmds' = [cmds EXCEPT ![r] = Append(@, cur[r])]
    /\ lpc' = [lpc EXCEPT ![r] = "acking"]
    /\ UNCHANGED <<mode, ctx, cur, rest, linkVars, sendVars, acceptVars, pool, clpc>>

PeekCommand(a) ==
    /\ apc[a] = "select"
    /\ cmds[Primary] # <<>>
    /\ LET k == Head(cmds[Primary]) IN
          /\ k \in Connects \cup Events
          /\ acmd' = [acmd EXCEPT ![a] = k]
          /\ apc' = [apc EXCEPT ![a] = IF k \in Connects THEN "connecting" ELSE "handling"]
    /\ UNCHANGED <<mode, ctx, loopVars, linkVars, sendVars, conn, outcome, pool, clpc>>

AckWithoutQueue(r) ==
    /\ lpc[r] = "queueing"
    /\ Done(r)
    /\ lpc' = [lpc EXCEPT ![r] = "acking"]
    /\ UNCHANGED <<mode, ctx, cur, cmds, rest, linkVars, sendVars, acceptVars, pool, clpc>>

AcceptEndsOnExit(a) ==
    /\ apc[a] = "select"
    /\ lpc[Primary] \in {"queueing", "exited"}
    /\ apc' = [apc EXCEPT ![a] = "over"]
    /\ UNCHANGED <<mode, ctx, loopVars, linkVars, sendVars, acmd, conn, outcome, pool, clpc>>

AcceptDropsQueue(a) ==
    /\ apc[a] = "select"
    /\ lpc[Primary] = "exited"
    /\ apc' = [apc EXCEPT ![a] = "over"]
    /\ UNCHANGED <<mode, ctx, loopVars, linkVars, sendVars, acmd, conn, outcome, pool, clpc>>

StayQueueing(r) ==
    /\ lpc[r] = "queueing"
    /\ Done(r) /\ Len(cmds[r]) < Cap
    /\ lpc' = [lpc EXCEPT ![r] = "top"]
    /\ cur' = [cur EXCEPT ![r] = NoCmd]
    /\ UNCHANGED <<mode, ctx, cmds, rest, linkVars, sendVars, acceptVars, pool, clpc>>

CloserV1Only(r) ==
    /\ Live(r) /\ Done(r) /\ r \notin closers
    /\ mode = "v1"
    /\ closers' = closers \cup {r}
    /\ TakeDown(r, "none")
    /\ UNCHANGED <<mode, ctx, loopVars, sendVars, acceptVars, pool, clpc>>

BindCloserAfterApp(k) ==
    /\ conn[k] = "tcp" /\ clpc = "none" /\ ctx # "live"
    /\ conn' = [conn EXCEPT ![k] = "closed"]
    /\ UNCHANGED <<mode, ctx, loopVars, linkVars, sendVars, apc, acmd, outcome, pool, clpc>>

-----------------------------------------------------------------------------
(* The command loop of a registration, and its closer goroutine *)

\* The loop returns: close(c.cmds), cancel, wg.Done.
Exit(r) ==
    /\ lpc' = [lpc EXCEPT ![r] = "exited"]
    /\ cur' = [cur EXCEPT ![r] = NoCmd]

LoopTop(r) ==
    /\ lpc[r] = "top"
    /\ IF Done(r) THEN Exit(r) ELSE lpc' = [lpc EXCEPT ![r] = "reading"] /\ UNCHANGED cur
    /\ UNCHANGED <<mode, ctx, cmds, rest, linkVars, sendVars, acceptVars, pool, clpc>>

\* handleCommand: a ping needs no more than an answer.  The identifier of a
\* connect command is read with a plain Read, which on a TCP connection may
\* return a part of it: the command then has a wrong identifier, and what is
\* left will be taken for the next command.
LoopRead(r) ==
    /\ lpc[r] = "reading"
    /\ wire[r] \notin Malformed \cup {NoCmd} /\ rest[r] = "none" /\ link[r] # "down"
    /\ wire' = [wire EXCEPT ![r] = NoCmd]
    /\ cur' = [cur EXCEPT ![r] = wire[r]]
    /\ lpc' = [lpc EXCEPT ![r] = IF wire[r] \in Pings THEN "acking" ELSE "queueing"]
    /\ \/ UNCHANGED rest
       \/ /\ mode = "v1" /\ wire[r] \in Connects
          /\ \E left \in {"byte", "bytes"} : rest' = [rest EXCEPT ![r] = left]
    /\ UNCHANGED <<mode, ctx, cmds, linkVars, kst, to, acceptVars, pool, clpc>>

\* handleCommand refuses what it reads, unanswered, and the loop ends although
\* the connection is up.  Of the rest of an identifier readMsg needs two bytes;
\* a single one waits for the next command's first.  (Left out: a rest that
\* happens to begin like a command, in three of 65536 cases.)
LoopRefuse(r) ==
    /\ lpc[r] = "reading" /\ link[r] # "down"
    /\ \/ /\ wire[r] \in Malformed /\ rest[r] = "none"
          /\ wire' = [wire EXCEPT ![r] = NoCmd]
       \/ /\ rest[r] = "bytes" \/ (rest[r] = "byte" /\ wire[r] # NoCmd)
          /\ UNCHANGED wire
    /\ Exit(r)
    /\ Blame(r, "refused")
    /\ UNCHANGED <<mode, ctx, cmds, rest, link, closers, kst, to, acceptVars, pool, clpc>>

\* The connection is gone.  A control stream this end has closed can still be
\* read, until the dialer closes it too or yamux's close timeout passes.
LoopReadError(r) ==
    /\ lpc[r] = "reading"
    /\ link[r] # "up"
    /\ Exit(r)
    /\ UNCHANGED <<mode, ctx, cmds, rest, linkVars, sendVars, acceptVars, pool, clpc>>

\* handleConnect and handleCustomEvent: the select between the channel ...
LoopQueue(r) ==
    /\ lpc[r] = "queueing"
    /\ Len(cmds[r]) < Cap
    /\ cmds' = [cmds EXCEPT ![r] = Append(@, cur[r])]
    /\ lpc' = [lpc EXCEPT ![r] = "acking"]
    /\ UNCHANGED <<mode, ctx, cur, rest, linkVars, sendVars, acceptVars, pool, clpc>>

\* ... and the context, which returns nil without an answer.
LoopQueueCancelled(r) ==
    /\ lpc[r] = "queueing"
    /\ Done(r)
    /\ lpc' = [lpc EXCEPT ![r] = "top"]
    /\ cur' = [cur EXCEPT ![r] = NoCmd]
    /\ UNCHANGED <<mode, ctx, cmds, rest, linkVars, sendVars, acceptVars, pool, clpc>>

\* The acknowledgement is written.
LoopAck(r) ==
    /\ lpc[r] = "acking"
    /\ link[r] = "up"
    /\ kst' = [kst EXCEPT ![cur[r]] = IF @ = "sent" THEN "answered" ELSE @]
    /\ lpc' = [lpc EXCEPT ![r] = "top"]
    /\ cur' = [cur EXCEPT ![r] = NoCmd]
    /\ UNCHANGED <<mode, ctx, cmds, rest, linkVars, wire, to, acceptVars, pool, clpc>>

LoopAckError(r) ==
    /\ lpc[r] = "acking"
    /\ link[r] # "up"
    /\ Exit(r)
    /\ UNCHANGED <<mode, ctx, cmds, rest, linkVars, sendVars, acceptVars, pool, clpc>>

\* It closes c.conn.  In V2 the loop replaces c.conn by the control stream
\* without synchronisation, so the closer may get either.
Closer(r) ==
    /\ Live(r) /\ Done(r) /\ r \notin closers
    /\ closers' = closers \cup {r}
    /\ \/ TakeDown(r, "none")
       \/ /\ mode # "v1"
          /\ link' = [link EXCEPT ![r] = IF @ = "up" THEN "half" ELSE @]
          /\ UNCHANGED why
    /\ UNCHANGED <<mode, ctx, loopVars, sendVars, acceptVars, pool, clpc>>

-----------------------------------------------------------------------------
(* The dialer *)

\* SendConnectCommand, SendCustomEvent or SendPingCommand on registration r.
Send(k, r) ==
    /\ k \in Offered[mode] /\ kst[k] = "new"
    /\ Live(r)
    /\ \A j \in Cmds : to[j] = r => kst[j] \notin {"sent", "answered"}
    /\ wire' = [wire EXCEPT ![r] = k]
    /\ kst' = [kst EXCEPT ![k] = "sent"]
    /\ to' = [to EXCEPT ![k] = r]
    /\ UNCHANGED <<mode, ctx, loopVars, linkVars, acceptVars, pool, clpc>>

SendAcked(k) ==
    /\ kst[k] = "answered"
    /\ kst' = [kst EXCEPT ![k] = "acked"]
    /\ UNCHANGED <<mode, ctx, loopVars, linkVars, wire, to, acceptVars, pool, clpc>>

\* The write or the read fails, as it only does on a connection this end has
\* closed or lost; RemoveConnection closes the connection.
SendFailed(k) ==
    /\ kst[k] \in {"sent", "answered"}
    /\ link[to[k]] # "up"
    /\ kst' = [kst EXCEPT ![k] = "failed"]
    /\ wire' = [wire EXCEPT ![to[k]] = NoCmd]
    /\ link' = [link EXCEPT ![to[k]] = "down"]
    /\ UNCHANGED <<mode, ctx, loopVars, closers, why, to, acceptVars, pool, clpc>>

\* The network or the dialer ends the connection; Control shows when the dialer
\* does.
Lose(r) ==
    /\ Live(r) /\ link[r] = "up"
    /\ TakeDown(r, "lost")
    /\ UNCHANGED <<mode, ctx, loopVars, closers, sendVars, acceptVars, pool, clpc>>

-----------------------------------------------------------------------------
(* Accept *)

\* ErrListenerClosed, for the context ...
AcceptCtx(a) ==
    /\ apc[a] = "select"
    /\ ctx # "live"
    /\ apc' = [apc EXCEPT ![a] = "over"]
    /\ UNCHANGED <<mode, ctx, loopVars, linkVars, sendVars, acmd, conn, outcome, pool, clpc>>

\* ... or because the channel is closed and empty.
AcceptClosed(a) ==
    /\ apc[a] = "select"
    /\ lpc[Primary] = "exited" /\ cmds[Primary] = <<>>
    /\ apc' = [apc EXCEPT ![a] = "over"]
    /\ UNCHANGED <<mode, ctx, loopVars, linkVars, sendVars, acmd, conn, outcome, pool, clpc>>

\* A command is taken; an event without a handler is an error of Accept.
AcceptCommand(a) ==
    /\ apc[a] = "select"
    /\ cmds[Primary] # <<>>
    /\ cmds' = [cmds EXCEPT ![Primary] = Tail(@)]
    /\ LET k == Head(cmds[Primary]) IN
          \/ /\ k \in Connects \cup Events
             /\ acmd' = [acmd EXCEPT ![a] = k]
             /\ apc' = [apc EXCEPT ![a] = IF k \in Connects THEN "connecting" ELSE "handling"]
             /\ UNCHANGED outcome
          \/ /\ k \notin Connects \cup Events
             /\ outcome' = [outcome EXCEPT ![k] = "refused"]
             /\ UNCHANGED <<apc, acmd>>
    /\ UNCHANGED <<mode, ctx, lpc, cur, rest, linkVars, sendVars, conn, pool, clpc>>

\* The call returns, or for an event goes back to its select.  An application
\* that is not in Accept is one that is slow to take its next step there.
Finish(a, result) ==
    /\ outcome' = [outcome EXCEPT ![acmd[a]] = result]
    /\ acmd' = [acmd EXCEPT ![a] = NoCmd]
    /\ apc' = [apc EXCEPT ![a] = "select"]

HandlerReturns(a) ==
    /\ apc[a] = "handling"
    /\ Finish(a, "served")
    /\ UNCHANGED <<mode, ctx, loopVars, linkVars, sendVars, conn, pool, clpc>>

Streams(r) == Cardinality({k \in Cmds : conn[k] = r})

\* The first of the pool's connections with the fewest streams: Select and
\* scaleDown.
Fewest(i) ==
    /\ \A j \in DOMAIN pool : Streams(pool[i]) <= Streams(pool[j])
    /\ \A j \in DOMAIN pool : j < i => Streams(pool[j]) # Streams(pool[i])

\* The session acceptV2Stream opens its stream on.
Session(r) ==
    \/ mode = "v2" /\ r = Primary
    \/ mode = "pool" /\ \E i \in DOMAIN pool : Fewest(i) /\ pool[i] = r

\* acceptV1Connection dials, acceptV2Stream opens a stream.
Connect(a) ==
    /\ apc[a] = "connecting" /\ MuFree
    /\ \/ /\ mode = "v1" /\ ctx = "live"
          /\ conn' = [conn EXCEPT ![acmd[a]] = "tcp"]
       \/ \E r \in Regs :
             /\ Session(r) /\ link[r] # "down"
             /\ conn' = [conn EXCEPT ![acmd[a]] = r]
    /\ apc' = [apc EXCEPT ![a] = "binding"]
    /\ UNCHANGED <<mode, ctx, loopVars, linkVars, sendVars, acmd, outcome, pool, clpc>>

\* A failed dial cancels the listener's context.
DialFails(a) ==
    /\ apc[a] = "connecting" /\ MuFree
    /\ mode = "v1"
    /\ ctx' = IF ctx = "live" THEN "dialFailed" ELSE ctx
    /\ Finish(a, "refused")
    /\ UNCHANGED <<mode, loopVars, linkVars, sendVars, conn, pool, clpc>>

OpenStreamFails(a) ==
    /\ apc[a] = "connecting" /\ MuFree
    /\ mode # "v1"
    /\ \A r \in Regs : Session(r) => link[r] = "down"
    /\ Finish(a, "refused")
    /\ UNCHANGED <<mode, ctx, loopVars, linkVars, sendVars, conn, pool, clpc>>

\* Client.Bind or bindStream succeeds ...
BindSucceeds(a) ==
    /\ apc[a] = "binding"
    /\ mode # "v1" => link[conn[acmd[a]]] # "down"
    /\ Finish(a, "served")
    /\ UNCHANGED <<mode, ctx, loopVars, linkVars, sendVars, conn, pool, clpc>>

\* ... or fails, and the connection is closed.
BindFails(a) ==
    /\ apc[a] = "binding"
    /\ conn' = [conn EXCEPT ![acmd[a]] = "closed"]
    /\ Finish(a, "refused")
    /\ UNCHANGED <<mode, ctx, loopVars, linkVars, sendVars, pool, clpc>>

\* The application closes what Accept returned.
AppCloses(k) ==
    /\ outcome[k] = "served" /\ conn[k] \notin {"none", "closed"}
    /\ conn' = [conn EXCEPT ![k] = "closed"]
    /\ UNCHANGED <<mode, ctx, loopVars, linkVars, sendVars, apc, acmd, outcome, pool, clpc>>

\* The closer goroutine of Client.Bind waits for the listener's context.
BindCloser(k) ==
    /\ conn[k] = "tcp" /\ outcome[k] # "none" /\ ctx # "live"
    /\ conn' = [conn EXCEPT ![k] = "closed"]
    /\ UNCHANGED <<mode, ctx, loopVars, linkVars, sendVars, apc, acmd, outcome, pool, clpc>>

-----------------------------------------------------------------------------
(* Close, and the pool *)

\* The context given to Listen ends.
CancelParent ==
    /\ ctx = "live"
    /\ ctx' = "cancelled"
    /\ UNCHANGED <<mode, loopVars, linkVars, sendVars, acceptVars, pool, clpc>>

CloseCancel ==
    /\ clpc = "none"
    /\ clpc' = "pool"
    /\ ctx' = IF ctx = "live" THEN "cancelled" ELSE ctx
    /\ UNCHANGED <<mode, loopVars, linkVars, sendVars, acceptVars, pool>>

\* pool.Close closes the sessions of its members; that it may hang instead is
\* shown by module Pool.
ClosePool ==
    /\ clpc = "pool"
    /\ clpc' = "client"
    /\ link' = [r \in Regs |-> IF \E i \in DOMAIN pool : pool[i] = r THEN "down" ELSE link[r]]
    /\ pool' = <<>>
    /\ UNCHANGED <<mode, ctx, loopVars, closers, why, sendVars, acceptVars>>

\* ClientV2.Close and Client.Close up to wg.Wait.
CloseClient ==
    /\ clpc = "client"
    /\ clpc' = "waiting"
    /\ TakeDown(Primary, "none")
    /\ UNCHANGED <<mode, ctx, loopVars, closers, sendVars, acceptVars, pool>>

CloseReturn ==
    /\ clpc = "waiting"
    /\ lpc[Primary] = "exited" /\ Primary \in closers
    /\ clpc' = "done"
    /\ UNCHANGED <<mode, ctx, loopVars, linkVars, sendVars, acceptVars, pool>>

\* scaleUp: createPoolConnection registers under a new identifier.
PoolGrows(r) ==
    /\ mode = "pool" /\ lpc[r] = "none"
    /\ ctx = "live" /\ clpc = "none"
    /\ lpc' = [lpc EXCEPT ![r] = "top"]
    /\ pool' = Append(pool, r)
    /\ UNCHANGED <<mode, ctx, cur, cmds, rest, linkVars, sendVars, acceptVars, clpc>>

\* scaleDown, with MinConnections = 1.
PoolShrinks ==
    /\ Len(pool) > 1
    /\ \E i \in DOMAIN pool :
          /\ Fewest(i)
          /\ TakeDown(pool[i], "scaled")
          /\ pool' = SubSeq(pool, 1, i - 1) \o SubSeq(pool, i + 1, Len(pool))
    /\ UNCHANGED <<mode, ctx, loopVars, closers, sendVars, acceptVars, clpc>>

LoopStep(r) == \/ LoopTop(r) \/ LoopRead(r) \/ LoopRefuse(r) \/ LoopReadError(r)
               \/ LoopQueue(r) \/ LoopQueueCancelled(r)
               \/ LoopAck(r) \/ LoopAckError(r)
SendStep(k) == SendAcked(k) \/ SendFailed(k)
AcceptStep(a) == \/ AcceptCtx(a) \/ AcceptClosed(a) \/ AcceptCommand(a)
                 \/ HandlerReturns(a) \/ Connect(a) \/ DialFails(a)
                 \/ OpenStreamFails(a) \/ BindSucceeds(a) \/ BindFails(a)
CloseStep == ClosePool \/ CloseClient \/ CloseReturn

Next ==
    \/ \E r \in Regs : LoopStep(r) \/ Closer(r) \/ Lose(r) \/ PoolGrows(r)
    \/ \E k \in Cmds : SendStep(k) \/ AppCloses(k) \/ BindCloser(k)
    \/ \E k \in Cmds, r \in Regs : Send(k, r)
    \/ \E a \in Acceptors : AcceptStep(a)
    \/ CancelParent \/ CloseCancel \/ CloseStep \/ PoolShrinks

Spec == Init /\ [][Next]_vars

\* The process' goroutines run, dials and binds end, handlers return, and the
\* application calls Accept again until it is told that the listener is closed.
\* Nobody has to send, close, cancel or lose anything.
Fairness ==
    /\ \A r \in Regs : WF_vars(LoopStep(r)) /\ WF_vars(Closer(r))
    /\ WF_vars(\E k \in Cmds : SendStep(k)) /\ WF_vars(\E k \in Cmds : BindCloser(k))
    /\ \A a \in Acceptors : WF_vars(AcceptStep(a))
    /\ WF_vars(CloseStep)

FairSpec == Spec /\ Fairness

-----------------------------------------------------------------------------
(* Properties *)

\* The places a command can be in between the dialer and Accept.
Holders(k) ==
    {<<"wire", r>> : r \in {q \in Regs : wire[q] = k}} \cup
    {<<"loop", r>> : r \in {q \in Regs : lpc[q] = "queueing" /\ cur[q] = k}} \cup
    {<<"slot", i>> : i \in {j \in 1..Len(cmds[to[k]]) : cmds[to[k]][j] = k}} \cup
    {<<"acceptor", a>> : a \in {b \in Acceptors : acmd[b] = k}} \cup
    {<<"done", o>> : o \in {outcome[k]} \ {"none"}}

\* A command never is in two places: no dial is called back twice, and a command
\* Accept has finished with is not still in the channel.
InOnePlace == \A k \in Cmds : Cardinality(Holders(k)) <= 1

\* What the client acknowledges it has put into the channel before
\* (client.go:335-341, 381-387): from then on it waits there or Accept has it,
\* also when the listener is closed in between.
AckedIsKept ==
    \A k \in Cmds \ Pings :
        kst[k] \in {"answered", "acked"} => Holders(k) # {}

\* The loop of the primary had something to refuse.
Refusable ==
    \/ rest[Primary] # "none" /\ mode = "v1"
    \/ \E k \in Malformed : to[k] = Primary /\ kst[k] # "new"

\* Why a listener may be closed.
Reason ==
    \/ ctx = "cancelled"
    \/ ctx = "dialFailed" /\ mode = "v1"
    \/ why[Primary] = "lost"
    \/ why[Primary] = "refused" /\ Refusable
    \/ why[Primary] = "scaled" /\ mode = "pool"

\* Accept says that the listener is closed only if the caller cancelled it, a V1
\* call back could not be dialed (listener.go:228), the control connection was
\* lost or closed by the dialer, the pool scaled the primary session down, or the
\* loop refused a command (client.go:300-313, 377-379): one the dialer did send
\* malformed, or the rest of an identifier after a short read, which only a TCP
\* connection gives (client.go:325).
ClosedForAReason ==
    (\E a \in Acceptors : apc[a] = "over") => Reason

-----------------------------------------------------------------------------
(* The inductive invariant *)

Queued(r) == {cmds[r][i] : i \in 1..Len(cmds[r])}

\* The loop has passed k on.
Taken(k) ==
    \/ k \in Queued(to[k])
    \/ \E a \in Acceptors : acmd[a] = k
    \/ outcome[k] # "none"

\* A command on the wire was sent there and is nowhere else.
WireInv ==
    \A r \in Regs : wire[r] # NoCmd =>
        /\ to[wire[r]] = r /\ kst[wire[r]] = "sent"
        /\ cur[r] # wire[r] /\ ~Taken(wire[r])

\* The loop answers last: until then the send is waiting or has failed, and
\* when it answers a command that is not a ping the command is passed on.
LoopInv ==
    \A r \in Regs :
        /\ cur[r] # NoCmd <=> lpc[r] \in {"queueing", "acking"}
        /\ cur[r] # NoCmd => to[cur[r]] = r /\ kst[cur[r]] \in {"sent", "failed"}
        /\ lpc[r] = "queueing" => ~Taken(cur[r])
        /\ lpc[r] = "acking" /\ cur[r] \notin Pings => Taken(cur[r])

\* A command is in the channel of the registration it was sent to, once, and
\* not with an acceptor as well; two acceptors never have the same one.
TakenInv ==
    /\ \A r \in Regs : \A i, j \in 1..Len(cmds[r]) : cmds[r][i] = cmds[r][j] => i = j
    /\ \A r \in Regs : \A k \in Queued(r) : to[k] = r /\ outcome[k] = "none"
    /\ \A a \in Acceptors :
          /\ acmd[a] # NoCmd <=> apc[a] \in {"handling", "connecting", "binding"}
          /\ acmd[a] # NoCmd => /\ outcome[acmd[a]] = "none"
                                /\ \A r \in Regs : acmd[a] \notin Queued(r)
    /\ \A a, b \in Acceptors : acmd[a] # NoCmd /\ acmd[a] = acmd[b] => a = b

\* The sender knows of a command that is passed on, and what it got an answer
\* for is passed on.
SenderInv ==
    \A k \in Cmds :
        /\ Taken(k) => kst[k] # "new"
        /\ k \notin Pings /\ kst[k] \in {"answered", "acked"} => Taken(k)

\* Nothing but these reasons takes the primary's link down or ends its loop.
ReasonInv ==
    /\ ctx = "dialFailed" => mode = "v1"
    /\ clpc # "none" => ctx # "live"
    /\ pool # <<>> => mode = "pool"
    /\ \A r \in Regs : rest[r] # "none" => mode = "v1"
    /\ \A r \in Regs : link[r] = "up" => why[r] \in {"none", "refused"}
    /\ why[Primary] = "refused" => Refusable
    /\ link[Primary] # "up" => Reason
    /\ lpc[Primary] = "exited" => Reason
    /\ ClosedForAReason

Conveyance == WireInv /\ LoopInv /\ TakenInv /\ SenderInv

IndInv == TypeOK /\ Conveyance /\ ReasonInv

-----------------------------------------------------------------------------
(* Liveness *)

\* What the listener's own registration acknowledged reaches the application,
\* even if the control connection is lost while the command is in the channel,
\* unless the listener's context ends.
Unserved == \E k \in Cmds \ Pings :
                kst[k] = "acked" /\ to[k] = Primary /\ outcome[k] = "none"
AckedIsServed == Unserved ~> (~Unserved \/ ctx # "live")

\* A full channel only delays: as long as Accept is called, every command sent to
\* the listener's own registration is acknowledged or fails, and the dialer's
\* lock on it becomes free again.
Sending == \E k \in Cmds : kst[k] \in {"sent", "answered"} /\ to[k] = Primary
SendReturns == Sending ~> ~Sending

\* Close returns, whatever the loop is doing (reading, waiting for a slot or
\* acknowledging) and whatever Accept holds, and every caller of Accept learns
\* that the listener is closed, although Close waits with c.mu held and Accept
\* needs it to call back.
CloseEndsAll ==
    (clpc # "none") ~> (clpc = "done" /\ \A a \in Acceptors : apc[a] = "over")

\* Nothing that Accept returned outlives a closed listener, not even what a call
\* that overlaps Close returns after it.
Ended(k) == conn[k] \in {"none", "closed"} \/ (conn[k] \in Regs /\ link[conn[k]] = "down")
ConnsEnd == (clpc = "done") ~> [](\A k \in Cmds : outcome[k] = "served" => Ended(k))

=============================================================================

# revdial: a TLA+ model of the reverse dialer

revdial lets a process behind a firewall accept connections: the *listener*
connects out to the *dialer*, registers, and keeps that control connection. When
somebody calls `Dialer.DialContext`, the dialer sends a `connect` command with a
fresh UUID over a control connection; the listener calls back (a new TCP
connection in V1, a new yamux stream in V2), presents the UUID in a `bind`
command, and the dialer hands that connection to the waiting caller.

Almost everything that can go wrong is an interleaving of goroutines, so this
project models the goroutines, their locks, contexts and channels, and leaves out
bytes. Source paths below are relative to the repository.

## Inventory

| Component | State | Operations | Interacts with |
|---|---|---|---|
| Connection manager, `connmng/manager.go` | list of `ServerConn`, round-robin index, `RWMutex` | `AddConnection`, `RemoveConnection`, `GetConn`, `Close` | called by every goroutine of the dialer; closes servers under its lock |
| Dialer rendezvous, `dialer.go` | map of requests (UUID to context and one-slot channel), listener, `ctx`, wait group, `d.mu` | `Start`, `Stop`, `DialContext`, `serve`, `handleConnection` and its watcher goroutine, `handleV2Stream`, `addRequest`, `removeRequest` | requests are shared by dialing callers and connection handlers; `Stop` holds `d.mu` |
| Dialer control connections, `dialer.go`, `proto/server.go`, `proto/server_v2.go` | server state, `s.mu` | `handleV1/V2RegisteredConnection`, `SendEvent`, `SendConnectCommand`, `SendCustomEvent`, `State`, `Close` | nests `cm.mu`, `s.mu` and the wait group |
| Server handshake, `proto/server*.go` | connected, processing, registered or bound | authentication, register, bind, mux init | ends in one of the outcomes the dialer switches on |
| Client, `proto/client*.go` | session, `c.conn`, command channel of ten slots, `c.mu` | `Register`, `Bind`, command loop, closer goroutines, `Close` | answers the dialer's commands |
| Listener, `listener.go` | client, optional pool, event handlers, `l.ctx` | `Listen`, `Accept`, `Close`, `createPoolConnection` | reads the client's commands, opens streams from the pool |
| Pool, `pool/` | connections, metrics, cooldown, monitor goroutine, `p.mu` | `Start`, `AddConnection`, `RemoveConnection`, `OpenStream`, `Close`, scaling | calls back into the listener to create a connection |
| MuxConn, `pool/mux_conn.go` | closed flag, `m.mu`, stream counter | `OpenStream`, `AcceptStream`, `Close` | used by the pool |
| Commands, options, mux configuration | none at run time | constructors and validation | |

What makes each part correct, and hard:

* Manager: one connection per UUID, owned until closed; `GetConn` updates its
  index under a *read* lock.
* Rendezvous: a dial gets at most one connection, its own; nothing leaks when a
  context ends just as the connection arrives; nothing blocks on the channel.
* Control connections: a dead listener leaves, a live one stays, and no chain of
  `cm.mu`, `s.mu`, an unanswered command and `wg.Wait` closes into a circle.
* Pool: bounded, counted without drift, and closable while the monitor scales.
* Handshake: nobody in without credentials, both ends agree on the outcome, and
  without a deadline anywhere no end waits for the other forever.
* Client and listener: no acknowledged command lost between the ten-slot channel
  and `Accept`, whatever ends the loop; `Close` returns and leaves nothing open.

`PROJECT.json` lists every place where one of these can go wrong under "hazards".

## Modules

| Module | Role |
|---|---|
| `ConnManager`, `MCConnManager`, `ConnManagerProofs` | `connmng.ConnManager` |
| `Rendezvous` | abstract specification: what `DialContext` promises |
| `Dialer`, `MCDialer`, `DialerProofs` | the rendezvous; implements `Rendezvous` |
| `Control`, `MCControl`, `ControlProofs` | registered control connections, senders, `Stop` |
| `Pool`, `MCPool`, `PoolProofs` | pool, monitor, scaler, selector, counters |
| `Handshake`, `MCHandshake`, `HandshakeProofs` | one handshake: `Register`, `Bind`, `ClientV2.Register` against `Process` |
| `Listener`, `MCListener`, `ListenerProofs` | a registered listener: command loops, channel, `Accept`, `Close`, pool registrations |
| `SequenceLemmas` | facts about slices the proofs share: append, replace, removal from the middle |

The dialer's side (ConnManager, Dialer, Control) and the listener's (Listener,
Pool) meet in two places: the handshake, which Handshake has for both ends, and
the commands on a control connection, where each side's module reduces the other
to what it may do: in Control a listener answers, stays silent or is lost; in
Listener a dialer sends one command at a time, waits for the answer without a
deadline and closes the connection when that fails.

**ConnManager.** The operations that hold the lock exclusively are one action
each. `GetConn` is three: the pick (line 84, with Go's index panic as an outcome),
the second read of `b.current`, and the store (line 85). `current` keeps Go's
zero-based index. `recent` is history for the rotation property: it restarts when
membership changes or when two calls overlap, because overlapping calls do lose
increments: two of them may return the same connection.

**Dialer.** Program counters for `DialContext` (`dpc`), for the handler of every
TCP connection and stream (`hpc`) and for the handshake watcher (`wpc`). A dial
stands for the UUID it draws. Each select is an action per case, so that when
both cases are ready either is taken. The watcher distinguishes "has not reached
its select yet" from "parked in it", which is what decides whether it can see both
of its channels ready. `d.mu` is free unless `Stop` is in `wg.Wait`; every other
critical section is a single action. `Process` is reduced to its outcomes: error
(with or without closing), registered, or bound with the UUID of a dial whose
command was sent. What happens to a registered connection is in Control; here a
dial may find one or not and its send may fail at any time, and a stream may
arrive as long as a control connection was registered.

**Control.** The same dialer seen from its control connections. `gpc[r]` follows
the handler of a registered server through `AddConnection` and then the keeper
goroutine it starts; `kpc[r]` is the V2 goroutine that closes the session; `spc`
are calls of `DialContext` and `SendEvent` to their return. `s.mu` (held for a
whole command, from write to answer), `cm.mu` (held by
`AddConnection`/`RemoveConnection` while `Close` waits for `s.mu`) and `d.mu` (held
by `Stop` in `wg.Wait`; a dial needs it in `addRequest`, before it sends, and in its
deferred `removeRequest`) are derived from these counters: `SmuFree`, `CmuFree`,
`DmuFree`. So a dial that has not published its request when `Stop` begins waits
for `Stop`; only one that has, and an event, can be sending during it. How a dial
gets its connection is Dialer's; here it waits in its select for as long as it
likes. The manager is the set of its members.
`Silent` listeners keep the connection and never answer.

**Pool.** `p.mu` is free unless `Close` waits for the monitor. `scaleUp` is split
where it releases the lock to dial, `OpenStream` where it leaves the lock with its
selection, and each counter moves in a step of its own. Latency is one of three
classes (below half the threshold, between, above); the cooldown is a flag that
time sets. `dropped` is history: connections `scaleUp` created and could not add.

**Handshake.** One connection, every configuration of the two ends (operation,
credentials, V1 or V2 server, the two authentication options) chosen initially.
Each direction is a queue of fields written and not yet read; `cpc` and `spc` say
which read an end waits at. `Read` without `io.ReadFull` may return part of a
credential or UUID (`ReadTokenShort`, `ReadUUIDShort`), which leaves the rest to
the next read. Either end's closer goroutine may close the connection under a
blocked read; the network may break; a process may stop running. `cancelled` is
history: the caller ended the context itself, as opposed to the cancellations that
follow from a failed `Register`; `CompatibleSucceeds` excuses the first only.

**Listener.** Starts where `Listen` returned. For each registration `lpc` follows
the client's command loop (`top`, `reading`, `queueing`, `acking`), `cmds` is its
channel, `closers` the goroutines that close `c.conn` when the context ends. The
loop of a V2 client replaces `c.conn` by the control stream without a lock, so its
closer may get the session's connection (`down`) or only the stream (`half`): both
are outcomes of `Closer`. Acceptors take commands from the listener's own channel
and call back; the sessions they may use follow `Pool.OpenStream`. `why` is history:
what ended a registration first. `LoopRefuse` has the ends of the loop on a
connection that is up: a `Malformed` command (another version, an unknown type, an
event that is not JSON), and the rest of an identifier. That rest exists because
`handleConnect` reads the identifier with a plain `Read`, which on a V1 connection
may return a part of it (`rest`): the command is queued with a wrong identifier and
acknowledged, and what is left is taken for the next command as soon as two bytes
of it, or one and the first of the next command, are there. On a yamux stream the
command arrives as one frame and is read whole. Left out: a rest whose first two
bytes happen to be one of the three commands, and `pool.Close` hanging (which is
Pool's).

## Runs

| Run | Instance | What it shows |
|---|---|---|
| `manager_race` | 4 connections, 3 UUIDs (one re-registered), 3 callers | `UniqueIDs`, `ClosedIffLeft`, `RoundRobin`, `OnlyShrinkingBreaksIndex` |
| `manager_panic` | the same, 1 caller | finding: `GetConn` panics after a removal |
| `dialer_safety` | 2 dials, 1 TCP connection (the session), 2 streams | `OneOwner`, `OwnConnection`, `StreamClosedOrDelivered`, refinement of `Rendezvous` |
| `dialer_live` | 1 dial, 2 TCP connections, fairness | `CancelledDialReturns`, `RejectedConnClosed`, `BindHandlerEnds` |
| `dialer_watcher` | 1 dial, 1 connection | finding: the watcher may close a connection that was registered or delivered |
| `control` | 2 servers sharing an identifier (V1 and V2), 2 senders, fairness | `ListedHaveKeeper`, `ListedAreOpen`, `StopReturns`, `EmptyAfterStop`, `DeadV2Leaves`, `SendersReturn` |
| `control_silent` | 1 silent server, 1 dial, fairness | finding: `Stop` never returns if the dial's command was sent before it |
| `control_reregister` | 2 V2 servers sharing an identifier | finding: the old keeper removes the new registration |
| `pool_safety` | 3 connections, capacity 2, 3 openers, thresholds 1 and 2 | `CapacityRespected`, `PooledAreOpen`, `CountersAgree`, `NothingOpenAfterClose` |
| `pool_hang` | 3 connections, capacity 2, fairness | finding: `Close` and the monitor wait for each other |
| `handshake` | every configuration of both ends, fairness | `AuthRespected`, `Agreement`, `CompatibleSucceeds`, `HandshakeEnds`, `CancelledEndsReturn`, `FailedEndsClose` |
| `listener` | V1, V2 and pool; a connect, two events, a ping, a malformed command; a channel of 1 slot; 1 acceptor; 2 registrations; fairness | `InOnePlace`, `AckedIsKept`, `ClosedForAReason`, `AckedIsServed`, `SendReturns`, `CloseEndsAll`, `ConnsEnd` |

`CHECK_DEADLOCK FALSE` is set throughout: every system here may come to rest (all
dials done, dialer stopped, pool closed).

**Bounds.** In the manager two connections share a UUID, so replacement happens,
and three callers allow one to store an index that two others have overtaken. In
the dialer one TCP connection has to register before anything is asked for; two
streams then bind for the two dials, both for the same one included, and in the
second run a second TCP connection does (a TCP connection and a stream competing
for one dial are covered by the proofs only); bounding each object to a single life (a connection handled once,
a dial called once) is what keeps the models finite, and no counter needs another
bound. In Control the two servers replace each other while two senders, one
of them with an event, compete for `s.mu` and `cm.mu`; for more servers the safety
properties are proved. In Handshake the configurations are all there are, and no
queue ever holds more than one message. In Listener one slot instead of ten makes
the channel full after one command; `Offered` names which commands each mode gets:
two that are queued, so that a loop waits for a slot while another command waits in
it, in V1 (where reads come short) a ping as well and in V2 a malformed command;
with a pool one connect, sent to either of the two
registrations. In the pool three connections
over a capacity of two allow an outside `AddConnection` to overtake `scaleUp`,
and three openers on one connection exceed the scale-up threshold of two.
Openers (and, for safety, dials, TCP connections and streams) are symmetric.

**Fairness.** Weak fairness of goroutine steps that wait for nothing but locks,
channels and contexts of the process itself: Go's scheduler runs every runnable
goroutine, and its mutexes hand the lock to a waiter that has waited long enough.
The remote side gets none, except that in Control a listener that is neither
silent nor gone answers its commands (but nothing has to end the wait of a dial for
its connection), in Handshake either process runs until it
stalls, and in Listener dials and binds end (the dialer's handler answers or
closes) and the application calls `Accept` until it reports a closed listener. Nobody is obliged to dial, cancel, stop,
register or break a connection. In the pool the ticker ticks, cooldowns pass, and
the monitor's select, offered its context case again and again, takes it in the
end (strong fairness: `select` chooses at random); `pool_hang` fails even so.

## Proofs

Every invariant that a passing run checks, the action property of the manager and
the refinement of `Rendezvous` are theorems: they hold for every value of the
constants under the named assumptions of the modules. Those say that identifiers
and configurations are of the right kind (`IDAssumption`, `SubsetsAssumption`,
`ConfigAssumption`, `BoundsAssumption`), that the values standing for "none" are
not members (`ConnsAssumption`, `DialsAssumption`, `RegsAssumption`,
`CmdsAssumption`), and, in Pool, that there are finitely many openers
(`OpenersAssumption`: a Go process has finitely many goroutines, and a counter of
infinitely many streams means nothing). Each proof has the same shape: `IndInv`
holds initially, one lemma per action or group of actions shows that it is kept,
and the properties follow from it. Every `IndInv` was checked by TLC on the run's
instance before it was proved.

* `ConnManagerProofs`: `TypeCorrect`, `IDsStayUnique`, `OwnershipOfConnections`
  from `IndInv`, which adds to them that listed connections were added and that a
  caller inside `GetConn` saw a non-empty list (so the modulus is not zero).
  `RaceKeepsIndexValid` proves the action property: whatever the racing callers
  do, `current` leaves its range only in a step that shortens the list.
  `RotationTheorem` (`RoundRobin`) needs `Rotation` on top of it: the picks in
  `recent` are consecutive positions of the circular list, ending at some `last`,
  and the index is the one after `last`, or still `last` and in the hands of the
  single caller that made that pick. A window no longer than the list visits
  distinct positions, and `UniqueIDs` makes these distinct connections.
* `DialerProofs`: `SingleOwner` and `NoCrossedConnections`. Neither is inductive
  alone; `IndInv` adds that bids were asked for, that asked dials have published
  their request, that a request in the map has a caller, and that a caller still
  waiting has no result. `StreamsClosedOrDelivered` adds `RunningStreamsOpen`: a
  stream whose handler runs is neither closed nor delivered. `Refinement` maps
  every step to a step of `Rendezvous` or a stutter (`claim <- bid`).
* `ControlProofs`: `EveryListedHasKeeper`, `NoClosedConnectionListed` and
  `OneConnectionPerID`;
  `IndInv` adds uniqueness of identifiers, that a server not yet added is
  untouched, and that closers act only after `d.ctx` ended.
* `PoolProofs`: `CapacityTheorem`, `PooledAreOpenTheorem`, `CountersTheorem`,
  `CloseTheorem`. `Whereabouts` says that a connection that exists is listed,
  closed, dropped or the one `scaleUp` is about to add (`fresh`), which is open and
  in no list: without it `scaleUp` could add what was already closed. `MonitorLife`
  ties `fresh` to the monitor's step and says that after `Close` the monitor is
  gone and the list holds only what outsiders added: that is why waiting for the
  monitor makes `NothingOpenAfterClose` true (of a `Close` that returns: with the
  monitor inside `scaleUp` it does not, `pool_hang`). `CountersAgree` is exact (each
  counter *is* a number of openers), so that it needs nothing but types; every
  step of an opener adds one member to the counted set or takes one out.
* `ListenerProofs`: `InOnePlaceTheorem`, `AckedIsKeptTheorem`, `ReasonTheorem`.
  `WireInv`, `LoopInv`, `TakenInv` and `SenderInv` follow a command: on the wire it
  is nowhere else; the loop has it until it is queued; then it is in one slot of one
  channel, with one acceptor, or finished; the answer goes out last, so what was
  answered was passed on before. A send may fail while its command travels on,
  which is why the sender's view is stated separately. `ReasonInv` accounts for
  every step that takes the primary link down or ends its loop; that a refused
  command was there to refuse (`Refusable`) comes from `WireInv`, and stays true
  because commands stay sent and nothing reads away a rest (`RefusableStays`). The
  channel's bound
  is part of `TypeOK`, for any number of slots.
* `HandshakeProofs`: `AuthTheorem`, `AgreementTheorem`. The constants of Handshake
  have finitely many values, all of them checked; the proof says why the protocol
  works: `ServerView` and `ClientView` state for each read of each end what may be
  in the two queues, so at most one exchange is under way, and the last answer finds
  both queues empty except for the rest a short read of the identifier leaves.

Only model-checked: the properties under fairness (`~>` and `<>[]`: all of
`dialer_live`, `StopReturns`, `EmptyAfterStop`, `DeadV2Leaves`, `SendersReturn`, and
the liveness of Handshake and Listener), which are beyond this prover, as is
ENABLED; and the five violations, which are TLC's counterexamples.

## Findings

Five, each with its run and the line of the repository it contradicts, in
`PROJECT.json`: the `GetConn` index panic; the watcher that closes a connection in
use; the silent listener that makes `Stop` hang when a command to it is in flight; re-registration that loses the
new connection; the pool's `Close` deadlock. Seen while modelling, without a run
of their own:

* overlapping `GetConn` calls may return the same connection (`manager.go:85`);
* a cancelled `DialContext` may still return a connection (`dialer.go:146`), and
  does not look at its context while it sends (`dialer.go:139`);
* a connection that a handler puts into the one-slot channel while its dial leaves
  through the `ctx` case, or after its send failed, stays there: nothing receives
  or closes it (`dialer.go:249`);
* `SendEvent` drops a healthy connection when the event cannot be encoded
  (`dialer.go:169`);
* the scaler does not restore `MinConnections` unless the pool is empty
  (`scaler.go:52`);
* scaling down picks the *first* connection with the fewest streams, which in an
  idle pool is the listener's primary session (`pool.go:335-353`): closing it ends
  the command stream, and `Accept` reports a closed listener although nobody closed
  it. `ClosedForAReason` has this among its reasons;
* every connection of the pool registers as a listener of its own
  (`listener.go:124`), so the dialer's rotation sends it commands, and `Accept`
  reads only the primary's channel: those dials time out, and after ten of them the
  next one gets no acknowledgement. `AckedIsServed` and `SendReturns` are therefore
  stated for the primary registration;
* a single failed V1 call back cancels the whole listener (`listener.go:228`);
* `WithEnableV2` promises a fallback to V1 (`listener.go:381-382`), which
  `ClientV2.Register` does not attempt (`client_v2.go:80-83`);
* a plain `Read` of a UUID or a credential may come short and is taken as whole
  (`server.go:289`, `304`, `347`, `379`, `client.go:325`, `dialer.go:362`); in
  `client.go:325` the rest then ends the command loop, and the listener with it,
  although the connection is up (`ClosedForAReason` has it among its reasons).

## Not modelled

Lengths and layouts below the level of fields; JSON payloads; TLS; options; event
names; `mux.Config` (defaults handed to yamux; its `Validate` has no caller in the
library); yamux itself (a session opens streams until it ends). A second `Start` of the same dialer
or pool, and a second `Close` of the pool or the listener. The panic
`sync.WaitGroup` may raise when `Add` races `Wait`. Traffic on a delivered
connection. `MuxConn.AcceptStream`, `ClientV2.Bind` and `SendPingCommand`'s use:
the library offers them and calls none of them (a ping that arrives is answered in
Listener).

## Plan

1. Done: ConnManager, Rendezvous and Dialer, Control, Pool; the proofs above.
2. Done: Handshake (both ends) and Listener (client loop, `Accept`, `Close`, the
   pool's registrations).
3. Done: proofs of every invariant of Pool, Handshake and Listener, and of the
   manager's rotation.
4. Restarts of the dialer; a composition of Control with Listener over one channel
   of commands.

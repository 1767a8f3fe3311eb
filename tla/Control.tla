------------------------------- MODULE Control -------------------------------
(***************************************************************************)
(* The dialer's control connections: how registered listeners enter and    *)
(* leave the connection manager, how DialContext and SendEvent use them,   *)
(* and how Stop gets rid of them (dialer.go:108-174, 228-322).             *)
(*                                                                         *)
(* Three locks matter.  A server's s.mu is held for a whole command, from  *)
(* the write to the listener's answer, and Server.Close takes it; the      *)
(* manager's b.mu (called cm.mu here) is held while AddConnection and      *)
(* RemoveConnection close a connection.  So b.mu can wait for a listener   *)
(* through s.mu.  Stop keeps d.mu while it waits for the keepers, and a    *)
(* dial needs it before it sends and before it returns.  All locks are     *)
(* derived from where the goroutines are.                                  *)
(*                                                                         *)
(* The manager is abstracted to the set of its connections, any of which   *)
(* GetConn may pick; ConnManager has the list and its rotation.            *)
(***************************************************************************)
EXTENDS FiniteSets

CONSTANTS
    Regs,       \* servers whose handshake may end in StateRegistered
    UUIDs,      \* registration identifiers
    ID,         \* ID[r]: the identifier r registers with
    V2,         \* the servers that run over a yamux session
    Silent,     \* the servers whose listener keeps the connection up but
                \* never answers a command
    Senders,    \* calls of DialContext and of SendEvent
    Events,     \* the SendEvent calls among them
    NoReg

ASSUME RegsAssumption == ID \in [Regs -> UUIDs] /\ NoReg \notin Regs
ASSUME SubsetsAssumption ==
    V2 \subseteq Regs /\ Silent \subseteq Regs /\ Events \subseteq Senders

VARIABLES
    stop,       \* of Stop: "running", "stopping" (in wg.Wait), "stopped"
    ctxDone,    \* d.ctx is cancelled
    list,       \* the connections in d.cm
    state,      \* the Server's state
    closed,     \* servers whose Close ran
    lost,       \* servers whose transport the listener broke
    gpc,        \* the handler up to AddConnection, then the goroutine it starts
    kpc,        \* the V2 goroutine that closes the session (lines 300-306)
    spc,        \* where each sender is
    sel         \* the server GetConn gave it

vars == <<stop, ctxDone, list, state, closed, lost, gpc, kpc, spc, sel>>

-----------------------------------------------------------------------------
(* State *)

\* "replacing" and "dropping" hold cm.mu and wait for the s.mu of the server
\* to be closed.
KeeperPCs == {"none", "adding", "replacing", "watching", "removing", "dropping",
              "exited"}
CloserPCs == {"none", "live", "closing", "exited"}
\* Past "ready" a dial publishes its request and is "asking"; with its command
\* acknowledged it is "waiting" for a connection, and "leaving" it takes its
\* request back.  An event goes from "ready" to "sending" and needs no d.mu.
SenderPCs == {"idle", "picked", "ready", "asking", "sending", "failed", "dropping",
              "waiting", "leaving", "done"}

TypeOK ==
    /\ stop \in {"running", "stopping", "stopped"}
    /\ ctxDone \in BOOLEAN
    /\ list \subseteq Regs
    /\ state \in [Regs -> {"processing", "registered", "disconnected"}]
    /\ closed \subseteq Regs
    /\ lost \subseteq Regs
    /\ gpc \in [Regs -> KeeperPCs]
    /\ kpc \in [Regs -> CloserPCs]
    /\ spc \in [Senders -> SenderPCs]
    /\ sel \in [Senders -> Regs \cup {NoReg}]
    /\ \A s \in Senders : spc[s] \notin {"idle", "done"} => sel[s] \in Regs

Init ==
    /\ stop = "running"
    /\ ctxDone = FALSE
    /\ list = {}
    /\ state = [r \in Regs |-> "processing"]
    /\ closed = {}
    /\ lost = {}
    /\ gpc = [r \in Regs |-> "none"]
    /\ kpc = [r \in Regs |-> "none"]
    /\ spc = [s \in Senders |-> "idle"]
    /\ sel = [s \in Senders |-> NoReg]

\* A mutant of the next definition: the lock is kept until the call returns.
SmuFreeOnReturn(r) ==
    \A s \in Senders : spc[s] \in {"sending", "failed", "dropping"} => sel[s] # r

\* s.mu of server r: a command is in flight on it.
SmuFree(r) == \A s \in Senders : spc[s] = "sending" => sel[s] # r

\* cm.mu
CmuFree ==
    /\ \A r \in Regs : gpc[r] \notin {"replacing", "dropping"}
    /\ \A s \in Senders : spc[s] # "dropping"

\* d.mu, which Stop keeps during wg.Wait; its other holders release it in the
\* step that takes it.
DmuFree == stop # "stopping"

\* The managed connections with identifier id (at most one).
Matching(id) == {r \in list : ID[r] = id}

Dead(r) == r \in closed \cup lost

\* ServerV2.Close; blocks on s.mu while a command is in flight.
CloseServer(r) ==
    /\ SmuFree(r)
    /\ state' = [state EXCEPT ![r] = "disconnected"]
    /\ closed' = closed \cup {r}

\* The body of RemoveConnection(ID[r]) after cm.mu is held.
Drop(id) ==
    \E r \in Matching(id) :
        /\ CloseServer(r)
        /\ list' = list \ {r}

-----------------------------------------------------------------------------
(* Mutants: one plausible slip per property, substituted by the checks. *)

ReplaceKeepingOld(r) ==
    /\ gpc[r] = "replacing"
    /\ list' = list \cup {r}
    /\ gpc' = [gpc EXCEPT ![r] = "watching"]
    /\ kpc' = [kpc EXCEPT ![r] = IF r \in V2 THEN "live" ELSE @]
    /\ \E old \in Matching(ID[r]) : CloseServer(old)
    /\ UNCHANGED <<stop, ctxDone, lost, spc, sel>>

RemoveUnlisted(r) ==
    /\ gpc[r] = "removing"
    /\ gpc' = [gpc EXCEPT ![r] = "exited"]
    /\ UNCHANGED <<stop, ctxDone, list, state, closed, lost, kpc, spc, sel>>

WatchV1Forever(r) ==
    /\ gpc[r] = "watching"
    /\ r \in V2
    /\ ctxDone
    /\ gpc' = [gpc EXCEPT ![r] = "removing"]
    /\ UNCHANGED <<stop, ctxDone, list, state, closed, lost, kpc, spc, sel>>

AcceptStreamSpins(r) ==
    /\ gpc[r] = "watching"
    /\ r \in V2
    /\ Dead(r)
    /\ ctxDone
    /\ gpc' = [gpc EXCEPT ![r] = "removing"]
    /\ UNCHANGED <<stop, ctxDone, list, state, closed, lost, kpc, spc, sel>>

PickUnchecked(s) ==
    /\ spc[s] = "idle"
    /\ CmuFree
    /\ \/ /\ list = {}
          /\ spc' = [spc EXCEPT ![s] = "picked"]
          /\ UNCHANGED sel
       \/ \E r \in list :
             /\ sel' = [sel EXCEPT ![s] = r]
             /\ spc' = [spc EXCEPT ![s] = "picked"]
    /\ UNCHANGED <<stop, ctxDone, list, state, closed, lost, gpc, kpc>>

-----------------------------------------------------------------------------
(* Registration *)

\* Process returned with StateRegistered; the handler calls AddConnection next.
Register(r) ==
    /\ gpc[r] = "none"
    /\ gpc' = [gpc EXCEPT ![r] = "adding"]
    /\ state' = [state EXCEPT ![r] = "registered"]
    /\ UNCHANGED <<stop, ctxDone, list, closed, lost, kpc, spc, sel>>

\* AddConnection takes cm.mu; without a connection to replace it appends, and
\* the handler starts the keeper goroutine (and, for V2, the closer).
Add(r) ==
    /\ gpc[r] = "adding"
    /\ CmuFree
    /\ \/ /\ Matching(ID[r]) = {}
          /\ list' = list \cup {r}
          /\ gpc' = [gpc EXCEPT ![r] = "watching"]
          /\ kpc' = [kpc EXCEPT ![r] = IF r \in V2 THEN "live" ELSE @]
       \/ /\ Matching(ID[r]) # {}
          /\ gpc' = [gpc EXCEPT ![r] = "replacing"]
          /\ UNCHANGED <<list, kpc>>
    /\ UNCHANGED <<stop, ctxDone, state, closed, lost, spc, sel>>

\* It closes the connection it replaces.
Replace(r) ==
    /\ gpc[r] = "replacing"
    /\ \E old \in Matching(ID[r]) :
          /\ CloseServer(old)
          /\ list' = (list \ {old}) \cup {r}
    /\ gpc' = [gpc EXCEPT ![r] = "watching"]
    /\ kpc' = [kpc EXCEPT ![r] = IF r \in V2 THEN "live" ELSE @]
    /\ UNCHANGED <<stop, ctxDone, lost, spc, sel>>

-----------------------------------------------------------------------------
(* The keeper goroutine of a registered connection *)

\* V1: it waits for d.ctx only.
WatchV1(r) ==
    /\ gpc[r] = "watching"
    /\ r \notin V2
    /\ ctxDone
    /\ gpc' = [gpc EXCEPT ![r] = "removing"]
    /\ UNCHANGED <<stop, ctxDone, list, state, closed, lost, kpc, spc, sel>>

\* V2: AcceptStream fails once the session is dead; the deferred close(done)
\* comes before the deferred RemoveConnection.
AcceptStreamError(r) ==
    /\ gpc[r] = "watching"
    /\ r \in V2
    /\ Dead(r)
    /\ gpc' = [gpc EXCEPT ![r] = "removing"]
    /\ UNCHANGED <<stop, ctxDone, list, state, closed, lost, kpc, spc, sel>>

\* RemoveConnection(s.ID()) takes cm.mu and looks for the identifier ...
Remove(r) ==
    /\ gpc[r] = "removing"
    /\ CmuFree
    /\ gpc' = [gpc EXCEPT ![r] =
                  IF Matching(ID[r]) = {} THEN "exited" ELSE "dropping"]
    /\ UNCHANGED <<stop, ctxDone, list, state, closed, lost, kpc, spc, sel>>

\* ... closes what it found, takes it off the list, and wg.Done runs.
RemoveDrop(r) ==
    /\ gpc[r] = "dropping"
    /\ Drop(ID[r])
    /\ gpc' = [gpc EXCEPT ![r] = "exited"]
    /\ UNCHANGED <<stop, ctxDone, lost, kpc, spc, sel>>

\* The V2 closer takes the ctx case of its select, or the done case.
CloserWakes(r) ==
    /\ kpc[r] = "live"
    /\ \/ ctxDone /\ kpc' = [kpc EXCEPT ![r] = "closing"]
       \/ /\ gpc[r] \in {"removing", "dropping", "exited"}
          /\ kpc' = [kpc EXCEPT ![r] = "exited"]
    /\ UNCHANGED <<stop, ctxDone, list, state, closed, lost, gpc, spc, sel>>

CloserCloses(r) ==
    /\ kpc[r] = "closing"
    /\ CloseServer(r)
    /\ kpc' = [kpc EXCEPT ![r] = "exited"]
    /\ UNCHANGED <<stop, ctxDone, list, lost, gpc, spc, sel>>

-----------------------------------------------------------------------------
(* DialContext and SendEvent *)

\* GetConn; "no connection is available" when it gives nil.
Pick(s) ==
    /\ spc[s] = "idle"
    /\ CmuFree
    /\ \/ /\ list = {}
          /\ spc' = [spc EXCEPT ![s] = "done"]
          /\ UNCHANGED sel
       \/ \E r \in list :
             /\ sel' = [sel EXCEPT ![s] = r]
             /\ spc' = [spc EXCEPT ![s] = "picked"]
    /\ UNCHANGED <<stop, ctxDone, list, state, closed, lost, gpc, kpc>>

\* State() takes s.mu for reading.
CheckState(s) ==
    /\ spc[s] = "picked"
    /\ SmuFree(sel[s])
    /\ spc' = [spc EXCEPT ![s] =
                  IF state[sel[s]] = "registered" THEN "ready" ELSE "done"]
    /\ UNCHANGED <<stop, ctxDone, list, state, closed, lost, gpc, kpc, sel>>

\* addRequest, in DialContext only.
AddRequest(s) ==
    /\ spc[s] = "ready" /\ s \notin Events
    /\ DmuFree
    /\ spc' = [spc EXCEPT ![s] = "asking"]
    /\ UNCHANGED <<stop, ctxDone, list, state, closed, lost, gpc, kpc, sel>>

\* SendConnectCommand and SendCustomEvent lock s.mu, test the state again and
\* write; an event whose name or payload cannot be encoded fails before that.
Send(s) ==
    /\ spc[s] = IF s \in Events THEN "ready" ELSE "asking"
    /\ SmuFree(sel[s])
    /\ \/ /\ state[sel[s]] = "registered"
          /\ spc' = [spc EXCEPT ![s] = "sending"]
       \/ /\ state[sel[s]] # "registered" \/ Dead(sel[s]) \/ s \in Events
          /\ spc' = [spc EXCEPT ![s] = "failed"]
    /\ UNCHANGED <<stop, ctxDone, list, state, closed, lost, gpc, kpc, sel>>

\* Where a call goes that is through with the control connection: SendEvent
\* returns, DialContext runs its deferred removeRequest.
Through(s) == IF s \in Events THEN "done" ELSE "leaving"

\* The listener answers, with success or with something else.
Answer(s) ==
    /\ spc[s] = "sending"
    /\ sel[s] \notin Silent \cup lost
    /\ \/ spc' = [spc EXCEPT ![s] = IF s \in Events THEN "done" ELSE "waiting"]
       \/ spc' = [spc EXCEPT ![s] = "failed"]
    /\ UNCHANGED <<stop, ctxDone, list, state, closed, lost, gpc, kpc, sel>>

\* Reading the answer fails: the transport is gone.
ReadError(s) ==
    /\ spc[s] = "sending"
    /\ Dead(sel[s])
    /\ spc' = [spc EXCEPT ![s] = "failed"]
    /\ UNCHANGED <<stop, ctxDone, list, state, closed, lost, gpc, kpc, sel>>

\* After a failed send: RemoveConnection(s.ID()).
RemoveFailed(s) ==
    /\ spc[s] = "failed"
    /\ CmuFree
    /\ spc' = [spc EXCEPT ![s] =
                  IF Matching(ID[sel[s]]) = {} THEN Through(s) ELSE "dropping"]
    /\ UNCHANGED <<stop, ctxDone, list, state, closed, lost, gpc, kpc, sel>>

DropFailed(s) ==
    /\ spc[s] = "dropping"
    /\ Drop(ID[sel[s]])
    /\ spc' = [spc EXCEPT ![s] = Through(s)]
    /\ UNCHANGED <<stop, ctxDone, lost, gpc, kpc, sel>>

\* The select of DialContext: a connection arrived or the caller's context
\* ended; Dialer has the details.
Served(s) ==
    /\ spc[s] = "waiting"
    /\ spc' = [spc EXCEPT ![s] = "leaving"]
    /\ UNCHANGED <<stop, ctxDone, list, state, closed, lost, gpc, kpc, sel>>

\* removeRequest, deferred by DialContext.
RemoveRequest(s) ==
    /\ spc[s] = "leaving"
    /\ DmuFree
    /\ spc' = [spc EXCEPT ![s] = "done"]
    /\ UNCHANGED <<stop, ctxDone, list, state, closed, lost, gpc, kpc, sel>>

-----------------------------------------------------------------------------
(* The listener's side, and Stop *)

Lose(r) ==
    /\ state[r] # "processing"
    /\ r \notin lost
    /\ lost' = lost \cup {r}
    /\ UNCHANGED <<stop, ctxDone, list, state, closed, gpc, kpc, spc, sel>>

StopCancel ==
    /\ stop = "running"
    /\ stop' = "stopping"
    /\ ctxDone' = TRUE
    /\ UNCHANGED <<list, state, closed, lost, gpc, kpc, spc, sel>>

\* The keepers are the wait group's members this module has.
StopReturn ==
    /\ stop = "stopping"
    /\ \A r \in Regs : gpc[r] \in {"none", "adding", "replacing", "exited"}
    /\ stop' = "stopped"
    /\ UNCHANGED <<ctxDone, list, state, closed, lost, gpc, kpc, spc, sel>>

KeeperStep(r) == \/ Add(r) \/ Replace(r) \/ WatchV1(r) \/ AcceptStreamError(r)
                 \/ Remove(r) \/ RemoveDrop(r)
CloserStep(r) == CloserWakes(r) \/ CloserCloses(r)
SenderStep(s) == \/ CheckState(s) \/ AddRequest(s) \/ Send(s) \/ Answer(s)
                 \/ ReadError(s) \/ RemoveFailed(s) \/ DropFailed(s)
                 \/ RemoveRequest(s)

Next ==
    \/ StopCancel \/ StopReturn
    \/ \E r \in Regs : Register(r) \/ Lose(r) \/ KeeperStep(r) \/ CloserStep(r)
    \/ \E s \in Senders : Pick(s) \/ SenderStep(s) \/ Served(s)

Spec == Init /\ [][Next]_vars

\* Goroutines run, locks are handed on, and a listener that is neither silent
\* nor gone answers.  Nobody has to register, dial, break or stop anything, and
\* nothing has to end a dial's wait for its connection.
Fairness ==
    /\ WF_vars(StopReturn)
    /\ \A r \in Regs : WF_vars(KeeperStep(r)) /\ WF_vars(CloserStep(r))
    /\ \A s \in Senders : WF_vars(SenderStep(s))

FairSpec == Spec /\ Fairness

-----------------------------------------------------------------------------
(* Properties *)

\* A managed connection always has a keeper goroutine that will take it off
\* the list at shutdown, whichever goroutine removed or replaced what before
\* (dialer.go:267-322): no registration outlives every goroutine that knows it.
ListedHaveKeeper ==
    \A r \in list : gpc[r] \in {"watching", "removing", "dropping"}

\* Until d.ctx is cancelled Server.Close is called only by the operation that
\* takes the connection off the list, and under the same hold of cm.mu: GetConn
\* never hands out a server in state disconnected.  (The handshake's watcher,
\* which can close the transport of a registered connection behind the
\* server's back, is in Dialer; from here that is a loss.)
ListedAreOpen == ~ctxDone => list \cap closed = {}

\* One connection per identifier (manager.go:41-48), although the replacement
\* waits for the old connection's command under the lock.
OnePerID == \A r1, r2 \in list : ID[r1] = ID[r2] => r1 = r2

\* What makes the invariants above inductive: before AddConnection is done with
\* it a server is neither closed nor watched by a closer, and closers act only
\* once d.ctx is cancelled.
UnmanagedUntouched ==
    \A r \in Regs :
        gpc[r] \in {"none", "adding", "replacing"} =>
            r \notin closed /\ kpc[r] = "none"
ClosersFollowCtx == \A r \in Regs : kpc[r] = "closing" => ctxDone

IndInv ==
    /\ TypeOK
    /\ OnePerID
    /\ ListedHaveKeeper
    /\ ListedAreOpen
    /\ UnmanagedUntouched
    /\ ClosersFollowCtx

\* Stop returns: every keeper it waits for gets cm.mu and s.mu in the end.
StopReturns == (stop = "stopping") ~> (stop = "stopped")

\* After shutdown the manager is empty for good: even a listener whose
\* handshake ended while Stop ran, and that was added after Stop returned,
\* is removed again.
EmptyAfterStop == <>[](ctxDone => list = {})

\* A V2 connection whose session died leaves the list without any dial
\* noticing (dialer.go:308-316).
DeadV2Leaves == \A r \in V2 : (r \in lost) ~> (r \notin list)

\* A call of DialContext or SendEvent never waits for a lock forever: not for
\* cm.mu or s.mu while it uses the control connection, and not for d.mu, which
\* Stop keeps until every keeper has had the other two.  It returns, or waits in
\* DialContext's select with its command acknowledged.
SendersReturn ==
    \A s \in Senders :
        (spc[s] \notin {"idle", "waiting"}) ~> (spc[s] \in {"waiting", "done"})

\* "If a connection with the same ID already exists, it closes the existing
\* connection and replaces it with the new one" (manager.go:35-36), and only
\* "the stale connection is removed" after a failed send (dialer.go:157-158):
\* while the dialer runs, an identifier loses its connection only if that
\* connection's transport was lost.
HealthyStaysListed ==
    [][\A r \in list \ list' :
          ctxDone \/ r \in lost \/ \E new \in list' : ID[new] = ID[r]]_vars

=============================================================================

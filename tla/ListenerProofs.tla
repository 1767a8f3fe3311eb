--------------------------- MODULE ListenerProofs ---------------------------
(***************************************************************************)
(* Proofs about Listener, for any commands, acceptors and registrations,   *)
(* any capacity of the channel and any of the modes.                       *)
(***************************************************************************)
EXTENDS Listener, SequenceLemmas, FiniteSetTheorems, TLAPS

-----------------------------------------------------------------------------
(* Commands on their way: steps that move none *)

\* The loop works on a command.
Busy == {"queueing", "acking"}

\* Accept works on a command.
Occupied == {"handling", "connecting", "binding"}

\* A step that moves no command keeps every fact about where commands are.
LEMMA NothingMoves ==
    ASSUME TypeOK, Conveyance,
           UNCHANGED <<cur, cmds, wire, kst, to, acmd, outcome>>,
           \A r \in Regs : lpc[r] \in Busy \/ lpc'[r] \in Busy => lpc'[r] = lpc[r],
           \A a \in Acceptors :
              apc[a] \in Occupied <=> apc'[a] \in Occupied
    PROVE  Conveyance'
<1>1. /\ \A r \in Regs : Queued(r)' = Queued(r)
      /\ \A k \in Cmds : Taken(k)' <=> Taken(k)
    BY DEF Queued, Taken
<1>2. \A r \in Regs : Queued(r) \subseteq Cmds
    BY DEF Queued, TypeOK
<1>3. WireInv'
    BY <1>1 DEF Conveyance, WireInv, TypeOK
<1>4. LoopInv'
    BY <1>1 DEF Conveyance, LoopInv, TypeOK, Busy
<1>5. TakenInv'
    BY <1>1 DEF Conveyance, TakenInv, TypeOK, Occupied
<1>6. SenderInv'
    BY <1>1 DEF Conveyance, SenderInv
<1> QED
    BY <1>3, <1>4, <1>5, <1>6 DEF Conveyance

\* The steps of which that is so.
LEMMA QuietConveyance ==
    ASSUME TypeOK, Conveyance,
           \/ \E r \in Regs : \/ LoopTop(r) \/ LoopReadError(r) \/ Closer(r)
                              \/ Lose(r) \/ PoolGrows(r)
           \/ \E k \in Cmds : AppCloses(k) \/ BindCloser(k)
           \/ \E a \in Acceptors : AcceptCtx(a) \/ AcceptClosed(a) \/ Connect(a)
           \/ CancelParent \/ CloseCancel \/ CloseStep \/ PoolShrinks
           \/ UNCHANGED vars
    PROVE  Conveyance'
<1>1. ASSUME NEW r \in Regs, LoopTop(r) \/ LoopReadError(r) PROVE Conveyance'
    <2>1. cur[r] = NoCmd
        BY <1>1 DEF LoopTop, LoopReadError, Conveyance, LoopInv
    <2>2. UNCHANGED <<cur, cmds, wire, kst, to, acmd, outcome, apc>>
        BY <1>1, <2>1 DEF LoopTop, LoopReadError, Exit, sendVars, acceptVars, TypeOK
    <2>3. \A q \in Regs : lpc[q] \in Busy \/ lpc'[q] \in Busy => lpc'[q] = lpc[q]
        BY <1>1 DEF LoopTop, LoopReadError, Exit, TypeOK, Busy
    <2> QED
        BY <2>2, <2>3, NothingMoves
<1>2. ASSUME NEW r \in Regs, Closer(r) \/ Lose(r) \/ PoolGrows(r) PROVE Conveyance'
    <2>1. UNCHANGED <<cur, cmds, wire, kst, to, acmd, outcome, apc>>
        BY <1>2 DEF Closer, Lose, PoolGrows, sendVars, acceptVars, loopVars
    <2>2. \A q \in Regs : lpc[q] \in Busy \/ lpc'[q] \in Busy => lpc'[q] = lpc[q]
        BY <1>2 DEF Closer, Lose, PoolGrows, TypeOK, Busy, loopVars
    <2> QED
        BY <2>1, <2>2, NothingMoves
<1>3. ASSUME NEW a \in Acceptors, AcceptCtx(a) \/ AcceptClosed(a) \/ Connect(a)
      PROVE  Conveyance'
    <2>1. UNCHANGED <<cur, cmds, wire, kst, to, acmd, outcome, lpc>>
        BY <1>3 DEF AcceptCtx, AcceptClosed, Connect, sendVars, loopVars
    <2>2. \A b \in Acceptors : apc[b] \in Occupied <=> apc'[b] \in Occupied
        BY <1>3 DEF AcceptCtx, AcceptClosed, Connect, TypeOK, Occupied
    <2> QED
        BY <2>1, <2>2, NothingMoves
<1>4. ASSUME \/ \E k \in Cmds : AppCloses(k) \/ BindCloser(k)
             \/ CancelParent \/ CloseCancel \/ CloseStep \/ PoolShrinks
             \/ UNCHANGED vars
      PROVE  Conveyance'
    <2>1. UNCHANGED <<cur, cmds, wire, kst, to, acmd, outcome, apc, lpc>>
        BY <1>4 DEF AppCloses, BindCloser, CancelParent, CloseCancel, CloseStep,
                    ClosePool, CloseClient, CloseReturn, PoolShrinks, vars,
                    sendVars, loopVars, acceptVars
    <2> QED
        BY <2>1, NothingMoves
<1> QED
    BY <1>1, <1>2, <1>3, <1>4

-----------------------------------------------------------------------------
(* Commands on their way: the loop *)

\* The loop lets go of its command, with or without an answer (client.go:335-357,
\* 381-391): what it answers it has passed on.
LEMMA LetGoConveyance ==
    ASSUME TypeOK, Conveyance, NEW r \in Regs,
           LoopQueueCancelled(r) \/ LoopAckError(r) \/ LoopAck(r)
    PROVE  Conveyance'
<1>1. /\ lpc[r] \in Busy
      /\ cur' = [cur EXCEPT ![r] = NoCmd]
      /\ \E p \in {"top", "exited"} : lpc' = [lpc EXCEPT ![r] = p]
      /\ UNCHANGED <<cmds, wire, to, apc, acmd, outcome>>
    BY DEF LoopQueueCancelled, LoopAckError, LoopAck, Exit, sendVars, acceptVars, Busy
<1>2. cur[r] \in Cmds /\ to[cur[r]] = r /\ kst[cur[r]] \in {"sent", "failed"}
    BY <1>1 DEF Conveyance, LoopInv, TypeOK, Busy
<1>3. \/ kst' = kst
      \/ /\ lpc[r] = "acking" /\ kst[cur[r]] = "sent"
         /\ kst' = [kst EXCEPT ![cur[r]] = "answered"]
    BY <1>2 DEF LoopQueueCancelled, LoopAckError, LoopAck, sendVars, TypeOK
<1>4. /\ \A q \in Regs : Queued(q)' = Queued(q)
      /\ \A k \in Cmds : Taken(k)' <=> Taken(k)
    BY <1>1 DEF Queued, Taken
<1>5. \A q \in Regs : wire[q] # NoCmd => wire[q] # cur[r]
    BY <1>2 DEF Conveyance, WireInv
<1>6. WireInv'
    BY <1>1, <1>2, <1>3, <1>4, <1>5 DEF Conveyance, WireInv, TypeOK
<1>7. LoopInv'
    <2>1. /\ cur'[r] = NoCmd /\ lpc'[r] \in {"top", "exited"}
          /\ \A q \in Regs \ {r} : cur'[q] = cur[q] /\ lpc'[q] = lpc[q]
        BY <1>1 DEF TypeOK
    <2>2. \A q \in Regs \ {r} :
              cur[q] # NoCmd => /\ cur[q] \in Cmds
                                /\ kst'[cur[q]] = kst[cur[q]]
                                /\ Taken(cur[q])' <=> Taken(cur[q])
        <3> SUFFICES ASSUME NEW q \in Regs \ {r}, cur[q] # NoCmd
                     PROVE  /\ cur[q] \in Cmds
                            /\ kst'[cur[q]] = kst[cur[q]]
                            /\ Taken(cur[q])' <=> Taken(cur[q])
            OBVIOUS
        <3>1. cur[q] \in Cmds /\ cur[q] # cur[r]
            BY <1>2 DEF Conveyance, LoopInv, TypeOK
        <3> QED
            BY <1>3, <1>4, <2>1, <3>1 DEF TypeOK
    <2> QED
        BY <1>1, <2>1, <2>2 DEF Conveyance, LoopInv
<1>8. TakenInv'
    BY <1>1, <1>4 DEF Conveyance, TakenInv, TypeOK
<1>9. SenderInv'
    BY <1>1, <1>2, <1>3, <1>4 DEF Conveyance, SenderInv, LoopInv, TypeOK
<1> QED
    BY <1>6, <1>7, <1>8, <1>9 DEF Conveyance

\* A command leaves the wire for the loop (client.go:299-334).
LEMMA ReadConveyance ==
    ASSUME TypeOK, Conveyance, NEW r \in Regs, LoopRead(r)
    PROVE  Conveyance'
<1> DEFINE k == wire[r]
<1>1. /\ k # NoCmd /\ k \in Cmds /\ lpc[r] = "reading"
      /\ wire' = [wire EXCEPT ![r] = NoCmd]
      /\ cur' = [cur EXCEPT ![r] = k]
      /\ lpc' = [lpc EXCEPT ![r] = IF k \in Pings THEN "acking" ELSE "queueing"]
      /\ UNCHANGED <<cmds, kst, to, apc, acmd, outcome>>
    BY DEF LoopRead, acceptVars, TypeOK
<1>2. to[k] = r /\ kst[k] = "sent" /\ ~Taken(k)
    BY <1>1 DEF Conveyance, WireInv
<1>3. /\ \A q \in Regs : Queued(q)' = Queued(q)
      /\ \A j \in Cmds : Taken(j)' <=> Taken(j)
    BY <1>1 DEF Queued, Taken
<1> HIDE DEF k
<1>4. WireInv'
    BY <1>1, <1>2, <1>3 DEF Conveyance, WireInv, TypeOK
<1>5. LoopInv'
    BY <1>1, <1>2, <1>3 DEF Conveyance, LoopInv, TypeOK
<1>6. TakenInv'
    BY <1>1, <1>3 DEF Conveyance, TakenInv, TypeOK
<1>7. SenderInv'
    BY <1>1, <1>3 DEF Conveyance, SenderInv
<1> QED
    BY <1>4, <1>5, <1>6, <1>7 DEF Conveyance

\* What the loop refuses it drops: nobody has it any more (client.go:299-313,
\* 377-379).
LEMMA RefuseConveyance ==
    ASSUME TypeOK, Conveyance, NEW r \in Regs, LoopRefuse(r)
    PROVE  Conveyance'
<1>1. cur[r] = NoCmd
    BY DEF LoopRefuse, Conveyance, LoopInv
<1>2. /\ wire' = wire \/ wire' = [wire EXCEPT ![r] = NoCmd]
      /\ lpc[r] = "reading" /\ lpc' = [lpc EXCEPT ![r] = "exited"]
      /\ UNCHANGED <<cur, cmds, kst, to, acmd, outcome, apc>>
    BY <1>1 DEF LoopRefuse, Exit, acceptVars, TypeOK
<1>3. /\ \A q \in Regs : Queued(q)' = Queued(q)
      /\ \A k \in Cmds : Taken(k)' <=> Taken(k)
    BY <1>2 DEF Queued, Taken
<1>4. WireInv'
    <2>1. \A q \in Regs : wire'[q] # NoCmd => wire'[q] = wire[q] /\ wire[q] \in Cmds
        BY <1>2 DEF TypeOK
    <2> QED
        BY <1>2, <1>3, <2>1 DEF Conveyance, WireInv
<1>5. LoopInv'
    BY <1>1, <1>2, <1>3 DEF Conveyance, LoopInv, TypeOK
<1>6. TakenInv'
    BY <1>2, <1>3 DEF Conveyance, TakenInv
<1>7. SenderInv'
    BY <1>2, <1>3 DEF Conveyance, SenderInv
<1> QED
    BY <1>4, <1>5, <1>6, <1>7 DEF Conveyance

\* The loop puts its command into the channel (client.go:335-341, 381-387).
LEMMA QueueConveyance ==
    ASSUME TypeOK, Conveyance, NEW r \in Regs, LoopQueue(r)
    PROVE  Conveyance'
<1>0. PICK k : k = cur[r]
    OBVIOUS
<1>1. /\ lpc[r] = "queueing"
      /\ cmds' = [cmds EXCEPT ![r] = Append(cmds[r], k)]
      /\ lpc' = [lpc EXCEPT ![r] = "acking"]
      /\ UNCHANGED <<cur, wire, kst, to, apc, acmd, outcome>>
    BY <1>0 DEF LoopQueue, sendVars, acceptVars, TypeOK
<1>2. k # NoCmd /\ k \in Cmds /\ to[k] = r /\ ~Taken(k) /\ kst[k] \in {"sent", "failed"}
    BY <1>0, <1>1 DEF Conveyance, LoopInv, TypeOK
<1>3. /\ cmds[r] \in Seq(Cmds)
      /\ cmds'[r] = Append(cmds[r], k)
      /\ Len(cmds'[r]) = Len(cmds[r]) + 1
      /\ \A i \in 1..Len(cmds[r]) : cmds'[r][i] = cmds[r][i]
      /\ cmds'[r][Len(cmds[r]) + 1] = k
      /\ \A q \in Regs \ {r} : cmds'[q] = cmds[q]
    BY <1>1, <1>2 DEF TypeOK
<1>4. Queued(r)' = Queued(r) \cup {k}
    BY <1>3 DEF Queued
<1>5. \A q \in Regs \ {r} : Queued(q)' = Queued(q)
    BY <1>3 DEF Queued
<1>6. Taken(k)'
    BY <1>1, <1>2, <1>4 DEF Taken
<1>7. \A j \in Cmds \ {k} : Taken(j)' <=> Taken(j)
    BY <1>1, <1>4, <1>5 DEF Taken, TypeOK
<1>8. k \notin Queued(r) /\ outcome[k] = "none" /\ \A a \in Acceptors : acmd[a] # k
    BY <1>2 DEF Taken
<1>9. WireInv'
    <2>1. \A q \in Regs : wire[q] # NoCmd => wire[q] # k
        BY <1>0, <1>2 DEF Conveyance, WireInv
    <2> QED
        BY <1>1, <1>7, <2>1 DEF Conveyance, WireInv, TypeOK
<1>10. LoopInv'
    <2>1. \A q \in Regs \ {r} : cur[q] # k
        BY <1>2 DEF Conveyance, LoopInv
    <2> QED
        BY <1>0, <1>1, <1>2, <1>6, <1>7, <2>1 DEF Conveyance, LoopInv, TypeOK
<1>11. TakenInv'
    <2>1. \A q \in Regs : \A i, j \in 1..Len(cmds'[q]) : cmds'[q][i] = cmds'[q][j] => i = j
        <3>1. \A i \in 1..Len(cmds[r]) : cmds[r][i] # k
            BY <1>8 DEF Queued
        <3>2. Len(cmds[r]) \in Nat
            BY <1>3
        <3>3. \A q \in Regs : \A i, j \in 1..Len(cmds[q]) : cmds[q][i] = cmds[q][j] => i = j
            BY DEF Conveyance, TakenInv
        <3>4. \A i, j \in 1..(Len(cmds[r]) + 1) : cmds'[r][i] = cmds'[r][j] => i = j
            BY <1>3, <3>1, <3>2, <3>3
        <3> QED
            BY <1>3, <3>3, <3>4
    <2>2. \A q \in Regs : \A j \in Queued(q)' : to[j] = q /\ outcome[j] = "none"
        BY <1>2, <1>4, <1>5, <1>8 DEF Conveyance, TakenInv
    <2>3. \A a \in Acceptors : acmd[a] # NoCmd => \A q \in Regs : acmd[a] \notin Queued(q)'
        BY <1>4, <1>5, <1>8 DEF Conveyance, TakenInv
    <2> QED
        BY <1>1, <2>1, <2>2, <2>3 DEF Conveyance, TakenInv
<1>12. SenderInv'
    BY <1>1, <1>2, <1>6, <1>7 DEF Conveyance, SenderInv
<1> QED
    BY <1>9, <1>10, <1>11, <1>12 DEF Conveyance

-----------------------------------------------------------------------------
(* Commands on their way: the dialer and Accept *)

LEMMA SendConveyance ==
    ASSUME TypeOK, Conveyance, NEW k \in Cmds, NEW r \in Regs, Send(k, r)
    PROVE  Conveyance'
<1>1. /\ kst[k] = "new"
      /\ wire' = [wire EXCEPT ![r] = k]
      /\ kst' = [kst EXCEPT ![k] = "sent"]
      /\ to' = [to EXCEPT ![k] = r]
      /\ UNCHANGED <<cur, cmds, lpc, apc, acmd, outcome>>
    BY DEF Send, loopVars, acceptVars
<1>2. /\ k # NoCmd /\ ~Taken(k)
      /\ \A q \in Regs : wire[q] # k /\ cur[q] # k /\ k \notin Queued(q)
    <2>1. ~Taken(k)
        BY <1>1 DEF Conveyance, SenderInv
    <2>2. \A q \in Regs : k \notin Queued(q)
        BY <2>1 DEF Taken, Conveyance, TakenInv
    <2> QED
        BY <1>1, <2>1, <2>2, CmdsAssumption DEF Conveyance, WireInv, LoopInv
<1>3. \A q \in Regs : Queued(q)' = Queued(q)
    BY <1>1 DEF Queued
<1>4. ~Taken(k)'
    BY <1>1, <1>2, <1>3 DEF Taken, TypeOK
<1>5. \A j \in Cmds \ {k} : Taken(j)' <=> Taken(j)
    BY <1>1, <1>3 DEF Taken, TypeOK
<1>6. WireInv'
    BY <1>1, <1>2, <1>4, <1>5 DEF Conveyance, WireInv, TypeOK
<1>7. LoopInv'
    BY <1>1, <1>2, <1>4, <1>5 DEF Conveyance, LoopInv, TypeOK
<1>8. TakenInv'
    BY <1>1, <1>2, <1>3 DEF Conveyance, TakenInv, TypeOK, Queued
<1>9. SenderInv'
    BY <1>1, <1>4, <1>5 DEF Conveyance, SenderInv, TypeOK
<1> QED
    BY <1>6, <1>7, <1>8, <1>9 DEF Conveyance

\* The send returns, with the answer or with an error.
LEMMA SendReturnConveyance ==
    ASSUME TypeOK, Conveyance, NEW k \in Cmds, SendStep(k)
    PROVE  Conveyance'
<1>1. /\ \/ /\ kst[k] = "answered" /\ kst' = [kst EXCEPT ![k] = "acked"]
            /\ wire' = wire
         \/ /\ kst[k] \in {"sent", "answered"} /\ kst' = [kst EXCEPT ![k] = "failed"]
            /\ wire' = [wire EXCEPT ![to[k]] = NoCmd]
      /\ UNCHANGED <<cur, cmds, lpc, to, apc, acmd, outcome>>
    BY DEF SendStep, SendAcked, SendFailed, loopVars, acceptVars
<1>2. /\ \A q \in Regs : Queued(q)' = Queued(q)
      /\ \A j \in Cmds : Taken(j)' <=> Taken(j)
    BY <1>1 DEF Queued, Taken
<1>3. WireInv'
    BY <1>1, <1>2 DEF Conveyance, WireInv, TypeOK
<1>4. LoopInv'
    <2>0. \A q \in Regs : cur[q] # NoCmd =>
              cur[q] \in Cmds /\ kst[cur[q]] \in {"sent", "failed"}
        BY DEF Conveyance, LoopInv, TypeOK
    <2>1. \A j \in Cmds : kst[j] \in {"sent", "failed"} => kst'[j] \in {"sent", "failed"}
        BY <1>1 DEF TypeOK
    <2>2. \A q \in Regs : cur[q] # NoCmd => (Taken(cur[q])' <=> Taken(cur[q]))
        BY <1>1, <1>2, <2>0
    <2> QED
        BY <1>1, <2>0, <2>1, <2>2 DEF Conveyance, LoopInv
<1>5. TakenInv'
    BY <1>1, <1>2 DEF Conveyance, TakenInv, TypeOK
<1>6. SenderInv'
    BY <1>1, <1>2 DEF Conveyance, SenderInv, TypeOK
<1> QED
    BY <1>3, <1>4, <1>5, <1>6 DEF Conveyance

\* Accept takes the first command of the primary's channel; it keeps it, or
\* refuses an event nobody handles (listener.go:153-181).
LEMMA AcceptCommandConveyance ==
    ASSUME TypeOK, Conveyance, NEW a \in Acceptors, AcceptCommand(a)
    PROVE  Conveyance'
<1>0. Primary \in Regs /\ cmds[Primary] \in Seq(Cmds) /\ cmds[Primary] # <<>>
    BY RegsAssumption DEF AcceptCommand, TypeOK
<1>1. PICK k : k = Head(cmds[Primary])
    OBVIOUS
<1>2. /\ k \in Cmds /\ k # NoCmd
      /\ k = cmds[Primary][1]
      /\ Len(cmds[Primary]) \in Nat \ {0}
    BY <1>0, <1>1, CmdsAssumption
<1>3. /\ cmds' = [cmds EXCEPT ![Primary] = Tail(cmds[Primary])]
      /\ UNCHANGED <<lpc, cur, wire, kst, to>>
      /\ apc[a] = "select"
    BY DEF AcceptCommand, sendVars
<1>4. /\ Len(cmds'[Primary]) = Len(cmds[Primary]) - 1
      /\ \A i \in 1..Len(cmds[Primary]) - 1 : cmds'[Primary][i] = cmds[Primary][i + 1]
      /\ \A q \in Regs \ {Primary} : cmds'[q] = cmds[q]
    BY <1>0, <1>3 DEF TypeOK
<1>5. \A q \in Regs : \A i, j \in 1..Len(cmds[q]) : cmds[q][i] = cmds[q][j] => i = j
    BY DEF Conveyance, TakenInv
<1>6. /\ Queued(Primary)' = Queued(Primary) \ {k}
      /\ k \in Queued(Primary)
    <2>1. k \in Queued(Primary)
        BY <1>2 DEF Queued
    <2>2. Queued(Primary)' \subseteq Queued(Primary) \ {k}
        BY <1>0, <1>2, <1>4, <1>5 DEF Queued
    <2>3. ASSUME NEW i \in 1..Len(cmds[Primary]), cmds[Primary][i] # k
          PROVE  cmds[Primary][i] \in Queued(Primary)'
        <3>1. i - 1 \in 1..Len(cmds[Primary]) - 1
            BY <1>2, <2>3
        <3>2. cmds'[Primary][i - 1] = cmds[Primary][i]
            BY <1>2, <1>4, <3>1
        <3> QED
            BY <1>4, <3>1, <3>2 DEF Queued
    <2>4. Queued(Primary) \ {k} \subseteq Queued(Primary)'
        BY <2>3 DEF Queued
    <2> QED
        BY <2>1, <2>2, <2>4
<1>7. \A q \in Regs \ {Primary} : Queued(q)' = Queued(q) /\ k \notin Queued(q)
    <2>1. \A q \in Regs \ {Primary} : Queued(q)' = Queued(q)
        BY <1>4 DEF Queued
    <2>2. \A q \in Regs : \A j \in Queued(q) : to[j] = q
        BY DEF Conveyance, TakenInv
    <2> QED
        BY <1>0, <1>6, <2>1, <2>2
<1>8. /\ to[k] = Primary /\ outcome[k] = "none"
      /\ \A b \in Acceptors : acmd[b] # k
      /\ acmd[a] = NoCmd
    BY <1>0, <1>2, <1>3, <1>6 DEF Conveyance, TakenInv
<1>9. \/ /\ acmd' = [acmd EXCEPT ![a] = k]
         /\ \E p \in {"connecting", "handling"} : apc' = [apc EXCEPT ![a] = p]
         /\ outcome' = outcome
      \/ outcome' = [outcome EXCEPT ![k] = "refused"] /\ UNCHANGED <<apc, acmd>>
    BY <1>1 DEF AcceptCommand
<1>10. Taken(k) /\ Taken(k)'
    <2>1. Taken(k)
        BY <1>0, <1>6, <1>8 DEF Taken
    <2>2. Taken(k)'
        BY <1>2, <1>9 DEF Taken, TypeOK
    <2> QED
        BY <2>1, <2>2
<1>11. \A j \in Cmds \ {k} : Taken(j)' <=> Taken(j)
    <2> SUFFICES ASSUME NEW j \in Cmds \ {k}
                 PROVE  Taken(j)' <=> Taken(j)
        OBVIOUS
    <2>1. to[j] \in Regs /\ to'[j] = to[j]
        BY <1>3 DEF TypeOK
    <2>2. j \in Queued(to[j])' <=> j \in Queued(to[j])
        BY <1>3, <1>6, <1>7, <2>1
    <2>3. (\E b \in Acceptors : acmd'[b] = j) <=> (\E b \in Acceptors : acmd[b] = j)
        BY <1>8, <1>9, CmdsAssumption DEF TypeOK
    <2>4. outcome'[j] = outcome[j]
        BY <1>9 DEF TypeOK
    <2> QED
        BY <2>2, <2>3, <2>4 DEF Taken
<1>12. WireInv'
    BY <1>2, <1>3, <1>10, <1>11 DEF Conveyance, WireInv, TypeOK
<1>13. LoopInv'
    <2>1. \A q \in Regs : cur[q] # NoCmd => cur[q] \in Cmds
        BY DEF TypeOK
    <2>2. \A q \in Regs : cur[q] # NoCmd => (Taken(cur[q])' <=> Taken(cur[q]))
        BY <1>3, <1>10, <1>11, <2>1
    <2> QED
        BY <1>3, <2>1, <2>2 DEF Conveyance, LoopInv
<1>14. TakenInv'
    <2>1. \A q \in Regs : \A i, j \in 1..Len(cmds'[q]) : cmds'[q][i] = cmds'[q][j] => i = j
        <3>1. \A i, j \in 1..Len(cmds[Primary]) - 1 :
                  cmds'[Primary][i] = cmds'[Primary][j] => i = j
            <4> SUFFICES ASSUME NEW i \in 1..Len(cmds[Primary]) - 1,
                                NEW j \in 1..Len(cmds[Primary]) - 1,
                                cmds'[Primary][i] = cmds'[Primary][j]
                         PROVE  i = j
                OBVIOUS
            <4>1. i + 1 \in 1..Len(cmds[Primary]) /\ j + 1 \in 1..Len(cmds[Primary])
                BY <1>2
            <4>2. cmds[Primary][i + 1] = cmds[Primary][j + 1]
                BY <1>4
            <4>3. i + 1 = j + 1
                BY <1>0, <1>5, <4>1, <4>2
            <4> QED
                BY <4>3
        <3> QED
            BY <1>4, <1>5, <3>1
    <2>2. \A q \in Regs : \A j \in Queued(q)' :
              j # k /\ j \in Queued(q) /\ to[j] = q /\ outcome[j] = "none"
        BY <1>6, <1>7 DEF Conveyance, TakenInv
    <2>3. \A q \in Regs : \A j \in Queued(q)' : outcome'[j] = "none"
        <3>1. \A q \in Regs : Queued(q) \subseteq Cmds
            BY DEF TypeOK, Queued
        <3> QED
            BY <1>2, <1>9, <2>2, <3>1 DEF TypeOK
    <2>4. \A b \in Acceptors : acmd'[b] # NoCmd =>
              /\ outcome'[acmd'[b]] = "none"
              /\ \A q \in Regs : acmd'[b] \notin Queued(q)'
        <3> SUFFICES ASSUME NEW b \in Acceptors, acmd'[b] # NoCmd
                     PROVE  /\ outcome'[acmd'[b]] = "none"
                            /\ \A q \in Regs : acmd'[b] \notin Queued(q)'
            OBVIOUS
        <3>1. CASE acmd'[b] = k
            <4>1. outcome' = outcome
                BY <1>8, <1>9, <3>1
            <4> QED
                BY <1>8, <2>2, <3>1, <4>1
        <3>2. CASE acmd'[b] # k
            <4>1. acmd'[b] = acmd[b] /\ acmd[b] \in Cmds
                BY <1>9, <3>2 DEF TypeOK
            <4>2. outcome'[acmd[b]] = outcome[acmd[b]]
                BY <1>9, <3>2, <4>1 DEF TypeOK
            <4> QED
                BY <2>2, <4>1, <4>2 DEF Conveyance, TakenInv
        <3> QED
            BY <3>1, <3>2
    <2>5. \A b \in Acceptors : acmd'[b] # NoCmd <=> apc'[b] \in Occupied
        <3>1. \A b \in Acceptors : acmd[b] # NoCmd <=> apc[b] \in Occupied
            BY DEF Conveyance, TakenInv, Occupied
        <3> QED
            <4>1. CASE UNCHANGED <<apc, acmd>>
                BY <3>1, <4>1
            <4>2. ASSUME acmd' = [acmd EXCEPT ![a] = k],
                         NEW p \in {"connecting", "handling"},
                         apc' = [apc EXCEPT ![a] = p]
                  PROVE  \A b \in Acceptors : acmd'[b] # NoCmd <=> apc'[b] \in Occupied
                <5>1. acmd'[a] = k /\ apc'[a] \in Occupied
                    BY <4>2 DEF TypeOK, Occupied
                <5>2. \A b \in Acceptors \ {a} : acmd'[b] = acmd[b] /\ apc'[b] = apc[b]
                    BY <4>2 DEF TypeOK
                <5> QED
                    BY <1>2, <3>1, <5>1, <5>2
            <4> QED
                BY <1>9, <4>1, <4>2
    <2>6. \A b, c \in Acceptors : acmd'[b] # NoCmd /\ acmd'[b] = acmd'[c] => b = c
        <3>1. \A b, c \in Acceptors : acmd[b] # NoCmd /\ acmd[b] = acmd[c] => b = c
            BY DEF Conveyance, TakenInv
        <3>2. CASE acmd' = acmd
            BY <3>1, <3>2
        <3>3. CASE acmd' = [acmd EXCEPT ![a] = k]
            BY <1>8, <3>1, <3>3 DEF TypeOK
        <3> QED
            BY <1>9, <3>2, <3>3
    <2>7. \A q \in Regs : \A j \in Queued(q)' : to'[j] = q
        BY <1>3, <2>2
    <2> QED
        BY <2>1, <2>3, <2>4, <2>5, <2>6, <2>7 DEF TakenInv, Occupied
<1>15. SenderInv'
    BY <1>3, <1>10, <1>11 DEF Conveyance, SenderInv
<1> QED
    BY <1>12, <1>13, <1>14, <1>15 DEF Conveyance

\* Accept is done with its command.
LEMMA FinishConveyance ==
    ASSUME TypeOK, Conveyance, NEW a \in Acceptors, apc[a] \in Occupied,
           NEW result \in {"served", "refused"}, Finish(a, result),
           UNCHANGED <<loopVars, sendVars>>
    PROVE  Conveyance'
<1>0. PICK k : k = acmd[a]
    OBVIOUS
<1>1. /\ outcome' = [outcome EXCEPT ![k] = result]
      /\ acmd' = [acmd EXCEPT ![a] = NoCmd]
      /\ apc' = [apc EXCEPT ![a] = "select"]
      /\ UNCHANGED <<lpc, cur, cmds, wire, kst, to>>
    BY <1>0 DEF Finish, loopVars, sendVars
<1>2. /\ k # NoCmd /\ k \in Cmds
      /\ outcome[k] = "none"
      /\ \A q \in Regs : k \notin Queued(q)
      /\ \A b \in Acceptors \ {a} : acmd[b] # k
    BY <1>0 DEF Conveyance, TakenInv, TypeOK, Occupied
<1>3. \A q \in Regs : Queued(q)' = Queued(q)
    BY <1>1 DEF Queued
<1>4. Taken(k) /\ Taken(k)'
    BY <1>0, <1>1, <1>2 DEF Taken, TypeOK
<1>5. \A j \in Cmds \ {k} : Taken(j)' <=> Taken(j)
    <2> SUFFICES ASSUME NEW j \in Cmds \ {k}
                 PROVE  Taken(j)' <=> Taken(j)
        OBVIOUS
    <2>1. j \in Queued(to[j])' <=> j \in Queued(to[j])
        BY <1>1 DEF Queued
    <2>2. (\E b \in Acceptors : acmd'[b] = j) <=> (\E b \in Acceptors : acmd[b] = j)
        BY <1>0, <1>1, CmdsAssumption DEF TypeOK
    <2>3. outcome'[j] = outcome[j]
        BY <1>1 DEF TypeOK
    <2> QED
        BY <2>1, <2>2, <2>3 DEF Taken
<1>6. WireInv'
    BY <1>1, <1>4, <1>5 DEF Conveyance, WireInv, TypeOK
<1>7. LoopInv'
    <2>1. \A q \in Regs : cur[q] # NoCmd => cur[q] \in Cmds
        BY DEF TypeOK
    <2>2. \A q \in Regs : cur[q] # NoCmd => (Taken(cur[q])' <=> Taken(cur[q]))
        BY <1>1, <1>4, <1>5, <2>1
    <2> QED
        BY <1>1, <2>1, <2>2 DEF Conveyance, LoopInv
<1>8. TakenInv'
    <2>1. \A q \in Regs : \A j \in Queued(q)' : to'[j] = q /\ outcome'[j] = "none"
        BY <1>1, <1>2, <1>3 DEF Conveyance, TakenInv, TypeOK
    <2>2. \A b \in Acceptors : acmd'[b] # NoCmd =>
              /\ b # a /\ acmd'[b] = acmd[b] /\ acmd[b] # k /\ acmd[b] \in Cmds
              /\ outcome'[acmd[b]] = outcome[acmd[b]]
        BY <1>1, <1>2 DEF TypeOK
    <2>3. \A b \in Acceptors : acmd'[b] # NoCmd =>
              /\ outcome'[acmd'[b]] = "none"
              /\ \A q \in Regs : acmd'[b] \notin Queued(q)'
        BY <1>3, <2>2 DEF Conveyance, TakenInv
    <2>4. \A b \in Acceptors : acmd'[b] # NoCmd <=> apc'[b] \in Occupied
        BY <1>1 DEF Conveyance, TakenInv, TypeOK, Occupied
    <2>5. \A b, c \in Acceptors : acmd'[b] # NoCmd /\ acmd'[b] = acmd'[c] => b = c
        BY <2>2 DEF Conveyance, TakenInv
    <2>6. \A q \in Regs : \A i, j \in 1..Len(cmds'[q]) : cmds'[q][i] = cmds'[q][j] => i = j
        BY <1>1 DEF Conveyance, TakenInv
    <2> QED
        BY <2>1, <2>3, <2>4, <2>5, <2>6 DEF TakenInv, Occupied
<1>9. SenderInv'
    BY <1>1, <1>4, <1>5 DEF Conveyance, SenderInv
<1> QED
    BY <1>6, <1>7, <1>8, <1>9 DEF Conveyance

\* Every step keeps track of every command.
LEMMA StepConveyance ==
    ASSUME TypeOK, Conveyance, [Next]_vars
    PROVE  Conveyance'
<1>1. ASSUME NEW a \in Acceptors, AcceptStep(a) PROVE Conveyance'
    <2>1. CASE HandlerReturns(a)
        BY <2>1, FinishConveyance DEF HandlerReturns, Occupied
    <2>2. CASE DialFails(a)
        BY <2>2, FinishConveyance DEF DialFails, Occupied
    <2>3. CASE OpenStreamFails(a)
        BY <2>3, FinishConveyance DEF OpenStreamFails, Occupied
    <2>4. CASE BindSucceeds(a)
        BY <2>4, FinishConveyance DEF BindSucceeds, Occupied
    <2>5. CASE BindFails(a)
        BY <2>5, FinishConveyance DEF BindFails, Occupied
    <2> QED
        BY <1>1, <2>1, <2>2, <2>3, <2>4, <2>5, AcceptCommandConveyance,
           QuietConveyance DEF AcceptStep
<1>2. ASSUME NEW r \in Regs, LoopStep(r) PROVE Conveyance'
    BY <1>2, LetGoConveyance, ReadConveyance, RefuseConveyance, QueueConveyance,
       QuietConveyance DEF LoopStep
<1> QED
    BY <1>1, <1>2, SendConveyance, SendReturnConveyance, QuietConveyance DEF Next

-----------------------------------------------------------------------------
(* Types *)

LEMMA LoopTypes ==
    ASSUME TypeOK, Conveyance, NEW r \in Regs, LoopStep(r)
    PROVE  TypeOK'
<1> USE DEF TypeOK, linkVars, sendVars, acceptVars, loopVars
<1>1. CASE LoopTop(r)
    BY <1>1 DEF LoopTop, Exit
<1>2. CASE LoopRead(r)
    <2>1. ASSUME rest' = rest
          PROVE  rest' \in [Regs -> {"none", "byte", "bytes"}]
        BY <2>1
    <2>2. ASSUME NEW left \in {"byte", "bytes"}, rest' = [rest EXCEPT ![r] = left]
          PROVE  rest' \in [Regs -> {"none", "byte", "bytes"}]
        BY <2>2
    <2>3. rest' \in [Regs -> {"none", "byte", "bytes"}]
        BY <1>2, <2>1, <2>2 DEF LoopRead
    <2> QED
        BY <1>2, <2>3 DEF LoopRead
<1>3. CASE LoopReadError(r)
    BY <1>3 DEF LoopReadError, Exit
<1>4. CASE LoopQueue(r)
    <2>1. cur[r] \in Cmds /\ cmds[r] \in Seq(Cmds)
        BY <1>4 DEF LoopQueue, Conveyance, LoopInv
    <2>2. /\ cmds' = [cmds EXCEPT ![r] = Append(cmds[r], cur[r])]
          /\ Append(cmds[r], cur[r]) \in Seq(Cmds)
          /\ Len(Append(cmds[r], cur[r])) <= Cap
        BY <1>4, <2>1, BoundsAssumption DEF LoopQueue
    <2>3. cmds' \in [Regs -> Seq(Cmds)] /\ \A q \in Regs : Len(cmds'[q]) <= Cap
        BY <2>2
    <2> QED
        BY <1>4, <2>3 DEF LoopQueue
<1>5. CASE LoopQueueCancelled(r)
    BY <1>5 DEF LoopQueueCancelled
<1>6. CASE LoopAck(r)
    BY <1>6 DEF LoopAck
<1>7. CASE LoopAckError(r)
    BY <1>7 DEF LoopAckError, Exit
<1>8. CASE LoopRefuse(r)
    <2>1. why' \in [Regs -> {"none", "lost", "refused", "scaled"}]
        BY <1>8 DEF LoopRefuse, Blame
    <2>2. wire' \in [Regs -> Cmds \cup {NoCmd}]
        BY <1>8 DEF LoopRefuse
    <2> QED
        BY <1>8, <2>1, <2>2 DEF LoopRefuse, Exit
<1> QED
    BY <1>1, <1>2, <1>3, <1>4, <1>5, <1>6, <1>7, <1>8 DEF LoopStep

LEMMA AcceptTypes ==
    ASSUME TypeOK, NEW a \in Acceptors, AcceptStep(a)
    PROVE  TypeOK'
<1> USE DEF TypeOK, linkVars, sendVars, loopVars
<1>1. CASE AcceptCtx(a)
    BY <1>1 DEF AcceptCtx
<1>2. CASE AcceptClosed(a)
    BY <1>2 DEF AcceptClosed
<1>3. CASE AcceptCommand(a)
    <2>1. Primary \in Regs /\ cmds[Primary] \in Seq(Cmds) /\ cmds[Primary] # <<>>
        BY <1>3, RegsAssumption DEF AcceptCommand
    <2>2. /\ Head(cmds[Primary]) \in Cmds
          /\ Tail(cmds[Primary]) \in Seq(Cmds)
          /\ Len(Tail(cmds[Primary])) <= Cap
        BY <2>1, BoundsAssumption
    <2>3. cmds' = [cmds EXCEPT ![Primary] = Tail(cmds[Primary])]
        BY <1>3 DEF AcceptCommand
    <2>4. cmds' \in [Regs -> Seq(Cmds)] /\ \A q \in Regs : Len(cmds'[q]) <= Cap
        BY <2>1, <2>2, <2>3
    <2>5. /\ apc' \in [Acceptors -> {"select", "handling", "connecting", "binding", "over"}]
          /\ acmd' \in [Acceptors -> Cmds \cup {NoCmd}]
          /\ outcome' \in [Cmds -> {"none", "served", "refused"}]
        <3>1. PICK k \in Cmds : k = Head(cmds[Primary])
            BY <2>2
        <3>2. \/ /\ acmd' = [acmd EXCEPT ![a] = k]
                 /\ \E p \in {"connecting", "handling"} : apc' = [apc EXCEPT ![a] = p]
                 /\ outcome' = outcome
              \/ outcome' = [outcome EXCEPT ![k] = "refused"] /\ UNCHANGED <<apc, acmd>>
            BY <1>3, <3>1 DEF AcceptCommand
        <3>3. CASE outcome' = [outcome EXCEPT ![k] = "refused"] /\ UNCHANGED <<apc, acmd>>
            BY <3>3
        <3>4. CASE outcome' = outcome /\ acmd' = [acmd EXCEPT ![a] = k]
                   /\ \E p \in {"connecting", "handling"} : apc' = [apc EXCEPT ![a] = p]
            BY <3>4
        <3> QED
            BY <3>2, <3>3, <3>4
    <2> QED
        BY <1>3, <2>4, <2>5 DEF AcceptCommand
<1>4. CASE HandlerReturns(a)
    BY <1>4 DEF HandlerReturns, Finish
<1>5. CASE Connect(a)
    BY <1>5 DEF Connect
<1>6. CASE DialFails(a)
    BY <1>6 DEF DialFails, Finish
<1>7. CASE OpenStreamFails(a)
    BY <1>7 DEF OpenStreamFails, Finish
<1>8. CASE BindSucceeds(a)
    BY <1>8 DEF BindSucceeds, Finish
<1>9. CASE BindFails(a)
    BY <1>9 DEF BindFails, Finish
<1> QED
    BY <1>1, <1>2, <1>3, <1>4, <1>5, <1>6, <1>7, <1>8, <1>9 DEF AcceptStep

\* A pool that shrinks loses one member and gains none.
LEMMA ShrinksOne ==
    ASSUME TypeOK, NEW i \in DOMAIN pool,
           pool' = SubSeq(pool, 1, i - 1) \o SubSeq(pool, i + 1, Len(pool))
    PROVE  pool[i] \in Regs /\ pool' \in Seq(Regs)
<1>1. pool \in Seq(Regs)
    BY DEF TypeOK
<1>2. i \in 1..Len(pool) /\ pool[i] \in Regs
    BY <1>1
<1>3. pool' = RemoveAt(pool, i)
    BY Zenon DEF RemoveAt
<1>4. RemoveAt(pool, i) \in Seq(Regs)
    BY <1>1, <1>2, RemoveAtElements
<1> QED
    BY <1>2, <1>3, <1>4

LEMMA TakeDownTypes ==
    ASSUME TypeOK, NEW r \in Regs, NEW reason \in {"none", "lost", "refused", "scaled"},
           TakeDown(r, reason)
    PROVE  /\ link' \in [Regs -> {"up", "half", "down"}]
           /\ why' \in [Regs -> {"none", "lost", "refused", "scaled"}]
    BY DEF TypeOK, TakeDown, Blame

LEMMA OtherTypes ==
    ASSUME TypeOK,
           \/ \E r \in Regs : Closer(r) \/ Lose(r) \/ PoolGrows(r)
           \/ \E k \in Cmds : SendStep(k) \/ AppCloses(k) \/ BindCloser(k)
           \/ \E k \in Cmds, r \in Regs : Send(k, r)
           \/ CancelParent \/ CloseCancel \/ CloseStep \/ PoolShrinks
           \/ UNCHANGED vars
    PROVE  TypeOK'
<1> USE DEF linkVars, sendVars, acceptVars, loopVars
<1>1. ASSUME NEW r \in Regs, Closer(r) PROVE TypeOK'
    <2>1. link' \in [Regs -> {"up", "half", "down"}]
          /\ why' \in [Regs -> {"none", "lost", "refused", "scaled"}]
        <3>1. CASE TakeDown(r, "none")
            BY <3>1, TakeDownTypes
        <3>2. CASE link' = [link EXCEPT ![r] = IF @ = "up" THEN "half" ELSE @] /\ why' = why
            BY <3>2 DEF TypeOK
        <3> QED
            BY <1>1, <3>1, <3>2 DEF Closer
    <2> QED
        BY <1>1, <2>1 DEF Closer, TypeOK
<1>2. ASSUME NEW r \in Regs, Lose(r) PROVE TypeOK'
    BY <1>2, TakeDownTypes DEF Lose, TypeOK
<1>3. ASSUME NEW r \in Regs, PoolGrows(r) PROVE TypeOK'
    BY <1>3 DEF PoolGrows, TypeOK
<1>4. ASSUME NEW k \in Cmds, SendStep(k) PROVE TypeOK'
    <2>1. CASE SendAcked(k)
        BY <2>1 DEF SendAcked, TypeOK
    <2>2. CASE SendFailed(k)
        <3>1. to[k] \in Regs
            BY DEF TypeOK
        <3>2. /\ link' \in [Regs -> {"up", "half", "down"}]
              /\ wire' \in [Regs -> Cmds \cup {NoCmd}]
            BY <2>2, <3>1 DEF SendFailed, TypeOK
        <3> QED
            BY <2>2, <3>1, <3>2 DEF SendFailed, TypeOK
    <2> QED
        BY <1>4, <2>1, <2>2 DEF SendStep
<1>5. ASSUME NEW k \in Cmds, AppCloses(k) \/ BindCloser(k) PROVE TypeOK'
    <2>1. /\ conn' = [conn EXCEPT ![k] = "closed"]
          /\ UNCHANGED <<mode, ctx, loopVars, linkVars, sendVars, apc, acmd, outcome,
                         pool, clpc>>
        BY <1>5 DEF AppCloses, BindCloser
    <2>2. conn' \in [Cmds -> {"none", "closed", "tcp"} \cup Regs]
        BY <2>1 DEF TypeOK
    <2> QED
        BY <2>1, <2>2 DEF TypeOK
<1>6. ASSUME NEW k \in Cmds, NEW r \in Regs, Send(k, r) PROVE TypeOK'
    BY <1>6 DEF Send, TypeOK
<1>7. CASE CancelParent \/ CloseCancel
    BY <1>7 DEF CancelParent, CloseCancel, TypeOK
<1>8. CASE CloseStep
    <2>1. CASE ClosePool
        <3>1. link' \in [Regs -> {"up", "half", "down"}]
            BY <2>1 DEF ClosePool, TypeOK
        <3>2. pool' \in Seq(Regs)
            BY <2>1 DEF ClosePool
        <3> QED
            BY <2>1, <3>1, <3>2 DEF ClosePool, TypeOK
    <2>2. CASE CloseClient
        BY <2>2, TakeDownTypes, RegsAssumption DEF CloseClient, TypeOK
    <2>3. CASE CloseReturn
        BY <2>3 DEF CloseReturn, TypeOK
    <2> QED
        BY <1>8, <2>1, <2>2, <2>3 DEF CloseStep
<1>9. CASE PoolShrinks
    <2>1. PICK i \in DOMAIN pool :
              /\ TakeDown(pool[i], "scaled")
              /\ pool' = SubSeq(pool, 1, i - 1) \o SubSeq(pool, i + 1, Len(pool))
        BY <1>9 DEF PoolShrinks
    <2>2. pool[i] \in Regs /\ pool' \in Seq(Regs)
        BY <2>1, ShrinksOne
    <2>3. /\ link' \in [Regs -> {"up", "half", "down"}]
          /\ why' \in [Regs -> {"none", "lost", "refused", "scaled"}]
        BY <2>1, <2>2, TakeDownTypes
    <2> QED
        BY <1>9, <2>2, <2>3 DEF PoolShrinks, TypeOK
<1>10. CASE UNCHANGED vars
    BY <1>10 DEF vars, TypeOK
<1> QED
    BY <1>1, <1>2, <1>3, <1>4, <1>5, <1>6, <1>7, <1>8, <1>9, <1>10

LEMMA StepTypes ==
    ASSUME TypeOK, Conveyance, [Next]_vars
    PROVE  TypeOK'
    BY LoopTypes, AcceptTypes, OtherTypes DEF Next

-----------------------------------------------------------------------------
(* Why a listener is closed *)

\* What the loop had to refuse it had to refuse ever after: a command stays
\* sent, and nobody takes the rest of an identifier off the connection.
LEMMA RefusableStays ==
    ASSUME TypeOK, [Next]_vars, Refusable
    PROVE  Refusable'
<1> USE RegsAssumption DEF TypeOK, linkVars, loopVars, acceptVars, sendVars
<1>1. mode' = mode
    BY DEF Next, vars, LoopStep, LoopTop, LoopRead, LoopRefuse, LoopReadError,
           LoopQueue, LoopQueueCancelled, LoopAck, LoopAckError, Closer, Lose,
           PoolGrows, SendStep, SendAcked, SendFailed, AppCloses, BindCloser, Send,
           AcceptStep, AcceptCtx, AcceptClosed, AcceptCommand, HandlerReturns,
           Connect, DialFails, OpenStreamFails, BindSucceeds, BindFails,
           CancelParent, CloseCancel, CloseStep, ClosePool, CloseClient,
           CloseReturn, PoolShrinks
<1>2. CASE \E r \in Regs : LoopStep(r)
    <2>1. PICK r \in Regs : LoopStep(r)
        BY <1>2
    <2>2. rest[Primary] # "none" => rest'[Primary] # "none"
        BY <2>1 DEF LoopStep, LoopTop, LoopRead, LoopRefuse, LoopReadError,
                    LoopQueue, LoopQueueCancelled, LoopAck, LoopAckError
    <2>3. to' = to /\ \A k \in Cmds : kst[k] # "new" => kst'[k] # "new"
        BY <2>1 DEF LoopStep, LoopTop, LoopRead, LoopRefuse, LoopReadError,
                    LoopQueue, LoopQueueCancelled, LoopAck, LoopAckError
    <2> QED
        BY <1>1, <2>2, <2>3, CmdsAssumption DEF Refusable
<1>3. CASE \E k \in Cmds : SendStep(k) \/ \E r \in Regs : Send(k, r)
    <2>1. PICK c \in Cmds : SendStep(c) \/ \E r \in Regs : Send(c, r)
        BY <1>3
    <2>2. rest' = rest
        BY <2>1 DEF SendStep, SendAcked, SendFailed, Send
    <2>3. \A k \in Cmds : kst[k] # "new" => kst'[k] # "new" /\ to'[k] = to[k]
        BY <2>1 DEF SendStep, SendAcked, SendFailed, Send
    <2> QED
        BY <1>1, <2>2, <2>3, CmdsAssumption DEF Refusable
<1>4. CASE \E a \in Acceptors : AcceptStep(a)
    <2>1. UNCHANGED <<rest, kst, to>>
        BY <1>4 DEF AcceptStep, AcceptCtx, AcceptClosed, AcceptCommand, HandlerReturns,
                    Connect, DialFails, OpenStreamFails, BindSucceeds, BindFails
    <2> QED
        BY <1>1, <2>1 DEF Refusable
<1>5. ASSUME \/ \E r \in Regs : Closer(r) \/ Lose(r) \/ PoolGrows(r)
             \/ \E k \in Cmds : AppCloses(k) \/ BindCloser(k)
             \/ CancelParent \/ CloseCancel \/ CloseStep \/ PoolShrinks
             \/ UNCHANGED vars
      PROVE  Refusable'
    <2>1. UNCHANGED <<rest, kst, to>>
        BY <1>5 DEF Closer, Lose, PoolGrows, AppCloses, BindCloser, CancelParent,
                    CloseCancel, CloseStep, ClosePool, CloseClient, CloseReturn,
                    PoolShrinks, vars
    <2> QED
        BY <1>1, <2>1 DEF Refusable
<1> QED
    BY <1>2, <1>3, <1>4, <1>5 DEF Next

\* The loop has its reason to end.
LEMMA LoopReason ==
    ASSUME TypeOK, WireInv, ReasonInv, NEW r \in Regs, LoopStep(r),
           Refusable => Refusable'
    PROVE  ReasonInv'
<1> USE RegsAssumption
        DEF TypeOK, ReasonInv, Reason, ClosedForAReason, linkVars, loopVars, acceptVars
<1>1. CASE LoopRefuse(r)
    <2>1. /\ UNCHANGED <<mode, ctx, link, apc, pool, clpc, rest>>
          /\ lpc' = [lpc EXCEPT ![r] = "exited"]
          /\ why' = [why EXCEPT ![r] = IF link[r] = "up" /\ why[r] = "none"
                                      THEN "refused" ELSE why[r]]
        BY <1>1 DEF LoopRefuse, Exit, Blame
    <2>2. r = Primary => Refusable
        <3>1. wire[r] \in Malformed => to[wire[r]] = r /\ kst[wire[r]] = "sent"
            BY CmdsAssumption DEF WireInv
        <3>2. wire[r] \in Malformed \/ rest[r] # "none"
            BY <1>1 DEF LoopRefuse
        <3> QED
            BY <3>1, <3>2 DEF Refusable
    <2>3. Reason => Reason'
        BY <2>1
    <2>4. link[Primary] # "up" => Reason'
        BY <2>3
    <2>5. why'[Primary] = "refused" => Refusable'
        BY <2>1, <2>2
    <2>6. r = Primary /\ link[Primary] = "up" => Reason'
        BY <2>1, <2>5
    <2>7. \A q \in Regs : link'[q] = "up" => why'[q] \in {"none", "refused"}
        BY <2>1
    <2>8. lpc'[Primary] = "exited" => Reason'
        BY <2>1, <2>3, <2>4, <2>6
    <2> QED
        BY <2>1, <2>3, <2>5, <2>7, <2>8
<1>2. CASE ~LoopRefuse(r)
    <2>1. UNCHANGED <<mode, ctx, link, why, apc, pool, clpc>>
        BY <1>2 DEF LoopStep, LoopTop, LoopRead, LoopReadError, LoopQueue,
                    LoopQueueCancelled, LoopAck, LoopAckError
    <2>2. lpc'[Primary] = "exited" => Reason
        BY <1>2 DEF LoopStep, LoopTop, LoopRead, LoopReadError, LoopQueue,
                    LoopQueueCancelled, LoopAck, LoopAckError, Exit, Done
    <2>3. \A q \in Regs : rest'[q] # "none" => mode = "v1"
        BY <1>2 DEF LoopStep, LoopTop, LoopRead, LoopReadError, LoopQueue,
                    LoopQueueCancelled, LoopAck, LoopAckError
    <2> QED
        BY <2>1, <2>2, <2>3
<1> QED
    BY <1>1, <1>2

\* A step that takes no link down, starts no end and gives no reason.
LEMMA ReasonStays ==
    ASSUME ReasonInv, Refusable => Refusable',
           UNCHANGED <<mode, ctx, link, why, rest, pool, clpc>>,
           lpc'[Primary] = "exited" => lpc[Primary] = "exited",
           \A a \in Acceptors : apc'[a] = "over" => Reason
    PROVE  ReasonInv'
    BY DEF ReasonInv, Reason, ClosedForAReason

\* A link goes down with a reason, or because there already is one.
LEMMA DownReason ==
    ASSUME TypeOK, ReasonInv, Refusable => Refusable',
           NEW r \in Regs, NEW reason \in {"none", "lost", "scaled"},
           reason = "none" /\ r = Primary => Reason,
           reason = "scaled" => mode = "pool",
           TakeDown(r, reason),
           UNCHANGED <<mode, ctx, rest, lpc, apc>>,
           clpc' # "none" => clpc # "none",
           pool' # <<>> => pool # <<>>
    PROVE  ReasonInv'
<1>1. /\ link' = [link EXCEPT ![r] = "down"]
      /\ why' = [why EXCEPT ![r] = IF link[r] = "up" /\ why[r] = "none"
                                  THEN reason ELSE why[r]]
    BY DEF TakeDown, Blame
<1>2. Reason => Reason'
    BY <1>1, RegsAssumption DEF Reason, TypeOK
<1>3. why'[Primary] = "refused" => Refusable'
    BY <1>1, RegsAssumption DEF ReasonInv, TypeOK
<1>4. link'[Primary] # "up" => Reason'
    <2>1. CASE link[Primary] # "up" \/ Reason
        BY <1>2, <2>1 DEF ReasonInv
    <2>2. CASE link[Primary] = "up" /\ r # Primary
        BY <1>1, <2>2, RegsAssumption DEF TypeOK
    <2>3. CASE link[Primary] = "up" /\ r = Primary /\ ~Reason
        <3>1. why[Primary] = "none" /\ reason \in {"lost", "scaled"}
            BY <2>3 DEF ReasonInv, Reason
        <3>2. why'[Primary] = reason
            BY <1>1, <2>3, <3>1 DEF TypeOK
        <3> QED
            BY <3>1, <3>2 DEF Reason
    <2> QED
        BY <2>1, <2>2, <2>3
<1>5. \A q \in Regs : link'[q] = "up" => why'[q] \in {"none", "refused"}
    BY <1>1 DEF ReasonInv, TypeOK
<1> QED
    BY <1>2, <1>3, <1>4, <1>5 DEF ReasonInv, ClosedForAReason

\* Every step keeps the reasons.
LEMMA StepReason ==
    ASSUME TypeOK, Conveyance, ReasonInv, [Next]_vars
    PROVE  ReasonInv'
<1> USE RegsAssumption DEF linkVars, loopVars, acceptVars, sendVars
<1>0. Refusable => Refusable'
    BY RefusableStays
<1>1. ASSUME NEW r \in Regs, LoopStep(r) PROVE ReasonInv'
    BY <1>0, <1>1, LoopReason DEF Conveyance
<1>2. ASSUME NEW r \in Regs, Closer(r) PROVE ReasonInv'
    <2>1. r = Primary => Reason
        BY <1>2 DEF Closer, Done, ReasonInv, Reason, TypeOK
    <2>2. UNCHANGED <<mode, ctx, rest, lpc, apc, clpc, pool>>
        BY <1>2 DEF Closer
    <2>3. CASE TakeDown(r, "none")
        BY <1>0, <2>1, <2>2, <2>3, DownReason
    <2>4. CASE /\ link' = [link EXCEPT ![r] = IF link[r] = "up" THEN "half" ELSE link[r]]
               /\ why' = why
        <3>1. Reason => Reason'
            BY <1>0, <2>2, <2>4 DEF Reason
        <3>2. link'[Primary] # "up" => Reason'
            BY <2>1, <2>4, <3>1 DEF ReasonInv, TypeOK
        <3>3. \A q \in Regs : link'[q] = "up" => why'[q] \in {"none", "refused"}
            BY <2>4 DEF ReasonInv, TypeOK
        <3> QED
            BY <1>0, <2>2, <2>4, <3>1, <3>2, <3>3 DEF ReasonInv, ClosedForAReason
    <2> QED
        BY <1>2, <2>3, <2>4 DEF Closer
<1>3. ASSUME NEW r \in Regs, Lose(r) PROVE ReasonInv'
    BY <1>0, <1>3, DownReason DEF Lose
<1>4. ASSUME NEW r \in Regs, PoolGrows(r) PROVE ReasonInv'
    <2>1. UNCHANGED <<mode, ctx, link, why, rest, apc, clpc>> /\ mode = "pool"
        BY <1>4 DEF PoolGrows
    <2>2. lpc'[Primary] = "exited" => lpc[Primary] = "exited"
        BY <1>4 DEF PoolGrows, TypeOK
    <2> QED
        BY <1>0, <2>1, <2>2 DEF ReasonInv, Reason, ClosedForAReason
<1>5. ASSUME NEW k \in Cmds, SendStep(k) PROVE ReasonInv'
    <2>1. UNCHANGED <<mode, ctx, why, rest, lpc, apc, clpc, pool>>
        BY <1>5 DEF SendStep, SendAcked, SendFailed
    <2>2. \A r \in Regs : link'[r] = "up" <=> link[r] = "up"
        BY <1>5 DEF SendStep, SendAcked, SendFailed, TypeOK
    <2> QED
        BY <1>0, <2>1, <2>2 DEF ReasonInv, Reason, ClosedForAReason
<1>6. ASSUME \/ \E k \in Cmds : AppCloses(k) \/ BindCloser(k)
             \/ \E k \in Cmds, r \in Regs : Send(k, r)
             \/ UNCHANGED vars
      PROVE  ReasonInv'
    <2>1. UNCHANGED <<mode, ctx, link, why, rest, pool, clpc, lpc, apc>>
        BY <1>6 DEF AppCloses, BindCloser, Send, vars
    <2> QED
        BY <1>0, <2>1, ReasonStays DEF ReasonInv, ClosedForAReason
<1>7. ASSUME NEW a \in Acceptors, AcceptStep(a) PROVE ReasonInv'
    <2>1. UNCHANGED <<mode, link, why, rest, pool, clpc, lpc>>
        BY <1>7 DEF AcceptStep, AcceptCtx, AcceptClosed, AcceptCommand, HandlerReturns,
                    Connect, DialFails, OpenStreamFails, BindSucceeds, BindFails
    <2>2. ctx' = ctx \/ (ctx = "live" /\ ctx' = "dialFailed" /\ mode = "v1")
        BY <1>7 DEF AcceptStep, AcceptCtx, AcceptClosed, AcceptCommand, HandlerReturns,
                    Connect, DialFails, OpenStreamFails, BindSucceeds, BindFails
    <2>3. ASSUME NEW b \in Acceptors, apc'[b] = "over" PROVE Reason
        <3>1. apc[b] = "over" \/ ctx # "live" \/ lpc[Primary] = "exited"
            BY <1>7, <2>3 DEF AcceptStep, AcceptCtx, AcceptClosed, AcceptCommand,
                              HandlerReturns, Connect, DialFails, OpenStreamFails,
                              BindSucceeds, BindFails, Finish, TypeOK
        <3> QED
            BY <3>1 DEF ReasonInv, ClosedForAReason, Reason, TypeOK
    <2>4. Reason => Reason'
        BY <1>0, <2>1, <2>2 DEF Reason
    <2> QED
        BY <1>0, <2>1, <2>2, <2>3, <2>4 DEF ReasonInv, ClosedForAReason
<1>8. CASE CancelParent \/ CloseCancel
    <2>1. UNCHANGED <<mode, link, why, rest, pool, lpc, apc>>
        BY <1>8 DEF CancelParent, CloseCancel
    <2>2. ctx' = "cancelled" \/ (ctx' = ctx /\ ctx # "live")
        BY <1>8 DEF CancelParent, CloseCancel
    <2>3. Reason'
        BY <1>0, <2>1, <2>2 DEF Reason, ReasonInv, TypeOK
    <2> QED
        BY <1>0, <2>1, <2>2, <2>3 DEF ReasonInv, ClosedForAReason
<1>9. CASE CloseStep
    <2>1. Reason
        BY <1>9 DEF CloseStep, ClosePool, CloseClient, CloseReturn, ReasonInv, Reason,
                    TypeOK
    <2>2. CASE ClosePool
        <3>1. /\ UNCHANGED <<mode, ctx, why, rest, lpc, apc>> /\ pool' = <<>>
              /\ clpc # "none"
              /\ \A r \in Regs : link'[r] = "up" => link[r] = "up"
            BY <2>2 DEF ClosePool
        <3>2. Reason'
            BY <1>0, <2>1, <3>1 DEF Reason
        <3> QED
            BY <1>0, <3>1, <3>2 DEF ReasonInv, ClosedForAReason
    <2>3. CASE CloseClient
        BY <1>0, <2>1, <2>3, DownReason DEF CloseClient
    <2>4. CASE CloseReturn
        <3>1. UNCHANGED <<mode, ctx, link, why, rest, pool, lpc, apc>> /\ clpc # "none"
            BY <2>4 DEF CloseReturn
        <3> QED
            BY <1>0, <3>1 DEF ReasonInv, Reason, ClosedForAReason
    <2> QED
        BY <1>9, <2>2, <2>3, <2>4 DEF CloseStep
<1>10. CASE PoolShrinks
    <2>1. PICK i \in DOMAIN pool :
              /\ TakeDown(pool[i], "scaled")
              /\ pool' = SubSeq(pool, 1, i - 1) \o SubSeq(pool, i + 1, Len(pool))
        BY <1>10 DEF PoolShrinks
    <2>2. pool[i] \in Regs /\ pool # <<>>
        BY <2>1, ShrinksOne DEF TypeOK
    <2>3. mode = "pool" /\ UNCHANGED <<mode, ctx, rest, lpc, apc, clpc>>
        BY <1>10, <2>2 DEF PoolShrinks, ReasonInv
    <2> QED
        BY <1>0, <2>1, <2>2, <2>3, DownReason
<1> QED
    BY <1>1, <1>2, <1>3, <1>4, <1>5, <1>6, <1>7, <1>8, <1>9, <1>10 DEF Next

-----------------------------------------------------------------------------
(* Theorems *)

LEMMA InitIndInv == Init => IndInv
<1> SUFFICES ASSUME Init PROVE IndInv
    OBVIOUS
<1>1. TypeOK
    <2>1. /\ pool \in Seq(Regs)
          /\ cmds \in [Regs -> Seq(Cmds)] /\ \A r \in Regs : Len(cmds[r]) <= Cap
        BY RegsAssumption, BoundsAssumption DEF Init
    <2> QED
        BY <2>1, RegsAssumption DEF Init, TypeOK
<1>2. \A r \in Regs : Queued(r) = {} /\ Len(cmds[r]) = 0
    BY DEF Init, Queued
<1>3. \A k \in Cmds : ~Taken(k)
    BY <1>2, RegsAssumption, CmdsAssumption DEF Init, Taken
<1>4. WireInv /\ LoopInv
    BY RegsAssumption DEF Init, WireInv, LoopInv
<1>5. TakenInv
    BY <1>2 DEF Init, TakenInv
<1>6. SenderInv
    BY <1>3 DEF Init, SenderInv
<1>7. ReasonInv
    BY RegsAssumption DEF Init, ReasonInv, ClosedForAReason
<1> QED
    BY <1>1, <1>4, <1>5, <1>6, <1>7 DEF IndInv, Conveyance

LEMMA Invariance == Spec => []IndInv
<1>1. Init => IndInv
    BY InitIndInv
<1>2. IndInv /\ [Next]_vars => IndInv'
    BY StepTypes, StepConveyance, StepReason DEF IndInv
<1> QED
    BY <1>1, <1>2, PTL DEF Spec

\* The listener's state stays well typed; in particular the loop never puts
\* more into the channel than it has slots (client.go:335-339, 381-385).
THEOREM TypeCorrect == Spec => []TypeOK
<1>1. IndInv => TypeOK
    BY DEF IndInv
<1> QED
    BY <1>1, Invariance, PTL

\* Two places that hold a command are the same place.
LEMMA OneHolder ==
    ASSUME IndInv, NEW k \in Cmds, NEW x \in Holders(k), NEW y \in Holders(k)
    PROVE  x = y
<1> DEFINE W == {q \in Regs : wire[q] = k}
           L == {q \in Regs : lpc[q] = "queueing" /\ cur[q] = k}
           S == {j \in 1..Len(cmds[to[k]]) : cmds[to[k]][j] = k}
           A == {b \in Acceptors : acmd[b] = k}
           D == {outcome[k]} \ {"none"}
<1>0. k # NoCmd /\ to[k] \in Regs
    BY CmdsAssumption DEF IndInv, TypeOK
<1>1. Taken(k) <=> S # {} \/ A # {} \/ D # {}
    BY DEF Taken, Queued
<1>2. /\ W \subseteq {to[k]} /\ L \subseteq {to[k]}
      /\ W # {} => L = {} /\ ~Taken(k)
      /\ L # {} => ~Taken(k)
    BY <1>0 DEF IndInv, Conveyance, WireInv, LoopInv
<1>3. \A i, j \in S : i = j
    BY <1>0 DEF IndInv, Conveyance, TakenInv
<1>4. \A a, b \in A : a = b
    BY <1>0 DEF IndInv, Conveyance, TakenInv
<1>5. /\ S # {} => A = {} /\ D = {}
      /\ A # {} => D = {}
    <2>1. S # {} => k \in Queued(to[k])
        BY DEF Queued
    <2>2. k \in Queued(to[k]) => A = {} /\ D = {}
        BY <1>0 DEF IndInv, Conveyance, TakenInv
    <2>3. A # {} => D = {}
        BY <1>0 DEF IndInv, Conveyance, TakenInv
    <2> QED
        BY <2>1, <2>2, <2>3
<1>6. Holders(k) = {<<"wire", r>> : r \in W} \cup {<<"loop", r>> : r \in L} \cup
                   {<<"slot", i>> : i \in S} \cup {<<"acceptor", a>> : a \in A} \cup
                   {<<"done", o>> : o \in D}
    BY DEF Holders
<1>7. \A o, p \in D : o = p
    OBVIOUS
<1> HIDE DEF W, L, S, A, D
<1> QED
    BY <1>1, <1>2, <1>3, <1>4, <1>5, <1>6, <1>7

\* No command is called back twice or stays in the channel after Accept is done
\* with it, however many acceptors and registrations there are
\* (client.go:299-391, listener.go:148-183).
THEOREM InOnePlaceTheorem == Spec => []InOnePlace
<1>1. IndInv => InOnePlace
    <2> SUFFICES ASSUME IndInv, NEW k \in Cmds
                 PROVE  Cardinality(Holders(k)) <= 1
        BY DEF InOnePlace
    <2>1. CASE Holders(k) = {}
        BY <2>1, FS_EmptySet
    <2>2. ASSUME NEW x \in Holders(k) PROVE Cardinality(Holders(k)) <= 1
        <3>1. Holders(k) = {x}
            BY OneHolder
        <3>2. Cardinality({x}) = 1
            BY FS_Singleton
        <3> QED
            BY <3>1, <3>2
    <2> QED
        BY <2>1, <2>2
<1> QED
    BY <1>1, Invariance, PTL

\* What was acknowledged waits in the channel or is with Accept
\* (client.go:335-341, 381-387).
THEOREM AckedIsKeptTheorem == Spec => []AckedIsKept
<1>1. IndInv => AckedIsKept
    <2> SUFFICES ASSUME IndInv, NEW k \in Cmds \ Pings,
                        kst[k] \in {"answered", "acked"}
                 PROVE  Holders(k) # {}
        BY DEF AckedIsKept
    <2>1. Taken(k)
        BY DEF IndInv, Conveyance, SenderInv
    <2>2. CASE k \in Queued(to[k])
        <3>1. PICK i \in 1..Len(cmds[to[k]]) : cmds[to[k]][i] = k
            BY <2>2 DEF Queued
        <3>2. <<"slot", i>> \in Holders(k)
            BY <3>1 DEF Holders
        <3> QED
            BY <3>2
    <2>3. CASE \E a \in Acceptors : acmd[a] = k
        <3>1. PICK a \in Acceptors : acmd[a] = k
            BY <2>3
        <3>2. <<"acceptor", a>> \in Holders(k)
            BY <3>1 DEF Holders
        <3> QED
            BY <3>2
    <2>4. CASE outcome[k] # "none"
        <3>1. outcome[k] \in {outcome[k]} \ {"none"}
            BY <2>4
        <3>2. <<"done", outcome[k]>> \in Holders(k)
            BY <3>1 DEF Holders
        <3> QED
            BY <3>2
    <2> QED
        BY <2>1, <2>2, <2>3, <2>4 DEF Taken
<1> QED
    BY <1>1, Invariance, PTL

\* Accept reports a closed listener only for one of the listed reasons, and if
\* that is a refused command there was one to refuse: sent malformed, or the rest
\* of an identifier on a V1 connection (listener.go:151-156, 228,
\* client.go:299-313, 324-327, 377-379).
THEOREM ReasonTheorem == Spec => []ClosedForAReason
<1>1. IndInv => ClosedForAReason
    BY DEF IndInv, ReasonInv
<1> QED
    BY <1>1, Invariance, PTL
=============================================================================

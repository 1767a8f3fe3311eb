--------------------------- MODULE ControlProofs ---------------------------
(***************************************************************************)
(* Proofs about Control, for any number of listeners, identifiers and      *)
(* senders.                                                                *)
(***************************************************************************)
EXTENDS Control, TLAPS

USE RegsAssumption, SubsetsAssumption

-----------------------------------------------------------------------------
(* Type correctness *)

LEMMA InitType == Init => TypeOK
<1> SUFFICES ASSUME Init PROVE TypeOK
    OBVIOUS
<1>1. /\ stop \in {"running", "stopping", "stopped"}
      /\ ctxDone \in BOOLEAN
      /\ list \subseteq Regs /\ closed \subseteq Regs /\ lost \subseteq Regs
      /\ state \in [Regs -> {"processing", "registered", "disconnected"}]
    BY DEF Init
<1>2. /\ gpc \in [Regs -> KeeperPCs]
      /\ kpc \in [Regs -> CloserPCs]
      /\ spc \in [Senders -> SenderPCs]
      /\ sel \in [Senders -> Regs \cup {NoReg}]
      /\ \A s \in Senders : spc[s] = "idle"
    BY DEF Init, KeeperPCs, CloserPCs, SenderPCs
<1> QED
    BY <1>1, <1>2 DEF TypeOK

LEMMA KeeperType ==
    ASSUME TypeOK, NEW r \in Regs,
           Register(r) \/ Lose(r) \/ KeeperStep(r) \/ CloserStep(r)
    PROVE  TypeOK'
<1> USE DEF TypeOK, KeeperPCs, CloserPCs, CloseServer, Matching
<1>1. CASE Register(r) \/ Lose(r)
    BY <1>1 DEF Register, Lose
<1>2. CASE Add(r)
    BY <1>2 DEF Add
<1>3. CASE Replace(r)
    BY <1>3 DEF Replace
<1>4. CASE WatchV1(r) \/ AcceptStreamError(r) \/ Remove(r)
    BY <1>4 DEF WatchV1, AcceptStreamError, Remove
<1>5. CASE RemoveDrop(r)
    BY <1>5 DEF RemoveDrop, Drop
<1>6. CASE CloserStep(r)
    BY <1>6 DEF CloserStep, CloserWakes, CloserCloses
<1> QED
    BY <1>1, <1>2, <1>3, <1>4, <1>5, <1>6 DEF KeeperStep

LEMMA SenderType ==
    ASSUME TypeOK, NEW s \in Senders,
           Pick(s) \/ SenderStep(s) \/ Served(s)
    PROVE  TypeOK'
<1> USE DEF TypeOK, SenderPCs
<1>1. CASE Pick(s)
    BY <1>1 DEF Pick
<1>2. CASE CheckState(s) \/ AddRequest(s) \/ Send(s)
    BY <1>2 DEF CheckState, AddRequest, Send
<1>3. CASE Answer(s) \/ ReadError(s) \/ RemoveFailed(s)
    BY <1>3 DEF Answer, ReadError, RemoveFailed, Through
<1>4. CASE DropFailed(s)
    BY <1>4 DEF DropFailed, Drop, CloseServer, Matching, Through
<1>5. CASE Served(s) \/ RemoveRequest(s)
    BY <1>5 DEF Served, RemoveRequest
<1> QED
    BY <1>1, <1>2, <1>3, <1>4, <1>5 DEF SenderStep

LEMMA StepType == TypeOK /\ [Next]_vars => TypeOK'
<1>1. TypeOK /\ (StopCancel \/ StopReturn \/ UNCHANGED vars) => TypeOK'
    BY DEF TypeOK, StopCancel, StopReturn, vars
<1> QED
    BY <1>1, KeeperType, SenderType DEF Next

-----------------------------------------------------------------------------
(* The inductive invariant *)

LEMMA InitIndInv == Init => IndInv
    BY InitType DEF Init, IndInv, OnePerID, ListedHaveKeeper, ListedAreOpen,
                    UnmanagedUntouched, ClosersFollowCtx

\* RemoveConnection, whoever calls it, takes the connection it closes off the
\* list, and afterwards nothing on the list has that identifier.
LEMMA DropEffect ==
    ASSUME IndInv, NEW id, Drop(id)
    PROVE  \E x \in list : /\ ID[x] = id
                           /\ list' = list \ {x}
                           /\ closed' = closed \cup {x}
                           /\ \A y \in list' : ID[y] # id
    BY DEF IndInv, OnePerID, Drop, CloseServer, Matching

LEMMA KeeperPreserves ==
    ASSUME IndInv, TypeOK', NEW r \in Regs,
           Register(r) \/ Lose(r) \/ KeeperStep(r) \/ CloserStep(r)
    PROVE  IndInv'
<1> USE DEF IndInv, TypeOK, OnePerID, ListedHaveKeeper, ListedAreOpen,
            UnmanagedUntouched, ClosersFollowCtx
<1>1. CASE Register(r) \/ Lose(r)
    BY <1>1 DEF Register, Lose
<1>2. CASE Add(r)
    BY <1>2 DEF Add, Matching
<1>3. CASE Replace(r)
    <2>1. PICK old \in list :
              /\ ID[old] = ID[r]
              /\ closed' = closed \cup {old}
              /\ list' = (list \ {old}) \cup {r}
        BY <1>3 DEF Replace, Matching, CloseServer
    <2>2. /\ gpc[r] = "replacing"
          /\ gpc' = [gpc EXCEPT ![r] = "watching"]
          /\ kpc' = [kpc EXCEPT ![r] = IF r \in V2 THEN "live" ELSE @]
          /\ UNCHANGED ctxDone
        BY <1>3 DEF Replace
    <2>3. OnePerID'
        BY <2>1
    <2>4. r \notin closed' /\ old \notin list'
        BY <2>1, <2>2
    <2>5. ListedHaveKeeper' /\ ListedAreOpen'
        BY <2>1, <2>2, <2>4
    <2>6. UnmanagedUntouched' /\ ClosersFollowCtx'
        BY <2>1, <2>2
    <2> QED
        BY <2>3, <2>5, <2>6
<1>4. CASE WatchV1(r) \/ AcceptStreamError(r)
    BY <1>4 DEF WatchV1, AcceptStreamError
<1>5. CASE Remove(r)
    BY <1>5 DEF Remove, Matching
<1>6. CASE RemoveDrop(r)
    <2>1. PICK x \in list : /\ ID[x] = ID[r]
                            /\ list' = list \ {x}
                            /\ closed' = closed \cup {x}
                            /\ \A y \in list' : ID[y] # ID[r]
        BY <1>6, DropEffect DEF RemoveDrop
    <2>2. /\ gpc[r] = "dropping"
          /\ gpc' = [gpc EXCEPT ![r] = "exited"]
          /\ UNCHANGED <<kpc, ctxDone>>
        BY <1>6 DEF RemoveDrop
    <2> QED
        BY <2>1, <2>2
<1>7. CASE CloserWakes(r)
    BY <1>7 DEF CloserWakes
<1>8. CASE CloserCloses(r)
    BY <1>8 DEF CloserCloses, CloseServer
<1> QED
    BY <1>1, <1>2, <1>3, <1>4, <1>5, <1>6, <1>7, <1>8 DEF KeeperStep, CloserStep

LEMMA SenderPreserves ==
    ASSUME IndInv, TypeOK', NEW s \in Senders,
           Pick(s) \/ SenderStep(s) \/ Served(s)
    PROVE  IndInv'
<1> USE DEF IndInv, TypeOK, OnePerID, ListedHaveKeeper, ListedAreOpen,
            UnmanagedUntouched, ClosersFollowCtx
<1>1. CASE DropFailed(s)
    <2>1. PICK x \in list : list' = list \ {x} /\ closed' = closed \cup {x}
        BY <1>1, DropEffect DEF DropFailed
    <2>2. UNCHANGED <<gpc, kpc, ctxDone>>
        BY <1>1 DEF DropFailed
    <2> QED
        BY <2>1, <2>2
<1>2. CASE ~DropFailed(s)
    <2>1. UNCHANGED <<list, closed, gpc, kpc, ctxDone>>
        BY <1>2 DEF Pick, SenderStep, CheckState, AddRequest, Send, Answer,
                    ReadError, RemoveFailed, Served, RemoveRequest
    <2> QED
        BY <2>1
<1> QED
    BY <1>1, <1>2

LEMMA StepPreserves == IndInv /\ [Next]_vars => IndInv'
<1> SUFFICES ASSUME IndInv, [Next]_vars PROVE IndInv'
    OBVIOUS
<1>1. TypeOK'
    BY StepType DEF IndInv
<1>2. CASE StopCancel \/ StopReturn \/ UNCHANGED vars
    BY <1>1, <1>2 DEF StopCancel, StopReturn, vars, IndInv, OnePerID,
        ListedHaveKeeper, ListedAreOpen, UnmanagedUntouched, ClosersFollowCtx
<1> QED
    BY <1>1, <1>2, KeeperPreserves, SenderPreserves DEF Next

-----------------------------------------------------------------------------
(* Theorems *)

THEOREM Invariance == Spec => []IndInv
<1> QED
    BY InitIndInv, StepPreserves, PTL DEF Spec

\* Every variable keeps its type; a sender past GetConn has a server.
THEOREM TypeCorrect == Spec => []TypeOK
<1>1. IndInv => TypeOK
    BY DEF IndInv
<1> QED
    BY <1>1, Invariance, PTL

\* Every managed connection has a keeper goroutine that will remove it,
\* however registrations of one identifier replace and remove one another.
THEOREM EveryListedHasKeeper == Spec => []ListedHaveKeeper
<1>1. IndInv => ListedHaveKeeper
    BY DEF IndInv
<1> QED
    BY <1>1, Invariance, PTL

\* While the dialer runs, GetConn hands out no connection the dialer closed.
THEOREM NoClosedConnectionListed == Spec => []ListedAreOpen
<1>1. IndInv => ListedAreOpen
    BY DEF IndInv
<1> QED
    BY <1>1, Invariance, PTL

\* No two managed connections share an identifier, although AddConnection waits
\* for the command on the connection it replaces.
THEOREM OneConnectionPerID == Spec => []OnePerID
<1>1. IndInv => OnePerID
    BY DEF IndInv
<1> QED
    BY <1>1, Invariance, PTL

=============================================================================

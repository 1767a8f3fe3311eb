----------------------------- MODULE PoolProofs -----------------------------
(***************************************************************************)
(* Proofs about Pool, for any connections, openers and valid Config.       *)
(***************************************************************************)
EXTENDS Pool, SequenceLemmas, FiniteSetTheorems, TLAPS

-----------------------------------------------------------------------------
(* Counting openers *)

\* One more or one less opener in a set is one more or one less counted.
LEMMA CountOneMore ==
    ASSUME NEW S \in SUBSET Openers, NEW o \in Openers \ S
    PROVE  Cardinality(S \cup {o}) = Cardinality(S) + 1
<1>1. IsFiniteSet(S)
    BY OpenersAssumption, FS_Subset
<1> QED
    BY <1>1, FS_AddElement

LEMMA CountOneLess ==
    ASSUME NEW S \in SUBSET Openers, NEW o \in S
    PROVE  Cardinality(S \ {o}) = Cardinality(S) - 1
<1>1. IsFiniteSet(S)
    BY OpenersAssumption, FS_Subset
<1> QED
    BY <1>1, FS_RemoveElement

\* The counters stay right in a step that moves no opener and no counter.
LEMMA CountersUntouched ==
    ASSUME CountersAgree, UNCHANGED openerVars
    PROVE  CountersAgree'
    BY DEF CountersAgree, Holders, openerVars

-----------------------------------------------------------------------------
(* The inductive invariant *)

LEMMA InitIndInv == Init => IndInv
<1> SUFFICES ASSUME Init PROVE IndInv
    OBVIOUS
<1>1. ToSet(connections) = {} /\ IsInjective(connections) /\ Len(connections) = 0
    BY DEF Init, ToSet, IsInjective
<1>2. /\ {o \in Openers : opc[o] = "using"} = {}
      /\ \A c \in Conns : Holders(c) = {}
    BY DEF Init, Holders
<1>3. CountersAgree
    <2>1. Cardinality({}) = 0
        BY FS_EmptySet
    <2>2. active = Cardinality({o \in Openers : opc[o] = "using"})
        BY <1>2, <2>1 DEF Init
    <2>3. \A c \in Conns : streams[c] = Cardinality(Holders(c))
        BY <1>2, <2>1 DEF Init
    <2> QED
        BY <2>2, <2>3 DEF CountersAgree
<1>4. TypeOK
    <2>1. /\ opc \in [Openers -> OpenerPCs]
          /\ on \in [Openers -> Conns \cup {NoConn}]
          /\ \A o \in Openers : opc[o] # "idle" => on[o] \in Conns
        BY DEF Init, OpenerPCs
    <2>2. streams \in [Conns -> Int] /\ active \in Int /\ count \in Nat
        BY DEF Init
    <2>3. connections \in Seq(Conns)
        BY DEF Init
    <2>4. cooled \in BOOLEAN /\ ctxDone \in BOOLEAN
        BY DEF Init
    <2> QED
        BY <2>1, <2>2, <2>3, <2>4 DEF Init, TypeOK, MonitorPCs
<1>5. CapacityRespected
    BY <1>1, ConfigAssumption DEF CapacityRespected, ValidConfig
<1> QED
    BY <1>1, <1>3, <1>4, <1>5 DEF Init, IndInv, PooledAreOpen, Whereabouts, MonitorLife

\* Both callers of AddConnection's body: the list takes a connection that exists
\* nowhere else (pool.go:142-158).
LEMMA AppendKeepsList ==
    ASSUME IndInv, NEW c \in Conns, AppendConnection(c),
           c \notin ToSet(connections), c \notin closed, closed' = closed
    PROVE  /\ connections' \in Seq(Conns) /\ count' \in Nat
           /\ CapacityRespected' /\ PooledAreOpen'
           /\ ToSet(connections') = ToSet(connections) \cup {c}
<1>1. /\ connections \in Seq(Conns)
      /\ Len(connections) < MaxConnections
      /\ connections' = Append(connections, c)
      /\ count' = Len(connections')
      /\ PooledAreOpen
    BY DEF IndInv, TypeOK, AppendConnection, SetConnections
<1>2. /\ connections' \in Seq(Conns)
      /\ Len(connections') = Len(connections) + 1
      /\ ToSet(connections') = ToSet(connections) \cup {c}
      /\ IsInjective(connections')
    BY <1>1, AppendElements DEF PooledAreOpen
<1>3. CapacityRespected'
    BY <1>1, <1>2, ConfigAssumption DEF CapacityRespected, ValidConfig
<1> QED
    BY <1>1, <1>2, <1>3 DEF PooledAreOpen

\* Both removals take out the connection they close, and nothing else
\* (pool.go:171-184, 349-359).
LEMMA RemoveKeepsList ==
    ASSUME IndInv, NEW i \in DOMAIN connections,
           SetConnections(RemoveAt(connections, i)),
           closed' = closed \cup {connections[i]}
    PROVE  /\ connections' \in Seq(Conns) /\ count' \in Nat
           /\ CapacityRespected' /\ PooledAreOpen'
           /\ connections[i] \in Conns
           /\ connections[i] \in ToSet(connections)
           /\ ToSet(connections') = ToSet(connections) \ {connections[i]}
<1>1. /\ connections \in Seq(Conns)
      /\ i \in 1..Len(connections)
      /\ connections' = RemoveAt(connections, i)
      /\ count' = Len(connections')
      /\ CapacityRespected /\ PooledAreOpen
    BY DEF IndInv, TypeOK, SetConnections
<1>2. /\ connections' \in Seq(Conns)
      /\ Len(connections') = Len(connections) - 1
    BY <1>1, RemoveAtElements
<1>3. /\ IsInjective(connections')
      /\ ToSet(connections') = ToSet(connections) \ {connections[i]}
    BY <1>1, RemoveAtInjective DEF PooledAreOpen
<1>4. CapacityRespected'
    BY <1>1, <1>2, ConfigAssumption DEF CapacityRespected, ValidConfig
<1>5. connections[i] \in Conns /\ connections[i] \in ToSet(connections)
    BY <1>1 DEF ToSet
<1> QED
    BY <1>1, <1>2, <1>3, <1>4, <1>5 DEF PooledAreOpen

-----------------------------------------------------------------------------
(* Steps that change the list *)

LEMMA AddPreserves ==
    ASSUME IndInv, NEW c \in Conns, AddConnection(c)
    PROVE  IndInv'
<1>1. c \notin made /\ c \in Offered /\ c # NoConn
    BY ConnsAssumption DEF AddConnection
<1>2. /\ connections' \in Seq(Conns) /\ count' \in Nat
      /\ CapacityRespected' /\ PooledAreOpen'
      /\ ToSet(connections') = ToSet(connections) \cup {c}
    BY <1>1, AppendKeepsList DEF AddConnection, IndInv, Whereabouts
<1>3. CountersAgree'
    BY CountersUntouched DEF AddConnection, IndInv
<1>4. TypeOK'
    BY <1>2 DEF AddConnection, IndInv, TypeOK, monitorVars, openerVars
<1>5. Whereabouts' /\ MonitorLife'
    BY <1>1, <1>2 DEF AddConnection, IndInv, Whereabouts, MonitorLife, monitorVars
<1> QED
    BY <1>2, <1>3, <1>4, <1>5 DEF IndInv

LEMMA RemovePreserves ==
    ASSUME IndInv, NEW c \in Conns, RemoveConnection(c)
    PROVE  IndInv'
<1>1. PICK i \in DOMAIN connections :
          connections[i] = c /\ SetConnections(RemoveAt(connections, i))
    BY DEF RemoveConnection
<1>2. closed' = closed \cup {c}
    BY DEF RemoveConnection
<1>3. /\ connections' \in Seq(Conns) /\ count' \in Nat
      /\ CapacityRespected' /\ PooledAreOpen'
      /\ c \in ToSet(connections)
      /\ ToSet(connections') = ToSet(connections) \ {c}
    BY <1>1, <1>2, RemoveKeepsList
<1>4. CountersAgree'
    BY CountersUntouched DEF RemoveConnection, IndInv
<1>5. TypeOK'
    BY <1>2, <1>3
    DEF RemoveConnection, IndInv, TypeOK, monitorVars, openerVars, lifeVars
<1>6. Whereabouts' /\ MonitorLife'
    BY <1>2, <1>3
    DEF RemoveConnection, IndInv, Whereabouts, MonitorLife, monitorVars, lifeVars
<1> QED
    BY <1>3, <1>4, <1>5, <1>6 DEF IndInv

\* Adding what scaleUp created, or dropping it at capacity (pool.go:311-317).
LEMMA ScaleUpAddPreserves ==
    ASSUME IndInv, ScaleUpAdd
    PROVE  IndInv'
<1>1. /\ fresh # NoConn /\ fresh \in Conns
      /\ fresh \in made /\ fresh \notin closed \cup ToSet(connections)
      /\ fresh' = NoConn /\ mpc' = "waiting" /\ latency' = "good"
      /\ closed' = closed
      /\ UNCHANGED <<openerVars, phase, ctxDone, made, broken>>
      /\ phase \notin {"new", "closed"}
    BY DEF ScaleUpAdd, IndInv, TypeOK, Whereabouts, MonitorLife, lifeVars
<1>2. CountersAgree'
    BY <1>1, CountersUntouched DEF IndInv
<1>3. CASE AppendConnection(fresh) /\ cooled' = FALSE /\ dropped' = dropped
    <2>1. /\ connections' \in Seq(Conns) /\ count' \in Nat
          /\ CapacityRespected' /\ PooledAreOpen'
          /\ ToSet(connections') = ToSet(connections) \cup {fresh}
        BY <1>1, <1>3, AppendKeepsList
    <2>2. TypeOK'
        BY <1>1, <1>3, <2>1 DEF IndInv, TypeOK, MonitorPCs, openerVars
    <2>3. Whereabouts' /\ MonitorLife'
        BY <1>1, <1>3, <2>1 DEF IndInv, Whereabouts, MonitorLife
    <2> QED
        BY <1>2, <2>1, <2>2, <2>3 DEF IndInv
<1>4. CASE /\ dropped' = dropped \cup {fresh}
           /\ UNCHANGED <<connections, count, cooled>>
    <2>1. TypeOK'
        BY <1>1, <1>4 DEF IndInv, TypeOK, MonitorPCs, openerVars
    <2>2. Whereabouts' /\ MonitorLife'
        BY <1>1, <1>4 DEF IndInv, Whereabouts, MonitorLife
    <2>3. CapacityRespected' /\ PooledAreOpen'
        BY <1>1, <1>4 DEF IndInv, CapacityRespected, PooledAreOpen
    <2> QED
        BY <1>2, <2>1, <2>2, <2>3 DEF IndInv
<1> QED
    BY <1>3, <1>4 DEF ScaleUpAdd

LEMMA ScaleDownPreserves ==
    ASSUME IndInv, ScaleDown
    PROVE  IndInv'
<1>1. /\ mpc = "scaleDown" /\ mpc' = "waiting" /\ latency' = "good"
      /\ UNCHANGED <<fresh, openerVars, phase, ctxDone, made, broken, dropped>>
      /\ phase \notin {"new", "closed"}
      /\ fresh = NoConn
    BY DEF ScaleDown, IndInv, MonitorLife, lifeVars
<1>2. CountersAgree'
    BY <1>1, CountersUntouched DEF IndInv
<1>3. ASSUME NEW i \in DOMAIN connections,
             closed' = closed \cup {connections[i]},
             SetConnections(RemoveAt(connections, i)),
             cooled' = FALSE
      PROVE  IndInv'
    <2>1. /\ connections' \in Seq(Conns) /\ count' \in Nat
          /\ CapacityRespected' /\ PooledAreOpen'
          /\ connections[i] \in Conns
          /\ connections[i] \in ToSet(connections)
          /\ ToSet(connections') = ToSet(connections) \ {connections[i]}
        BY <1>3, RemoveKeepsList
    <2>2. TypeOK'
        BY <1>1, <1>3, <2>1 DEF IndInv, TypeOK, MonitorPCs, openerVars
    <2>3. Whereabouts' /\ MonitorLife'
        BY <1>1, <1>3, <2>1 DEF IndInv, Whereabouts, MonitorLife
    <2> QED
        BY <1>2, <2>1, <2>2, <2>3 DEF IndInv
<1>4. CASE UNCHANGED <<poolVars, cooled>>
    <2>1. TypeOK'
        BY <1>1, <1>4 DEF IndInv, TypeOK, MonitorPCs, openerVars, poolVars
    <2>2. Whereabouts' /\ MonitorLife'
        BY <1>1, <1>4 DEF IndInv, Whereabouts, MonitorLife, poolVars
    <2>3. CapacityRespected' /\ PooledAreOpen'
        BY <1>4 DEF IndInv, CapacityRespected, PooledAreOpen, poolVars
    <2> QED
        BY <1>2, <2>1, <2>2, <2>3 DEF IndInv
<1> QED
    BY <1>3, <1>4 DEF ScaleDown

\* Close empties the list into the closed ones; the wait before it means that
\* scaleUp holds nothing (pool.go:239-252).
LEMMA CloseFinishPreserves ==
    ASSUME IndInv, CloseFinish
    PROVE  IndInv'
<1>1. /\ connections' = <<>> /\ count' = 0
      /\ closed' = closed \cup ToSet(connections)
      /\ mpc \in {"off", "exited"} /\ phase' = "closed"
    BY DEF CloseFinish, SetConnections
<1>2. /\ ToSet(connections') = {} /\ IsInjective(connections')
      /\ Len(connections') = 0 /\ connections' \in Seq(Conns)
    BY <1>1 DEF ToSet, IsInjective
<1>3. ToSet(connections) \subseteq Conns
    BY DEF IndInv, TypeOK, ToSet
<1>4. CountersAgree'
    BY CountersUntouched DEF CloseFinish, IndInv
<1>5. TypeOK'
    BY <1>1, <1>2, <1>3 DEF CloseFinish, IndInv, TypeOK, monitorVars, openerVars
<1>6. Whereabouts' /\ MonitorLife'
    BY <1>1, <1>2 DEF CloseFinish, IndInv, Whereabouts, MonitorLife, monitorVars
<1>7. CapacityRespected' /\ PooledAreOpen'
    BY <1>2, ConfigAssumption DEF CapacityRespected, PooledAreOpen, ValidConfig
<1> QED
    BY <1>4, <1>5, <1>6, <1>7 DEF IndInv

-----------------------------------------------------------------------------
(* Steps that leave the list alone *)

\* Start, the rest of Close, the monitor's decisions, time and the network.
LEMMA QuietPreserves ==
    ASSUME IndInv,
           \/ Start \/ CloseBegin \/ CancelParent \/ Tick \/ MonitorExit
           \/ ScaleUpCheck \/ Cool \/ RecordLatency
           \/ \E c \in Conns : Break(c)
    PROVE  IndInv'
<1>1. UNCHANGED <<connections, count, closed, dropped, fresh, made, openerVars>>
    BY DEF Start, CloseBegin, CancelParent, Tick, MonitorExit, ScaleUpCheck,
           Cool, RecordLatency, Break, poolVars, monitorVars, lifeVars
<1>2. CountersAgree'
    BY <1>1, CountersUntouched DEF IndInv
<1>3. CapacityRespected' /\ PooledAreOpen' /\ Whereabouts'
    BY <1>1 DEF IndInv, CapacityRespected, PooledAreOpen, Whereabouts
<1>4. TypeOK'
    <2>1. /\ phase' \in {"new", "started", "closing", "closed"}
          /\ ctxDone' \in BOOLEAN /\ cooled' \in BOOLEAN
          /\ latency' \in {"good", "fair", "bad"}
          /\ mpc' \in MonitorPCs /\ broken' \subseteq Conns
        BY DEF Start, CloseBegin, CancelParent, Tick, MonitorExit, ScaleUpCheck,
               Cool, RecordLatency, Break, monitorVars, lifeVars, IndInv, TypeOK,
               MonitorPCs
    <2> QED
        BY <1>1, <2>1 DEF IndInv, TypeOK, openerVars
<1>5. MonitorLife'
    BY <1>1
    DEF Start, CloseBegin, CancelParent, Tick, MonitorExit, ScaleUpCheck,
        Cool, RecordLatency, Break, monitorVars, lifeVars, IndInv, MonitorLife
<1> QED
    BY <1>2, <1>3, <1>4, <1>5 DEF IndInv

\* onNewConn's connection is new, and nobody offers it (listener.go:118-142).
LEMMA CreatePreserves ==
    ASSUME IndInv, Create
    PROVE  IndInv'
<1>1. UNCHANGED <<connections, count, closed, dropped, cooled, openerVars,
                  phase, ctxDone, broken>>
    BY DEF Create, poolVars
<1>2. CountersAgree'
    BY <1>1, CountersUntouched DEF IndInv
<1>3. CapacityRespected' /\ PooledAreOpen'
    BY <1>1 DEF IndInv, CapacityRespected, PooledAreOpen
<1>4. TypeOK'
    BY <1>1 DEF Create, IndInv, TypeOK, openerVars, MonitorPCs
<1>5. Whereabouts' /\ MonitorLife'
    BY <1>1, ConnsAssumption DEF Create, IndInv, TypeOK, Whereabouts, MonitorLife
<1> QED
    BY <1>2, <1>3, <1>4, <1>5 DEF IndInv

\* No step of an opener touches the list or the monitor.
LEMMA OpenerLeavesPool ==
    ASSUME IndInv, NEW o \in Openers, OpenerStep(o)
    PROVE  /\ UNCHANGED <<poolVars, monitorVars, lifeVars, dropped>>
           /\ CapacityRespected' /\ PooledAreOpen' /\ Whereabouts' /\ MonitorLife'
<1>1. UNCHANGED <<poolVars, monitorVars, lifeVars, dropped>>
    BY DEF OpenerStep, Select, OpenStream, CountStream, UncountStream, CloseStream
<1> QED
    BY <1>1 DEF IndInv, CapacityRespected, PooledAreOpen, Whereabouts, MonitorLife,
                poolVars, monitorVars, lifeVars

\* Where an opener is, and on what, stays well typed.
LEMMA OpenerTypes ==
    ASSUME IndInv, NEW o \in Openers, OpenerStep(o)
    PROVE  TypeOK'
<1>1. UNCHANGED <<poolVars, monitorVars, lifeVars, dropped>>
    BY OpenerLeavesPool
<1>2. ASSUME NEW i \in DOMAIN connections PROVE connections[i] \in Conns
    BY DEF IndInv, TypeOK
<1>3. /\ active' \in Int
      /\ streams' \in [Conns -> Int]
      /\ opc' \in [Openers -> OpenerPCs]
      /\ on' \in [Openers -> Conns \cup {NoConn}]
      /\ \A p \in Openers : opc'[p] # "idle" => on'[p] \in Conns
    <2>1. CASE Select(o)
        BY <1>2, <2>1 DEF Select, IndInv, TypeOK, OpenerPCs
    <2>2. CASE OpenStream(o)
        BY <2>2 DEF OpenStream, IndInv, TypeOK, OpenerPCs
    <2>3. CASE CountStream(o)
        BY <2>3 DEF CountStream, IndInv, TypeOK, OpenerPCs
    <2>4. CASE UncountStream(o)
        BY <2>4 DEF UncountStream, IndInv, TypeOK, OpenerPCs
    <2>5. CASE CloseStream(o)
        BY <2>5 DEF CloseStream, IndInv, TypeOK, OpenerPCs
    <2> QED
        BY <2>1, <2>2, <2>3, <2>4, <2>5 DEF OpenerStep
<1> QED
    BY <1>1, <1>3 DEF IndInv, TypeOK, poolVars, monitorVars, lifeVars

\* Each step of an opener that moves a counter moves the opener into or out of
\* what that counter counts, and the steps between move neither.
LEMMA OpenerCounts ==
    ASSUME IndInv, NEW o \in Openers, OpenerStep(o)
    PROVE  CountersAgree'
<1> DEFINE using == {p \in Openers : opc[p] = "using"}
<1>0. /\ opc \in [Openers -> OpenerPCs]
      /\ on \in [Openers -> Conns \cup {NoConn}]
      /\ streams \in [Conns -> Int]
      /\ \A p \in Openers : opc[p] # "idle" => on[p] \in Conns
      /\ active = Cardinality(using)
      /\ \A c \in Conns : streams[c] = Cardinality(Holders(c))
    BY DEF IndInv, TypeOK, CountersAgree
<1>1. CASE Select(o)
    <2>1. using' = using /\ \A c \in Conns : Holders(c)' = Holders(c)
        BY <1>0, <1>1 DEF Select, Holders
    <2> QED
        BY <1>0, <1>1, <2>1 DEF Select, CountersAgree
<1>2. CASE OpenStream(o)
    <2>1. using' = using
        BY <1>0, <1>2 DEF OpenStream
    <2>2. CASE opc' = [opc EXCEPT ![o] = "idle"]
        <3>1. \A c \in Conns : Holders(c)' = Holders(c)
            BY <1>0, <1>2, <2>2 DEF OpenStream, Holders
        <3> QED
            BY <1>0, <1>2, <2>1, <2>2, <3>1 DEF OpenStream, CountersAgree
    <2>3. CASE /\ streams' = [streams EXCEPT ![on[o]] = @ + 1]
               /\ opc' = [opc EXCEPT ![o] = "opened"]
               /\ UNCHANGED on
        <3>1. on[o] \in Conns /\ o \notin Holders(on[o])
            BY <1>0, <1>2 DEF OpenStream, Holders
        <3>2. Holders(on[o])' = Holders(on[o]) \cup {o}
            BY <1>0, <2>3 DEF Holders
        <3>3. \A c \in Conns \ {on[o]} : Holders(c)' = Holders(c)
            BY <1>0, <2>3 DEF Holders
        <3>4. Cardinality(Holders(on[o])') = Cardinality(Holders(on[o])) + 1
            BY <3>1, <3>2, CountOneMore DEF Holders
        <3> QED
            BY <1>0, <1>2, <2>1, <2>3, <3>1, <3>3, <3>4 DEF OpenStream, CountersAgree
    <2> QED
        BY <1>2, <2>2, <2>3 DEF OpenStream
<1>3. CASE CountStream(o)
    <2>1. using' = using \cup {o} /\ o \notin using
        BY <1>0, <1>3 DEF CountStream
    <2>2. Cardinality(using') = Cardinality(using) + 1
        BY <2>1, CountOneMore
    <2>3. \A c \in Conns : Holders(c)' = Holders(c)
        BY <1>0, <1>3 DEF CountStream, Holders
    <2> QED
        BY <1>0, <1>3, <2>2, <2>3 DEF CountStream, CountersAgree
<1>4. CASE UncountStream(o)
    <2>1. using' = using \ {o} /\ o \in using
        BY <1>0, <1>4 DEF UncountStream
    <2>2. Cardinality(using') = Cardinality(using) - 1
        BY <2>1, CountOneLess
    <2>3. \A c \in Conns : Holders(c)' = Holders(c)
        BY <1>0, <1>4 DEF UncountStream, Holders
    <2> QED
        BY <1>0, <1>4, <2>2, <2>3 DEF UncountStream, CountersAgree
<1>5. CASE CloseStream(o)
    <2>1. using' = using
        BY <1>0, <1>5 DEF CloseStream
    <2>2. on[o] \in Conns /\ o \in Holders(on[o])
        BY <1>0, <1>5 DEF CloseStream, Holders
    <2>3. ASSUME NEW c \in Conns, c = on[o]
          PROVE  Holders(c)' = Holders(on[o]) \ {o}
        BY <1>0, <1>5, <2>3 DEF CloseStream, Holders
    <2>4. ASSUME NEW c \in Conns, c # on[o]
          PROVE  Holders(c)' = Holders(c)
        BY <1>0, <1>5, <2>4 DEF CloseStream, Holders
    <2>5. Cardinality(Holders(on[o]) \ {o}) = Cardinality(Holders(on[o])) - 1
        BY <2>2, CountOneLess DEF Holders
    <2>6. ASSUME NEW c \in Conns PROVE streams'[c] = Cardinality(Holders(c)')
        BY <1>0, <1>5, <2>2, <2>3, <2>4, <2>5 DEF CloseStream
    <2> QED
        BY <1>0, <1>5, <2>1, <2>6 DEF CloseStream, CountersAgree
<1> QED
    BY <1>1, <1>2, <1>3, <1>4, <1>5 DEF OpenerStep

-----------------------------------------------------------------------------
(* Theorems *)

LEMMA StepPreserves ==
    ASSUME IndInv, [Next]_vars
    PROVE  IndInv'
<1>1. ASSUME NEW o \in Openers, OpenerStep(o) PROVE IndInv'
    BY <1>1, OpenerLeavesPool, OpenerTypes, OpenerCounts DEF IndInv
<1>2. CASE UNCHANGED vars
    <2>1. CountersAgree'
        BY <1>2, CountersUntouched DEF IndInv, vars
    <2> QED
        BY <1>2, <2>1
        DEF vars, poolVars, monitorVars, openerVars, lifeVars, IndInv, TypeOK,
            CapacityRespected, PooledAreOpen, Whereabouts, MonitorLife
<1> QED
    BY <1>1, <1>2, AddPreserves, RemovePreserves, ScaleUpAddPreserves,
       ScaleDownPreserves, CloseFinishPreserves, CreatePreserves, QuietPreserves
    DEF Next, MonitorStep

LEMMA Invariance == Spec => []IndInv
<1>1. Init => IndInv
    BY InitIndInv
<1>2. IndInv /\ [Next]_vars => IndInv'
    BY StepPreserves
<1> QED
    BY <1>1, <1>2, PTL DEF Spec

\* The pool's state stays well typed; in particular no opener ever holds a
\* selection that is not a connection (pool.go:193-202).
THEOREM TypeCorrect == Spec => []TypeOK
<1>1. IndInv => TypeOK
    BY DEF IndInv
<1> QED
    BY <1>1, Invariance, PTL

\* The pool stays within MaxConnections whatever was added between scaleUp's
\* check and its AddConnection (pool.go:296-316).
THEOREM CapacityTheorem == Spec => []CapacityRespected
<1>1. IndInv => CapacityRespected
    BY DEF IndInv
<1> QED
    BY <1>1, Invariance, PTL

\* What the list holds is open, and listed once (pool.go:142-188, 320-365).
THEOREM PooledAreOpenTheorem == Spec => []PooledAreOpen
<1>1. IndInv => PooledAreOpen
    BY DEF IndInv
<1> QED
    BY <1>1, Invariance, PTL

\* Both stream counters count exactly the streams there are, for any number of
\* openers (pool.go:202-213, 375-378; mux_conn.go:49-55, 137-140).
THEOREM CountersTheorem == Spec => []CountersAgree
<1>1. IndInv => CountersAgree
    BY DEF IndInv
<1> QED
    BY <1>1, Invariance, PTL

\* After Close only what a caller added later and what scaleUp dropped at
\* capacity can be open (pool.go:233-252, 311-316).
THEOREM CloseTheorem == Spec => []NothingOpenAfterClose
<1>1. IndInv => NothingOpenAfterClose
    <2> SUFFICES ASSUME IndInv, phase = "closed"
                 PROVE  made \subseteq closed \cup dropped
                                       \cup (ToSet(connections) \cap Offered)
        BY DEF NothingOpenAfterClose
    <2>1. fresh = NoConn /\ ToSet(connections) \subseteq Offered
        BY DEF IndInv, MonitorLife
    <2>2. NoConn \notin made
        BY ConnsAssumption DEF IndInv, TypeOK
    <2> QED
        BY <2>1, <2>2 DEF IndInv, Whereabouts
<1> QED
    BY <1>1, Invariance, PTL
=============================================================================

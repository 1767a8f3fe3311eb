-------------------------- MODULE ConnManagerProofs --------------------------
(***************************************************************************)
(* Proofs about ConnManager, for any set of connections, UUIDs and         *)
(* callers.                                                                *)
(***************************************************************************)
EXTENDS ConnManager, SequenceLemmas, TLAPS

-----------------------------------------------------------------------------
(* The inductive invariant *)

LEMMA InitIndInv == Init => IndInv
<1> SUFFICES ASSUME Init PROVE IndInv
    OBVIOUS
<1>1. ToSet(connections) = {}
    BY DEF Init, ToSet
<1> QED
    BY <1>1 DEF Init, IndInv, TypeOK, PCs, UniqueIDs, ClosedIffLeft,
                ListedWereAdded, ReadersSeeConnections, Unlocked

\* Replacing or appending: the new connection joins, at most the one with the
\* same UUID leaves (manager.go:37-51).
LEMMA AddPreserves ==
    ASSUME IndInv, NEW c \in Conns, AddConnection(c)
    PROVE  IndInv'
<1>0. /\ connections \in Seq(Conns)
      /\ \A i \in 1..Len(connections) : connections[i] \in Conns
      /\ c \notin ToSet(connections)
      /\ UniqueIDs
    BY DEF AddConnection, ListedWereAdded, IndInv, TypeOK
<1>1. /\ c \notin added
      /\ added' = added \cup {c}
      /\ recent' = <<>>
      /\ UNCHANGED <<current, pc, loaded>>
    BY DEF AddConnection
<1>2. CASE Matches(ID[c]) = {} /\ connections' = Append(connections, c) /\ UNCHANGED closed
    <2>1. /\ connections' \in Seq(Conns)
          /\ Len(connections') = Len(connections) + 1
          /\ \A i \in 1..Len(connections) : connections'[i] = connections[i]
          /\ connections'[Len(connections) + 1] = c
        BY <1>0, <1>2
    <2>2. ToSet(connections') = ToSet(connections) \cup {c}
        BY <1>0, <2>1, DOMAIN connections = 1..Len(connections),
           DOMAIN connections' = 1..Len(connections') DEF ToSet
    <2>3. UniqueIDs'
        BY <1>0, <1>2, <2>1 DEF UniqueIDs, Matches
    <2>4. connections' # <<>>
        BY <1>0, <2>1
    <2> QED
        BY <1>0, <1>2, <2>1, <2>2, <2>3, <2>4
        DEF AddConnection, ClosedIffLeft, ListedWereAdded, ReadersSeeConnections,
            IndInv, TypeOK
<1>3. ASSUME NEW i \in DOMAIN connections,
             FirstMatch(ID[c], i),
             closed' = closed \cup {connections[i]},
             connections' = [connections EXCEPT ![i] = c]
      PROVE  IndInv'
    <2>1. i \in 1..Len(connections) /\ ID[connections[i]] = ID[c]
        BY <1>0, <1>3 DEF FirstMatch, Matches
    <2>2. /\ connections' \in Seq(Conns)
          /\ Len(connections') = Len(connections)
          /\ \A j \in 1..Len(connections) :
                connections'[j] = IF j = i THEN c ELSE connections[j]
        BY <1>0, <1>3, <2>1, ReplaceElements
    <2>3. UniqueIDs'
        <3> SUFFICES ASSUME NEW j \in 1..Len(connections), NEW k \in 1..Len(connections),
                            ID[connections'[j]] = ID[connections'[k]]
                     PROVE  j = k
            BY <2>2 DEF UniqueIDs
        <3>1. ID[connections[j]] = ID[connections[k]]
            BY <2>1, <2>2
        <3> QED
            BY <1>0, <3>1 DEF UniqueIDs
    <2>4. \A j \in 1..Len(connections) :
              connections[j] = connections[i] => j = i
        BY <1>0, <2>1 DEF UniqueIDs
    <2>5. /\ \A e : e \in ToSet(connections) <=>
                    \E j \in 1..Len(connections) : connections[j] = e
          /\ \A e : e \in ToSet(connections') <=>
                    \E j \in 1..Len(connections) : connections'[j] = e
        BY <1>0, <2>2, ToSetElements
    <2>6. ToSet(connections') = (ToSet(connections) \ {connections[i]}) \cup {c}
        BY <1>0, <2>1, <2>2, <2>4, <2>5
    <2>7. connections' # <<>>
        BY <1>0, <2>1, <2>2
    <2>8. connections[i] \in ToSet(connections)
        BY <2>1, <2>5
    <2>9. ClosedIffLeft' /\ ListedWereAdded'
        BY <1>3, <1>1, <2>6, <2>8 DEF ClosedIffLeft, ListedWereAdded, IndInv
    <2>10. TypeOK'
        <3>1. closed' \subseteq Conns
            BY <1>0, <1>3, <2>1 DEF IndInv, TypeOK
        <3> QED
            BY <1>1, <2>2, <3>1 DEF IndInv, TypeOK
    <2> QED
        BY <2>3, <2>7, <2>9, <2>10 DEF ReadersSeeConnections, IndInv
<1> QED
    BY <1>2, <1>3 DEF AddConnection

LEMMA RemovePreserves ==
    ASSUME IndInv, NEW id \in Ids, RemoveConnection(id)
    PROVE  IndInv'
<1>0. /\ connections \in Seq(Conns)
      /\ \A j \in 1..Len(connections) : connections[j] \in Conns
      /\ UniqueIDs
    BY DEF IndInv, TypeOK
<1>1. PICK i \in DOMAIN connections :
          /\ closed' = closed \cup {connections[i]}
          /\ connections' = RemoveAt(connections, i)
    BY DEF RemoveConnection
<1>2. /\ i \in 1..Len(connections)
      /\ connections' \in Seq(Conns)
      /\ Len(connections') = Len(connections) - 1
      /\ \A j \in 1..Len(connections) - 1 :
            connections'[j] = IF j < i THEN connections[j] ELSE connections[j + 1]
    <2>1. i \in 1..Len(connections)
        BY <1>0
    <2> QED
        BY <1>0, <1>1, <2>1, RemoveAtElements
<1>3. UniqueIDs'
    <2> SUFFICES ASSUME NEW j \in 1..Len(connections) - 1,
                        NEW k \in 1..Len(connections) - 1,
                        ID[connections'[j]] = ID[connections'[k]]
                 PROVE  j = k
        BY <1>2 DEF UniqueIDs
    <2> DEFINE Old(n) == IF n < i THEN n ELSE n + 1
    <2>1. /\ Old(j) \in 1..Len(connections) /\ connections'[j] = connections[Old(j)]
          /\ Old(k) \in 1..Len(connections) /\ connections'[k] = connections[Old(k)]
        BY <1>0, <1>2
    <2> HIDE DEF Old
    <2>2. Old(j) = Old(k)
        BY <1>0, <2>1 DEF UniqueIDs
    <2> QED
        BY <1>2, <2>2 DEF Old
<1>4. \A j \in 1..Len(connections) : connections[j] = connections[i] => j = i
    BY <1>0, <1>2 DEF UniqueIDs
<1>5. /\ \A e : e \in ToSet(connections) <=>
                \E j \in 1..Len(connections) : connections[j] = e
      /\ \A e : e \in ToSet(connections') <=>
                \E j \in 1..Len(connections') : connections'[j] = e
    BY <1>0, <1>2, ToSetElements
<1>6. ToSet(connections') = ToSet(connections) \ {connections[i]}
    <2>1. ASSUME NEW e \in ToSet(connections')
          PROVE  e \in ToSet(connections) \ {connections[i]}
        <3>1. PICK j \in 1..Len(connections) - 1 : connections'[j] = e
            BY <1>2, <1>5
        <3>2. PICK k \in 1..Len(connections) : connections[k] = e /\ k # i
            BY <1>0, <1>2, <3>1
        <3> QED
            BY <1>4, <1>5, <3>2
    <2>2. ASSUME NEW e \in ToSet(connections) \ {connections[i]}
          PROVE  e \in ToSet(connections')
        <3>1. PICK k \in 1..Len(connections) : connections[k] = e /\ k # i
            BY <1>5
        <3> DEFINE j == IF k < i THEN k ELSE k - 1
        <3>2. j \in 1..Len(connections) - 1 /\ (IF j < i THEN j ELSE j + 1) = k
            BY <1>0, <1>2, <3>1
        <3> HIDE DEF j
        <3>3. connections'[j] = e
            BY <1>2, <3>1, <3>2
        <3> QED
            BY <1>2, <1>5, <3>2, <3>3
    <2> QED
        BY <2>1, <2>2
<1>7. connections[i] \in ToSet(connections)
    BY <1>2, <1>5
<1>8. ClosedIffLeft' /\ ListedWereAdded'
    BY <1>1, <1>6, <1>7
    DEF RemoveConnection, ClosedIffLeft, ListedWereAdded, IndInv, TypeOK
<1>9. TypeOK'
    BY <1>0, <1>1, <1>2 DEF RemoveConnection, IndInv, TypeOK
<1>10. ReadersSeeConnections'
    BY DEF RemoveConnection, ReadersSeeConnections, Unlocked
<1> QED
    BY <1>3, <1>8, <1>9, <1>10 DEF IndInv

LEMMA ClosePreserves ==
    ASSUME IndInv, Close
    PROVE  IndInv'
<1> USE DEF IndInv, TypeOK
<1>1. connections' = <<>> /\ ToSet(connections') = {}
    BY DEF Close, ToSet
<1> QED
    BY <1>1 DEF Close, UniqueIDs, ClosedIffLeft, ListedWereAdded,
                ReadersSeeConnections, Unlocked

\* GetConn touches the list neither before nor after its index race; that it
\* saw a non-empty list keeps the remainder on line 85 defined.
LEMMA GetConnPreserves ==
    ASSUME IndInv, NEW t \in Callers,
           GetConnPick(t) \/ GetConnLoad(t) \/ GetConnStore(t)
    PROVE  IndInv'
<1> USE DEF IndInv, TypeOK, PCs
<1>0. UNCHANGED <<connections, added, closed>>
    BY DEF GetConnPick, GetConnLoad, GetConnStore
<1>1. connections # <<>>
    BY DEF GetConnPick, GetConnLoad, GetConnStore, ReadersSeeConnections, Unlocked
<1>2. current' \in Nat
    <2>1. CASE GetConnStore(t)
        <3>1. Len(connections) \in Nat \ {0}
            BY <1>1
        <3> QED
            BY <2>1, <3>1 DEF GetConnStore, NextIndex
    <2> QED
        BY <2>1 DEF GetConnPick, GetConnLoad
<1>3. recent' \in Seq(Conns)
    <2>1. CASE GetConnPick(t) /\ current < Len(connections)
        <3> DEFINE picks == Append(recent, connections[current + 1])
        <3>1. connections[current + 1] \in Conns
            BY <2>1
        <3>2. picks \in Seq(Conns) /\ picks # <<>>
            BY <3>1
        <3>3. recent' = <<>> \/ recent' = picks \/ recent' = Tail(picks)
            <4>1. ~(current >= Len(connections))
                BY <2>1
            <4>2. \/ recent' = <<>>
                  \/ recent' = Remember(connections[current + 1])
                BY <2>1, <4>1, Zenon DEF GetConnPick
            <4>3. Remember(connections[current + 1]) \in {picks, Tail(picks)}
                BY Zenon DEF Remember
            <4> QED
                BY <4>2, <4>3, Zenon
        <3> HIDE DEF picks
        <3>4. Tail(picks) \in Seq(Conns)
            BY <3>2, HeadTailProperties
        <3>5. <<>> \in Seq(Conns)
            OBVIOUS
        <3> QED
            BY <3>2, <3>3, <3>4, <3>5, Zenon
    <2> QED
        BY <2>1 DEF GetConnPick, GetConnLoad, GetConnStore
<1>4. pc' \in [Callers -> PCs] /\ loaded' \in [Callers -> Nat]
    <2>1. CASE GetConnPick(t)
        <3>1. \/ pc' = [pc EXCEPT ![t] = "picked"]
              \/ pc' = [pc EXCEPT ![t] = "panicked"]
            BY <2>1 DEF GetConnPick
        <3> QED
            BY <2>1, <3>1 DEF GetConnPick
    <2>2. CASE GetConnLoad(t)
        BY <2>2 DEF GetConnLoad
    <2>3. CASE GetConnStore(t)
        BY <2>3 DEF GetConnStore
    <2> QED
        BY <2>1, <2>2, <2>3
<1> QED
    BY <1>0, <1>1, <1>2, <1>3, <1>4
    DEF UniqueIDs, ClosedIffLeft, ListedWereAdded, ReadersSeeConnections

LEMMA StepPreserves == IndInv /\ [Next]_vars => IndInv'
<1> SUFFICES ASSUME IndInv, [Next]_vars PROVE IndInv'
    OBVIOUS
<1>1. CASE UNCHANGED vars
    BY <1>1 DEF vars, IndInv, TypeOK, UniqueIDs, ClosedIffLeft, ListedWereAdded,
                ReadersSeeConnections, Unlocked
<1> QED
    BY <1>1, AddPreserves, RemovePreserves, ClosePreserves, GetConnPreserves
    DEF Next

-----------------------------------------------------------------------------
(* The rotation *)

LEMMA InitRotation == Init => Rotation
    BY DEF Init, Rotation

\* Line 85, for an index in range: the remainder wraps at the end of the list.
LEMMA NextIndexWraps ==
    ASSUME NEW n \in Nat, Len(connections) \in Nat, n < Len(connections)
    PROVE  NextIndex(n) = IF n + 1 = Len(connections) THEN 0 ELSE n + 1
    BY DEF NextIndex

\* One more pick moves the window on by one position, and drops its first
\* connection when the window already covers the list.
LEMMA RememberElements ==
    ASSUME NEW c, recent \in Seq(Conns), c \in Conns, Len(connections) \in Nat
    PROVE  LET L == Len(recent)
               n == Len(connections)
           IN  /\ L < n => /\ Len(Remember(c)) = L + 1
                           /\ \A j \in 1..L : Remember(c)[j] = recent[j]
                           /\ Remember(c)[L + 1] = c
               /\ L = n => /\ Len(Remember(c)) = n
                           /\ \A j \in 1..(n - 1) : Remember(c)[j] = recent[j + 1]
                           /\ n > 0 => Remember(c)[n] = c
<1> DEFINE picks == Append(recent, c)
<1>1. /\ picks \in Seq(Conns)
      /\ picks # <<>>
      /\ Len(picks) = Len(recent) + 1
      /\ \A j \in 1..Len(recent) : picks[j] = recent[j]
      /\ picks[Len(recent) + 1] = c
    OBVIOUS
<1>2. Remember(c) = IF Len(picks) > Len(connections) THEN Tail(picks) ELSE picks
    BY DEF Remember
<1> HIDE DEF picks
<1>3. /\ Len(Tail(picks)) = Len(picks) - 1
      /\ \A j \in 1..(Len(picks) - 1) : Tail(picks)[j] = picks[j + 1]
    BY <1>1
<1>4. CASE Len(recent) < Len(connections)
    BY <1>1, <1>2, <1>4
<1>5. CASE Len(recent) = Len(connections)
    BY <1>1, <1>2, <1>3, <1>5
<1> QED
    BY <1>4, <1>5, Len(recent) \in Nat

\* A pick on a free manager continues the window, or starts one; a pick that
\* overlaps another call ends it.  (A pick that panics finds no window.)
LEMMA PickRotates ==
    ASSUME IndInv, Rotation, NEW t \in Callers, GetConnPick(t)
    PROVE  Rotation'
<1> DEFINE L == Len(recent)
           n == Len(connections)
           c == connections[current + 1]
<1>0. /\ pc[t] = "idle"
      /\ pc \in [Callers -> PCs]
      /\ recent \in Seq(Conns)
      /\ connections \in Seq(Conns)
      /\ L \in Nat /\ n \in Nat \ {0} /\ current \in Nat
      /\ UNCHANGED <<connections, current, loaded>>
    BY DEF GetConnPick, IndInv, TypeOK
<1>1. CASE /\ current < n
           /\ Unlocked
           /\ recent' = Remember(c)
           /\ pc' = [pc EXCEPT ![t] = "picked"]
    <2>1. c \in Conns
        BY <1>0, <1>1
    <2>2. /\ recent = <<>> => L = 0
          /\ L <= n
        BY <1>0 DEF Rotation
    <2>3. /\ Len(recent') = IF L < n THEN L + 1 ELSE n
          /\ L < n => \A j \in 1..L : recent'[j] = recent[j]
          /\ L = n => \A j \in 1..(n - 1) : recent'[j] = recent[j + 1]
          /\ recent'[Len(recent')] = c
        BY <1>0, <1>1, <2>1, <2>2, RememberElements
    <2>4. Continues(current)'
        <3>1. /\ Reading(t)'
              /\ pc'[t] = "picked"
              /\ \A u \in Callers : Reading(u)' => u = t
            BY <1>0, <1>1 DEF Reading, Unlocked
        <3> QED
            BY <1>0, <3>1 DEF Continues
    <2>5. \A j \in 1..Len(recent') : recent'[j] = connections'[PickAt(j, current)']
        <3>1. PICK m \in 1..n : m = Len(recent')
            BY <1>0, <2>2, <2>3
        <3>2. \A j \in 1..m :
                  PickAt(j, current)' = IF current + j >= m
                                        THEN current + j - m + 1
                                        ELSE current + j + n - m + 1
            BY <1>0, <3>1 DEF PickAt
        <3>3. PickAt(m, current)' = current + 1
            BY <1>0, <3>1, <3>2
        <3>4. ASSUME NEW j \in 1..(m - 1)
              PROVE  recent'[j] = connections[PickAt(j, current)']
            <4>1. recent # <<>>
                BY <1>0, <2>2, <2>3, <3>1
            <4>2. PICK last \in 0..(n - 1) :
                      /\ Continues(last)
                      /\ \A k \in 1..L : recent[k] = connections[PickAt(k, last)]
                BY <4>1 DEF Rotation
            <4>3. current = IF last + 1 = n THEN 0 ELSE last + 1
                BY <1>1, <4>2 DEF Continues, Unlocked, Reading
            <4>4. CASE L < n
                <5>1. recent'[j] = connections[PickAt(j, last)]
                    BY <1>0, <2>3, <3>1, <4>2, <4>4
                <5>2. m = L + 1
                    BY <2>3, <3>1, <4>4
                <5>3. PickAt(j, last) = IF current + j >= m
                                        THEN current + j - m + 1
                                        ELSE current + j + n - m + 1
                    <6>1. /\ j <= L
                          /\ last + j >= L <=> last + 1 + j >= m
                        BY <1>0, <5>2
                    <6>2. CASE last + 1 = n
                        <7>1. /\ last + j >= L
                              /\ last + j - L + 1 = j + n - m + 1
                            BY <1>0, <4>4, <5>2, <6>2
                        <7>2. PickAt(j, last) = j + n - m + 1
                            BY <7>1 DEF PickAt
                        <7>3. current = 0 /\ ~(current + j >= m)
                            BY <1>0, <4>3, <5>2, <6>1, <6>2
                        <7> QED
                            BY <7>2, <7>3
                    <6>3. CASE last + 1 # n
                        BY <1>0, <4>3, <5>2, <6>1, <6>3 DEF PickAt
                    <6> QED
                        BY <6>2, <6>3
                <5> QED
                    BY <3>2, <5>1, <5>3
            <4>5. CASE L = n
                <5>1. m = n
                    BY <2>3, <3>1, <4>5
                <5>2. recent'[j] = connections[PickAt(j + 1, last)]
                    BY <1>0, <2>3, <4>2, <4>5, <5>1
                <5>3. PickAt(j + 1, last) = IF current + j >= m
                                            THEN current + j - m + 1
                                            ELSE current + j + n - m + 1
                    BY <1>0, <4>2, <4>3, <4>5, <5>1 DEF PickAt
                <5> QED
                    BY <3>2, <5>2, <5>3
            <4> QED
                BY <1>0, <2>2, <4>4, <4>5
        <3>5. recent'[m] = connections[PickAt(m, current)']
            BY <2>3, <3>1, <3>3
        <3> SUFFICES ASSUME NEW j \in 1..m
                     PROVE  recent'[j] = connections[PickAt(j, current)']
            BY <1>0, <3>1
        <3>6. j = m \/ j \in 1..(m - 1)
            BY <3>1
        <3> QED
            BY <3>4, <3>5, <3>6
    <2> QED
        BY <1>0, <1>1, <2>2, <2>3, <2>4, <2>5 DEF Rotation
<1>2. CASE recent' = <<>>
    BY <1>2 DEF Rotation
<1>3. CASE /\ current >= n
           /\ pc' = [pc EXCEPT ![t] = "panicked"]
           /\ UNCHANGED recent
    <2>1. recent = <<>>
        BY <1>0, <1>3 DEF Rotation, Continues
    <2> QED
        BY <1>3, <2>1 DEF Rotation
<1> QED
    BY <1>1, <1>2, <1>3 DEF GetConnPick

\* The increment: between its pick and its store the caller is alone, so it
\* loads the position it picked and stores the one after it.
LEMMA LoadAndStoreRotate ==
    ASSUME IndInv, Rotation, NEW t \in Callers, GetConnLoad(t) \/ GetConnStore(t)
    PROVE  Rotation'
<1> SUFFICES ASSUME recent # <<>>
             PROVE  Rotation'
    BY DEF Rotation, GetConnLoad, GetConnStore
<1> DEFINE n == Len(connections)
<1>0. /\ pc \in [Callers -> PCs] /\ loaded \in [Callers -> Nat]
      /\ n \in Nat
      /\ UNCHANGED <<connections, recent>>
    BY DEF IndInv, TypeOK, GetConnLoad, GetConnStore
<1>1. PICK last \in 0..(n - 1) :
          /\ Continues(last)
          /\ \A j \in 1..Len(recent) : recent[j] = connections[PickAt(j, last)]
    BY DEF Rotation
<1>2. Reading(t)
    BY DEF Reading, GetConnLoad, GetConnStore
<1>3. /\ current = last
      /\ \A u \in Callers : Reading(u) => u = t
      /\ pc[t] = "loaded" => loaded[t] = last
    BY <1>1, <1>2 DEF Continues, Unlocked, Reading
<1>4. Continues(last)'
    <2>1. CASE GetConnLoad(t)
        <3>1. /\ current' = last /\ loaded'[t] = last
              /\ Reading(t)'
              /\ \A u \in Callers : Reading(u)' => u = t
            BY <1>0, <1>3, <2>1 DEF GetConnLoad, Reading
        <3> QED
            BY <3>1 DEF Continues
    <2>2. CASE GetConnStore(t)
        <3>1. Unlocked'
            BY <1>0, <1>3, <2>2 DEF GetConnStore, Reading, Unlocked
        <3>2. current' = NextIndex(last)
            BY <1>3, <2>2 DEF GetConnStore
        <3>3. NextIndex(last) = IF last + 1 = n THEN 0 ELSE last + 1
            BY <1>0, NextIndexWraps
        <3> QED
            BY <1>0, <3>1, <3>2, <3>3 DEF Continues
    <2> QED
        BY <2>1, <2>2
<1>5. \A j \in 1..Len(recent) : PickAt(j, last)' = PickAt(j, last)
    BY <1>0 DEF PickAt
<1> QED
    BY <1>0, <1>1, <1>4, <1>5 DEF Rotation

LEMMA StepRotates == IndInv /\ Rotation /\ [Next]_vars => Rotation'
<1> SUFFICES ASSUME IndInv, Rotation, [Next]_vars PROVE Rotation'
    OBVIOUS
<1>1. CASE UNCHANGED vars
    <2>1. \A last : Continues(last)' <=> Continues(last)
        BY <1>1 DEF vars, Continues, Unlocked, Reading
    <2>2. \A j, last : PickAt(j, last)' = PickAt(j, last)
        BY <1>1 DEF vars, PickAt
    <2> QED
        BY <1>1, <2>1, <2>2 DEF vars, Rotation
<1>2. CASE recent' = <<>>
    BY <1>2 DEF Rotation
<1> QED
    BY <1>1, <1>2, PickRotates, LoadAndStoreRotate
    DEF Next, AddConnection, RemoveConnection, Close

-----------------------------------------------------------------------------
(* Theorems *)

\* The inductive invariant holds in every reachable state.
THEOREM Invariance == Spec => []IndInv
<1> QED
    BY InitIndInv, StepPreserves, PTL DEF Spec

\* The registry stays well typed: in particular the index stays a natural
\* number, because line 85 never computes a remainder by zero.
THEOREM TypeCorrect == Spec => []TypeOK
<1>1. IndInv => TypeOK
    BY DEF IndInv
<1> QED
    BY <1>1, Invariance, PTL

\* At most one registered connection per UUID (manager.go:37-70), for any
\* number of connections and callers.
THEOREM IDsStayUnique == Spec => []UniqueIDs
<1>1. IndInv => UniqueIDs
    BY DEF IndInv
<1> QED
    BY <1>1, Invariance, PTL

\* The manager closes exactly the connections that left its list.
THEOREM OwnershipOfConnections == Spec => []ClosedIffLeft
<1>1. IndInv => ClosedIffLeft
    BY DEF IndInv
<1> QED
    BY <1>1, Invariance, PTL

\* Calls of GetConn that do not overlap and see the same list pick every
\* connection once before any of them again (manager.go:84-85): the picks are
\* a window of the circular list no longer than the list, whose positions hold
\* distinct connections.
THEOREM RotationTheorem == Spec => []RoundRobin
<1>1. Spec => []Rotation
    BY InitRotation, StepRotates, Invariance, PTL DEF Spec
<1>2. IndInv /\ Rotation => RoundRobin
    <2> SUFFICES ASSUME IndInv, Rotation,
                        NEW i \in 1..Len(recent), NEW j \in 1..Len(recent),
                        recent[i] = recent[j]
                 PROVE  i = j
        BY DEF RoundRobin, IndInv, TypeOK
    <2> DEFINE n == Len(connections)
    <2>1. /\ connections \in Seq(Conns) /\ n \in Nat
          /\ recent \in Seq(Conns) /\ Len(recent) \in Nat
          /\ recent # <<>>
          /\ Len(recent) <= n
        BY DEF IndInv, TypeOK, Rotation
    <2>2. PICK last \in 0..(n - 1) :
              \A k \in 1..Len(recent) : recent[k] = connections[PickAt(k, last)]
        BY <2>1 DEF Rotation
    <2>3. PickAt(i, last) \in 1..n /\ PickAt(j, last) \in 1..n
        BY <2>1 DEF PickAt
    <2>4. connections[PickAt(i, last)] = connections[PickAt(j, last)]
        BY <2>2
    <2>5. PickAt(i, last) = PickAt(j, last)
        BY <2>1, <2>3, <2>4 DEF IndInv, UniqueIDs
    <2> QED
        BY <2>1, <2>5 DEF PickAt
<1> QED
    BY <1>1, <1>2, Invariance, PTL

\* However many GetConn callers race on b.current under the read lock, they
\* leave it a valid index; only removals can invalidate it.
THEOREM RaceKeepsIndexValid == Spec => OnlyShrinkingBreaksIndex
<1> DEFINE Safe == InRange /\ ~InRange' => Len(connections') < Len(connections)
<1>1. IndInv /\ IndInv' /\ [Next]_vars => [Safe]_vars
    <2> SUFFICES ASSUME IndInv, IndInv', Next, InRange,
                        Len(connections') >= Len(connections)
                 PROVE  InRange'
        BY DEF IndInv, TypeOK
    <2> USE DEF IndInv, TypeOK, InRange
    <2>1. CASE current' = current
        BY <2>1
    <2>2. ASSUME NEW t \in Callers, GetConnStore(t)
          PROVE  InRange'
        <3>1. Len(connections) \in Nat \ {0}
            BY <2>2 DEF GetConnStore, ReadersSeeConnections, Unlocked
        <3> QED
            BY <2>2, <3>1 DEF GetConnStore, NextIndex
    <2> QED
        BY <2>1, <2>2 DEF Next, AddConnection, RemoveConnection, Close,
                          GetConnPick, GetConnLoad
<1> QED
    BY <1>1, Invariance, PTL DEF Spec, OnlyShrinkingBreaksIndex

=============================================================================

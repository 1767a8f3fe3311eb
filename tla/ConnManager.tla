----------------------------- MODULE ConnManager -----------------------------
(***************************************************************************)
(* The dialer's registry of control connections, connmng.ConnManager.      *)
(*                                                                         *)
(* AddConnection, RemoveConnection and Close hold b.mu exclusively from    *)
(* their first to their last statement, so each is one action that waits   *)
(* for the read lock to be free.  GetConn holds only the READ lock, and    *)
(* under it reads b.current (line 84), reads it again and writes it back   *)
(* (line 85): those three accesses are three actions, and several callers  *)
(* may be between them at once.                                            *)
(*                                                                         *)
(* `current' is the Go index, counted from 0.                              *)
(***************************************************************************)
EXTENDS Naturals, Sequences, SequencesExt

CONSTANTS
    Conns,      \* the ServerConn objects ever handed to AddConnection
    Ids,        \* registration UUIDs
    ID,         \* ID[c]: the UUID connection c registered with
    Callers     \* goroutines that call GetConn

ASSUME IDAssumption == ID \in [Conns -> Ids]

VARIABLES
    connections,    \* b.connections
    current,        \* b.current
    pc,             \* where each caller is inside GetConn
    loaded,         \* the value of b.current a caller is about to increment
    added,          \* history: connections handed to AddConnection
    closed,         \* connections whose Close was called
    recent          \* history: GetConn's latest picks, at most Len(connections)
                    \* of them, since membership changed or two calls overlapped

vars == <<connections, current, pc, loaded, added, closed, recent>>

PCs == {"idle", "picked", "loaded", "panicked"}

TypeOK ==
    /\ connections \in Seq(Conns)
    /\ current \in Nat
    /\ pc \in [Callers -> PCs]
    /\ loaded \in [Callers -> Nat]
    /\ added \subseteq Conns
    /\ closed \subseteq Conns
    /\ recent \in Seq(Conns)

Init ==
    /\ connections = <<>>
    /\ current = 0
    /\ pc = [t \in Callers |-> "idle"]
    /\ loaded = [t \in Callers |-> 0]
    /\ added = {}
    /\ closed = {}
    /\ recent = <<>>

-----------------------------------------------------------------------------
(* Helpers *)

\* No caller holds b.mu for reading.
Unlocked == \A t \in Callers : pc[t] \notin {"picked", "loaded"}

\* The positions at which a connection with this UUID is registered.
Matches(id) == {i \in DOMAIN connections : ID[connections[i]] = id}

\* The loops of AddConnection and RemoveConnection stop at the first match.
FirstMatch(id, i) ==
    /\ i \in Matches(id)
    /\ \A j \in Matches(id) : i <= j

\* recent, with one more pick.
Remember(c) ==
    LET picks == Append(recent, c) IN
    IF Len(picks) > Len(connections) THEN Tail(picks) ELSE picks

-----------------------------------------------------------------------------
(* Mutants: one plausible slip per property, substituted by the checks. *)

AppendAlways(c) ==
    /\ Unlocked
    /\ c \notin added
    /\ added' = added \cup {c}
    /\ connections' = Append(connections, c)
    /\ recent' = <<>>
    /\ UNCHANGED <<current, pc, loaded, closed>>

RemoveWithoutClose(id) ==
    /\ Unlocked
    /\ \E i \in DOMAIN connections :
          /\ FirstMatch(id, i)
          /\ connections' = RemoveAt(connections, i)
    /\ recent' = <<>>
    /\ UNCHANGED <<current, pc, loaded, added, closed>>

NextIndexUnwrapped(n) == n + 1

NextIndexBackwards(n) == n - 1

NextIndexSkipping(n) == (n + 2) % Len(connections)

-----------------------------------------------------------------------------
(* Operations *)

AddConnection(c) ==
    /\ Unlocked
    /\ c \notin added
    /\ added' = added \cup {c}
    /\ \/ /\ Matches(ID[c]) = {}
          /\ connections' = Append(connections, c)
          /\ UNCHANGED closed
       \/ \E i \in DOMAIN connections :
             /\ FirstMatch(ID[c], i)
             /\ closed' = closed \cup {connections[i]}
             /\ connections' = [connections EXCEPT ![i] = c]
    /\ recent' = <<>>
    /\ UNCHANGED <<current, pc, loaded>>

RemoveConnection(id) ==
    /\ Unlocked
    /\ \E i \in DOMAIN connections :
          /\ FirstMatch(id, i)
          /\ closed' = closed \cup {connections[i]}
          /\ connections' = RemoveAt(connections, i)
    /\ recent' = <<>>
    /\ UNCHANGED <<current, pc, loaded, added>>

\* Close leaves b.current as it was.
Close ==
    /\ Unlocked
    /\ connections # <<>>
    /\ closed' = closed \cup ToSet(connections)
    /\ connections' = <<>>
    /\ recent' = <<>>
    /\ UNCHANGED <<current, pc, loaded, added>>

\* Line 84, after the test for an empty list (which returns nil and changes
\* nothing): the pick, or Go's index-out-of-range panic.
GetConnPick(t) ==
    /\ pc[t] = "idle"
    /\ connections # <<>>
    /\ \/ /\ current < Len(connections)
          /\ recent' = IF Unlocked THEN Remember(connections[current + 1])
                                   ELSE <<>>
          /\ pc' = [pc EXCEPT ![t] = "picked"]
       \/ /\ current >= Len(connections)
          /\ pc' = [pc EXCEPT ![t] = "panicked"]
          /\ UNCHANGED recent
    /\ UNCHANGED <<connections, current, loaded, added, closed>>

\* Line 85, right-hand side: b.current is read a second time.
GetConnLoad(t) ==
    /\ pc[t] = "picked"
    /\ loaded' = [loaded EXCEPT ![t] = current]
    /\ pc' = [pc EXCEPT ![t] = "loaded"]
    /\ UNCHANGED <<connections, current, added, closed, recent>>

NextIndex(n) == (n + 1) % Len(connections)

\* Line 85, assignment; then RUnlock and return.
GetConnStore(t) ==
    /\ pc[t] = "loaded"
    /\ current' = NextIndex(loaded[t])
    /\ loaded' = [loaded EXCEPT ![t] = 0]
    /\ pc' = [pc EXCEPT ![t] = "idle"]
    /\ UNCHANGED <<connections, added, closed, recent>>

Next ==
    \/ \E c \in Conns : AddConnection(c)
    \/ \E id \in Ids : RemoveConnection(id)
    \/ Close
    \/ \E t \in Callers : GetConnPick(t) \/ GetConnLoad(t) \/ GetConnStore(t)

Spec == Init /\ [][Next]_vars

-----------------------------------------------------------------------------
(* Properties *)

\* Re-registration replaces: no two registered connections ever carry the
\* same UUID, so "the connection with this ID" is well defined for
\* RemoveConnection (manager.go:37-70).
UniqueIDs ==
    \A i, j \in DOMAIN connections :
        ID[connections[i]] = ID[connections[j]] => i = j

\* The manager owns the connections it is given: it closes one exactly when
\* the connection leaves the list, by replacement, removal or Close.  Neither
\* an open connection is dropped nor a closed one kept.
ClosedIffLeft == closed = added \ ToSet(connections)

\* What makes the two invariants above inductive: connections come from
\* AddConnection, and a caller holding the read lock saw a non-empty list, so
\* that line 85 never divides by zero.
ListedWereAdded == ToSet(connections) \subseteq added
ReadersSeeConnections == ~Unlocked => connections # <<>>

IndInv ==
    /\ TypeOK
    /\ UniqueIDs
    /\ ClosedIffLeft
    /\ ListedWereAdded
    /\ ReadersSeeConnections

InRange == current = 0 \/ current < Len(connections)

\* GetConn's unsynchronised update alone cannot take the index out of range,
\* however its callers interleave; only a shrinking list can.
OnlyShrinkingBreaksIndex ==
    [][InRange /\ ~InRange' => Len(connections') < Len(connections)]_vars

\* GetConn rotates (manager.go:84-85): among calls that do not overlap and see
\* the same list no connection is picked twice before every other one was
\* picked, whatever index earlier races or removals left behind.
RoundRobin == \A i, j \in DOMAIN recent : recent[i] = recent[j] => i = j

\* What makes it inductive.  The picks form a window of the circular list that
\* ends at a position `last': the position of the j-th pick is PickAt(j, last),
\* counted from 1.  The next call continues the window, because the index is
\* the one after `last', or still `last' and read only by the one caller that
\* made the latest pick.
PickAt(j, last) ==
    IF last + j >= Len(recent)
    THEN last + j - Len(recent) + 1
    ELSE last + j + Len(connections) - Len(recent) + 1

Reading(t) == pc[t] \in {"picked", "loaded"}

Continues(last) ==
    \/ /\ Unlocked
       /\ current = IF last + 1 = Len(connections) THEN 0 ELSE last + 1
    \/ /\ current = last
       /\ \E t \in Callers :
             /\ Reading(t)
             /\ \A u \in Callers : Reading(u) => u = t
             /\ pc[t] = "loaded" => loaded[t] = last

Rotation ==
    recent # <<>> =>
        /\ Len(recent) <= Len(connections)
        /\ \E last \in 0..(Len(connections) - 1) :
              /\ Continues(last)
              /\ \A j \in 1..Len(recent) :
                    recent[j] = connections[PickAt(j, last)]

\* "If no connections are available, it returns nil.  This method is
\* thread-safe." (manager.go:74-75): GetConn returns, it does not panic.
NeverPanics == \A t \in Callers : pc[t] # "panicked"

=============================================================================

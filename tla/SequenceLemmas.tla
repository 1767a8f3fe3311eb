---------------------------- MODULE SequenceLemmas ----------------------------
(***************************************************************************)
(* What the operations on Go slices that the connection manager and the    *)
(* pool use do to a sequence and to the set of its elements.               *)
(***************************************************************************)
EXTENDS Naturals, SequencesExt, SequenceTheorems, TLAPS

\* What `append(s[:i], s[i+1:]...)' computes (manager.go:65,
\* pool.go:178, 358): the elements
\* before i stay, the ones after it move down by one.
LEMMA RemoveAtElements ==
    ASSUME NEW S, NEW s \in Seq(S), NEW i \in 1..Len(s)
    PROVE  /\ RemoveAt(s, i) \in Seq(S)
           /\ Len(RemoveAt(s, i)) = Len(s) - 1
           /\ \A j \in 1..Len(s) - 1 :
                 RemoveAt(s, i)[j] = IF j < i THEN s[j] ELSE s[j + 1]
<1> DEFINE a == SubSeq(s, 1, i - 1)
           b == SubSeq(s, i + 1, Len(s))
<1>1. a \in Seq(S) /\ Len(a) = i - 1 /\ \A j \in 1..i-1 : a[j] = s[j]
    OBVIOUS
<1>2. b \in Seq(S) /\ Len(b) = Len(s) - i /\ \A j \in 1..Len(s)-i : b[j] = s[i + j]
    OBVIOUS
<1>3. RemoveAt(s, i) = a \o b
    BY DEF RemoveAt
<1> HIDE DEF a, b
<1>4. a \o b \in Seq(S) /\ Len(a \o b) = Len(s) - 1
    <2>1. Len(a \o b) = Len(a) + Len(b) /\ a \o b \in Seq(S)
        BY <1>1, <1>2, ConcatProperties
    <2> QED
        BY <1>1, <1>2, <2>1
<1>5. \A j \in 1..Len(s) - 1 : (a \o b)[j] = IF j < i THEN s[j] ELSE s[j + 1]
    BY <1>1, <1>2
<1> QED
    BY <1>3, <1>4, <1>5

\* ToSet is the set of elements at the positions 1..Len(s).
LEMMA ToSetElements ==
    ASSUME NEW S, NEW s \in Seq(S)
    PROVE  \A e : e \in ToSet(s) <=> \E i \in 1..Len(s) : s[i] = e
    BY DEF ToSet

\* `b.connections[i] = serv' (manager.go:44): one element leaves, one joins.
LEMMA ReplaceElements ==
    ASSUME NEW S, NEW s \in Seq(S), NEW i \in 1..Len(s), NEW c \in S
    PROVE  LET t == [s EXCEPT ![i] = c] IN
           /\ t \in Seq(S)
           /\ Len(t) = Len(s)
           /\ \A j \in 1..Len(s) : t[j] = IF j = i THEN c ELSE s[j]
    OBVIOUS

\* Appending a new element keeps the elements, and keeps them distinct.
LEMMA AppendElements ==
    ASSUME NEW S, NEW s \in Seq(S), NEW c \in S
    PROVE  /\ Append(s, c) \in Seq(S)
           /\ Len(Append(s, c)) = Len(s) + 1
           /\ ToSet(Append(s, c)) = ToSet(s) \cup {c}
           /\ IsInjective(s) /\ c \notin ToSet(s) => IsInjective(Append(s, c))
<1>1. /\ Append(s, c) \in Seq(S)
      /\ Len(Append(s, c)) = Len(s) + 1
      /\ \A j \in 1..Len(s) : Append(s, c)[j] = s[j]
      /\ Append(s, c)[Len(s) + 1] = c
    OBVIOUS
<1>2. DOMAIN s = 1..Len(s) /\ DOMAIN Append(s, c) = 1..(Len(s) + 1)
    OBVIOUS
<1>3. ToSet(Append(s, c)) = ToSet(s) \cup {c}
    BY <1>1, <1>2 DEF ToSet
<1>4. ASSUME IsInjective(s), c \notin ToSet(s) PROVE IsInjective(Append(s, c))
    BY <1>1, <1>2, <1>4 DEF ToSet, IsInjective
<1> QED
    BY <1>1, <1>3, <1>4

\* Removing one position of a list without repetitions takes exactly its
\* element out.
LEMMA RemoveAtInjective ==
    ASSUME NEW S, NEW s \in Seq(S), NEW i \in 1..Len(s), IsInjective(s)
    PROVE  /\ IsInjective(RemoveAt(s, i))
           /\ ToSet(RemoveAt(s, i)) = ToSet(s) \ {s[i]}
<1> DEFINE t == RemoveAt(s, i)
<1>1. /\ t \in Seq(S)
      /\ Len(t) = Len(s) - 1
      /\ \A j \in 1..Len(s) - 1 : t[j] = IF j < i THEN s[j] ELSE s[j + 1]
    BY RemoveAtElements
<1>2. /\ DOMAIN s = 1..Len(s) /\ DOMAIN t = 1..Len(s) - 1
      /\ Len(s) \in Nat
    BY <1>1
<1> HIDE DEF t
<1>3. IsInjective(t)
    <2> SUFFICES ASSUME NEW a \in 1..Len(s) - 1, NEW b \in 1..Len(s) - 1,
                        t[a] = t[b]
                 PROVE  a = b
        BY <1>2 DEF IsInjective
    <2> DEFINE from(j) == IF j < i THEN j ELSE j + 1
    <2>1. from(a) \in 1..Len(s) /\ from(b) \in 1..Len(s)
        BY <1>2
    <2>2. s[from(a)] = s[from(b)]
        BY <1>1
    <2>3. from(a) = from(b)
        BY <1>2, <2>1, <2>2 DEF IsInjective
    <2> QED
        BY <1>2, <2>3
<1>4. ToSet(t) \subseteq ToSet(s) \ {s[i]}
    BY <1>1, <1>2 DEF IsInjective, ToSet
<1>5. ASSUME NEW k \in 1..Len(s), k # i PROVE s[k] \in ToSet(t)
    <2>1. CASE k < i
        BY <1>1, <1>2, <2>1 DEF ToSet
    <2>2. CASE k > i
        <3>1. k - 1 \in 1..Len(s) - 1 /\ t[k - 1] = s[k]
            BY <1>1, <1>2, <2>2
        <3> QED
            BY <1>2, <3>1 DEF ToSet
    <2> QED
        BY <1>2, <1>5, <2>1, <2>2
<1>6. ToSet(s) \ {s[i]} \subseteq ToSet(t)
    BY <1>2, <1>5 DEF ToSet
<1> QED
    BY <1>3, <1>4, <1>6 DEF t
=============================================================================

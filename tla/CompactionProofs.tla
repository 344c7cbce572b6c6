------------------------- MODULE CompactionProofs -------------------------
(***************************************************************************)
(* What a cut is and what it leaves paired, for messages of any length.    *)
(***************************************************************************)
EXTENDS Compaction, SequenceTheorems, WellFoundedInduction, TLAPS

-----------------------------------------------------------------------------
\* A set of numbers has a least one.
LEMMA LeastNumber ==
    ASSUME NEW S \in SUBSET Nat, S # {}
    PROVE  Min(S) \in S /\ \A k \in S : Min(S) <= k
<1>1. \E n \in S : \A k \in S : n <= k
    <2>1. PICK n \in S : \A k \in S : ~(<<k, n>> \in OpToRel(<, Nat))
        BY NatLessThanWellFounded, WFMin
    <2>2. \A k \in S : ~(k < n)
        BY <2>1 DEF OpToRel
    <2> QED BY <2>2
<1> QED BY <1>1 DEF Min

\* Induction over the numbers, with a set for the formula.
LEMMA InductionOnNat ==
    ASSUME NEW S, 0 \in S, \A n \in Nat : n \in S => n + 1 \in S
    PROVE  Nat \subseteq S
<1> SUFFICES ASSUME Nat \ S # {} PROVE FALSE
    OBVIOUS
<1> DEFINE n == Min(Nat \ S)
<1>1. n \in Nat \ S /\ \A k \in Nat \ S : n <= k
    BY LeastNumber
<1> HIDE DEF n
<1>2. n # 0 /\ n - 1 \in Nat
    BY <1>1
<1>3. n - 1 \in S
    BY <1>1, <1>2
<1>4. (n - 1) + 1 \in S
    BY <1>2, <1>3
<1> QED BY <1>1, <1>4

\* A bounded set of numbers has a greatest one.
LEMMA GreatestNumber ==
    ASSUME NEW m \in Nat, NEW S \in SUBSET (0..m), S # {}
    PROVE  Max(S) \in S /\ \A k \in S : Max(S) >= k
<1> DEFINE T == {n \in Nat : \A k \in S : k <= n}
<1>1. m \in T
    OBVIOUS
<1>2. PICK n \in T : n = Min(T) /\ \A k \in T : n <= k
    BY <1>1, LeastNumber
<1>3. n \in S
    <2> SUFFICES ASSUME n \notin S PROVE FALSE
        OBVIOUS
    <2>1. \A k \in S : k < n
        BY <1>2
    <2>2. n # 0
        <3>1. PICK k \in S : TRUE
            OBVIOUS
        <3>2. k \in Nat /\ k < n
            BY <2>1, <3>1
        <3> QED BY <3>2
    <2>3. n - 1 \in Nat /\ S \subseteq Nat
        BY <2>2
    <2>4. \A k \in S : k <= n - 1
        BY <2>1, <2>3
    <2>5. n - 1 \in T
        BY <2>3, <2>4
    <2>6. ~(n <= n - 1)
        BY <2>3
    <2> QED BY <1>2, <2>5, <2>6
<1> QED BY <1>2, <1>3 DEF Max

-----------------------------------------------------------------------------
(***************************************************************************)
(* Picked: the elements at some places, in order.                          *)
(***************************************************************************)
\* What Picked has found up to each of the first m places.
IsPicking(f, s, places, m) ==
    f = [n \in 0..m |->
            IF n = 0 THEN <<>>
            ELSE IF n \in places THEN Append(f[n - 1], s[n]) ELSE f[n - 1]]

\* Up to m, the two pick the same.
SamePlaces(m, K, L) == \A i \in 1..m : i \in K <=> i \in L
PickAlike(m, s, K, t, L) == SamePlaces(m, K, L) /\ \A i \in 1..m : i \in K => s[i] = t[i]

LEMMA PickingAt ==
    ASSUME NEW s, NEW places, NEW m \in Nat, NEW f, IsPicking(f, s, places, m)
    PROVE  /\ f[0] = <<>>
           /\ \A n \in 1..m :
                 f[n] = IF n \in places THEN Append(f[n - 1], s[n]) ELSE f[n - 1]
<1>1. 0 \in 0..m /\ \A n \in 1..m : n \in 0..m /\ n # 0
    OBVIOUS
<1> QED BY <1>1 DEF IsPicking

LEMMA PickingStarts ==
    ASSUME NEW s, NEW places, NEW m \in Nat, NEW f, IsPicking(f, s, places, m)
    PROVE  f[0] = <<>>
<1>1. 0 \in 0..m
    OBVIOUS
<1> QED BY <1>1 DEF IsPicking

LEMMA PickingExists ==
    ASSUME NEW s, NEW places, NEW m \in Nat
    PROVE  \E f : IsPicking(f, s, places, m)
<1> DEFINE P == {n \in Nat : \E f : IsPicking(f, s, places, n)}
<1>1. 0 \in P
    <2>1. IsPicking([n \in 0..0 |-> <<>>], s, places, 0)
        BY DEF IsPicking
    <2> QED BY <2>1
<1>2. ASSUME NEW k \in Nat, k \in P PROVE k + 1 \in P
    <2>1. PICK f : IsPicking(f, s, places, k)
        BY <1>2
    <2> DEFINE last == IF k + 1 \in places THEN Append(f[k], s[k + 1]) ELSE f[k]
               g == [n \in 0..k + 1 |-> IF n = k + 1 THEN last ELSE f[n]]
    <2>2. g[k + 1] = last /\ (\A n \in 0..k : g[n] = f[n]) /\ g = [n \in 0..k + 1 |-> g[n]]
        OBVIOUS
    <2> HIDE DEF g
    <2>3. ASSUME NEW n \in 0..k + 1
          PROVE  g[n] = IF n = 0 THEN <<>>
                        ELSE IF n \in places THEN Append(g[n - 1], s[n]) ELSE g[n - 1]
        <3>1. CASE n = 0
            BY <2>1, <2>2, <3>1, PickingAt
        <3>2. CASE n = k + 1
            <4>1. n # 0 /\ n - 1 = k /\ k \in 0..k
                BY <3>2
            <4>2. g[n - 1] = f[k]
                BY <2>2, <4>1
            <4> QED BY <2>2, <3>2, <4>1, <4>2
        <3>3. CASE n \in 1..k
            <4>1. n # 0 /\ n - 1 \in 0..k /\ n \in 0..k
                BY <3>3
            <4>2. g[n] = f[n] /\ g[n - 1] = f[n - 1]
                BY <2>2, <4>1
            <4>3. f[n] = IF n \in places THEN Append(f[n - 1], s[n]) ELSE f[n - 1]
                BY <2>1, <3>3, PickingAt
            <4> QED BY <4>1, <4>2, <4>3
        <3> QED BY <3>1, <3>2, <3>3
    <2>4. IsPicking(g, s, places, k + 1)
        BY <2>2, <2>3 DEF IsPicking
    <2> QED BY <2>4
<1> HIDE DEF P
<1>3. Nat \subseteq P
    BY <1>1, <1>2, InductionOnNat
<1> QED BY <1>3 DEF P

\* What is found up to a place depends on what is there and before.
LEMMA PickingAgrees ==
    ASSUME NEW s, NEW t, NEW K, NEW L, NEW m \in Nat, NEW k \in Nat, NEW l \in Nat,
           m <= k, m <= l,
           PickAlike(m, s, K, t, L), NEW f, IsPicking(f, s, K, k), NEW g, IsPicking(g, t, L, l)
    PROVE  \A n \in 0..m : f[n] = g[n]
<1> DEFINE P == {n \in Nat : n <= m => f[n] = g[n]}
<1>1. 0 \in P
    <2>1. f[0] = <<>>
        BY PickingStarts
    <2>2. g[0] = <<>>
        BY PickingStarts
    <2> QED BY <2>1, <2>2
<1>2. ASSUME NEW n \in Nat, n \in P PROVE n + 1 \in P
    <2> SUFFICES ASSUME n + 1 <= m PROVE f[n + 1] = g[n + 1]
        OBVIOUS
    <2>1. f[n] = g[n] /\ (n + 1) - 1 = n /\ n + 1 \in 1..m /\ n + 1 \in 1..k /\ n + 1 \in 1..l
        BY <1>2
    <2>2. f[n + 1] = IF n + 1 \in K THEN Append(f[n], s[n + 1]) ELSE f[n]
        BY <2>1, PickingAt
    <2>3. g[n + 1] = IF n + 1 \in L THEN Append(g[n], t[n + 1]) ELSE g[n]
        BY <2>1, PickingAt
    <2>4. (n + 1 \in K => s[n + 1] = t[n + 1]) /\ (n + 1 \in K <=> n + 1 \in L)
        BY <2>1 DEF PickAlike, SamePlaces
    <2> QED BY <2>1, <2>2, <2>3, <2>4
<1> HIDE DEF P
<1>3. Nat \subseteq P
    BY <1>1, <1>2, InductionOnNat
<1> QED BY <1>3 DEF P

LEMMA PickedIs ==
    ASSUME NEW S, NEW s \in Seq(S), NEW places
    PROVE  \E f : IsPicking(f, s, places, Len(s)) /\ Picked(s, places) = f[Len(s)]
<1>1. Len(s) \in Nat
    OBVIOUS
<1>2. \E f : IsPicking(f, s, places, Len(s))
    BY <1>1, PickingExists
<1> QED BY <1>2 DEF Picked, IsPicking

LEMMA PickedEmpty ==
    ASSUME NEW places PROVE Picked(<<>>, places) = <<>>
<1>1. <<>> \in Seq({}) /\ Len(<<>>) = 0
    OBVIOUS
<1>2. PICK f : IsPicking(f, <<>>, places, 0) /\ Picked(<<>>, places) = f[0]
    BY <1>1, PickedIs
<1>3. 0 \in Nat
    OBVIOUS
<1>4. f[0] = <<>>
    BY <1>2, <1>3, PickingStarts
<1> QED BY <1>2, <1>4

\* One more element is picked behind the others, or is not.
LEMMA PickedAppend ==
    ASSUME NEW S, NEW s \in Seq(S), NEW x \in S, NEW K, NEW L,
           SamePlaces(Len(s), K, L)
    PROVE  Picked(Append(s, x), L) = IF Len(s) + 1 \in L THEN Append(Picked(s, K), x)
                                     ELSE Picked(s, K)
<1> DEFINE m == Len(s)
           t == Append(s, x)
<1>1. /\ m \in Nat /\ t \in Seq(S) /\ Len(t) = m + 1 /\ t[m + 1] = x
      /\ \A i \in 1..m : s[i] = t[i]
    OBVIOUS
<1>2. PICK f : IsPicking(f, s, K, m) /\ Picked(s, K) = f[m]
    BY PickedIs
<1>3. PICK g : IsPicking(g, t, L, m + 1) /\ Picked(t, L) = g[m + 1]
    BY <1>1, PickedIs
<1> HIDE DEF m, t
<1>4. m \in Nat /\ m + 1 \in Nat /\ m <= m /\ m <= m + 1 /\ m \in 0..m
    BY <1>1
<1>5. PickAlike(m, s, K, t, L)
    BY <1>1 DEF PickAlike, m
<1>6. f[m] = g[m]
    <2>1. IsPicking(f, s, K, m) /\ IsPicking(g, t, L, m + 1)
        BY <1>2, <1>3
    <2>2. \A n \in 0..m : f[n] = g[n]
        BY <1>4, <1>5, <2>1, PickingAgrees
    <2> QED BY <1>4, <2>2
<1>7. g[m + 1] = IF m + 1 \in L THEN Append(g[(m + 1) - 1], t[m + 1]) ELSE g[(m + 1) - 1]
    <2>1. m + 1 \in 1..m + 1
        BY <1>1
    <2> QED BY <1>3, <1>4, <2>1, PickingAt
<1>8. (m + 1) - 1 = m
    BY <1>1
<1> QED BY <1>1, <1>2, <1>3, <1>6, <1>7, <1>8 DEF t, m

\* Elsewhere the sequence may be anything.
LEMMA PickedElsewhere ==
    ASSUME NEW S, NEW s \in Seq(S), NEW t \in Seq(S), Len(t) = Len(s), NEW K, NEW L,
           PickAlike(Len(s), s, K, t, L)
    PROVE  Picked(t, L) = Picked(s, K)
<1>1. PICK f : IsPicking(f, s, K, Len(s)) /\ Picked(s, K) = f[Len(s)]
    BY PickedIs
<1>2. PICK g : IsPicking(g, t, L, Len(s)) /\ Picked(t, L) = g[Len(s)]
    BY PickedIs
<1>3. Len(s) \in Nat /\ Len(s) <= Len(s) /\ Len(s) \in 0..Len(s)
    OBVIOUS
<1>4. \A n \in 0..Len(s) : f[n] = g[n]
    BY <1>1, <1>2, <1>3, PickingAgrees
<1> QED BY <1>1, <1>2, <1>3, <1>4

\* All of them.
LEMMA PickedWhole ==
    ASSUME NEW S, NEW s \in Seq(S)
    PROVE  Picked(s, DOMAIN s) = s
<1>1. PICK f : IsPicking(f, s, DOMAIN s, Len(s)) /\ Picked(s, DOMAIN s) = f[Len(s)]
    BY PickedIs
<1>0. \A n \in 1..Len(s) : n \in DOMAIN s /\ f[n] = Append(f[n - 1], s[n])
    <2>1. \A n \in 1..Len(s) :
              f[n] = IF n \in DOMAIN s THEN Append(f[n - 1], s[n]) ELSE f[n - 1]
        BY <1>1, PickingAt
    <2>2. \A n \in 1..Len(s) : n \in DOMAIN s
        OBVIOUS
    <2> QED BY <2>1, <2>2
<1> DEFINE P == {n \in Nat : n <= Len(s) => f[n] = SubSeq(s, 1, n)}
<1>2. Len(s) \in Nat /\ DOMAIN s = 1..Len(s)
    OBVIOUS
<1>3. 0 \in P
    <2>1. f[0] = <<>>
        BY <1>1, <1>2, PickingStarts
    <2>2. SubSeq(s, 1, 0) = <<>>
        OBVIOUS
    <2> QED BY <2>1, <2>2
<1>4. ASSUME NEW n \in Nat, n \in P PROVE n + 1 \in P
    <2> SUFFICES ASSUME n + 1 <= Len(s) PROVE f[n + 1] = SubSeq(s, 1, n + 1)
        OBVIOUS
    <2>1. f[n] = SubSeq(s, 1, n) /\ (n + 1) - 1 = n /\ n + 1 \in 1..Len(s) /\ n + 1 \in DOMAIN s
        BY <1>2, <1>4
    <2>2. f[n + 1] = Append(f[n], s[n + 1])
        BY <1>0, <2>1
    <2>3. Append(SubSeq(s, 1, n), s[n + 1]) = SubSeq(s, 1, n + 1)
        <3>1. PICK m \in 1..Len(s) : m = n + 1
            BY <2>1
        <3>2. /\ SubSeq(s, 1, n) \in Seq(S) /\ Len(SubSeq(s, 1, n)) = n
              /\ \A i \in 1..n : SubSeq(s, 1, n)[i] = s[i]
            BY <1>2, <2>1
        <3>3. /\ SubSeq(s, 1, m) \in Seq(S) /\ Len(SubSeq(s, 1, m)) = m
              /\ \A i \in 1..m : SubSeq(s, 1, m)[i] = s[i]
            BY <1>2, <3>1
        <3>4. PICK a : a = Append(SubSeq(s, 1, n), s[m])
            OBVIOUS
        <3>5. a \in Seq(S) /\ Len(a) = m /\ \A i \in 1..m : a[i] = s[i]
            BY <3>1, <3>2, <3>4, AppendProperties
        <3>6. a = SubSeq(s, 1, m)
            BY <3>1, <3>3, <3>5, SeqEqual
        <3> QED BY <3>1, <3>4, <3>6
    <2> QED BY <2>1, <2>2, <2>3
<1> HIDE DEF P
<1>5. Nat \subseteq P
    BY <1>3, <1>4, InductionOnNat
<1>6. f[Len(s)] = SubSeq(s, 1, Len(s))
    BY <1>2, <1>5 DEF P
<1>7. SubSeq(s, 1, Len(s)) = s
    OBVIOUS
<1> QED BY <1>1, <1>6, <1>7

\* What is picked is what was there.
LEMMA PickedTyped ==
    ASSUME NEW S, NEW T, NEW s \in Seq(S), NEW places,
           \A i \in 1..Len(s) : i \in places => s[i] \in T
    PROVE  Picked(s, places) \in Seq(T)
<1>1. PICK f : IsPicking(f, s, places, Len(s)) /\ Picked(s, places) = f[Len(s)]
    BY PickedIs
<1> DEFINE P == {n \in Nat : n <= Len(s) => f[n] \in Seq(T)}
<1>2. 0 \in P
    <2>1. <<>> \in Seq(T) /\ Len(s) \in Nat
        OBVIOUS
    <2>2. f[0] = <<>>
        BY <1>1, <2>1, PickingAt
    <2> QED BY <2>1, <2>2
<1>3. ASSUME NEW n \in Nat, n \in P PROVE n + 1 \in P
    <2> SUFFICES ASSUME n + 1 <= Len(s) PROVE f[n + 1] \in Seq(T)
        OBVIOUS
    <2>1. f[n] \in Seq(T) /\ (n + 1) - 1 = n /\ n + 1 \in 1..Len(s) /\ Len(s) \in Nat
        BY <1>3
    <2>2. f[n + 1] = IF n + 1 \in places THEN Append(f[n], s[n + 1]) ELSE f[n]
        BY <1>1, <2>1, PickingAt
    <2> QED BY <2>1, <2>2
<1> HIDE DEF P
<1>4. Nat \subseteq P
    BY <1>2, <1>3, InductionOnNat
<1>5. Len(s) \in Nat
    OBVIOUS
<1> QED BY <1>1, <1>4, <1>5 DEF P

-----------------------------------------------------------------------------
\* A cut is a place in the messages: at least one is discarded and one kept, and the
\* first kept one is no tool result.
LEMMA CutPlace ==
    ASSUME NEW S, NEW messages \in Seq(S), NEW cut \in Cuts(messages)
    PROVE  /\ cut \in 1..Len(messages) - 1
           /\ messages[cut + 1].kind # "result"
<1>1. PICK n \in 1..Len(messages) : cut = CutFrom(messages, n)
    BY DEF Cuts
<1> DEFINE P == {k \in n..Len(messages) : k < Len(messages) => messages[k + 1].kind # "result"}
<1>2. P \in SUBSET Nat /\ Len(messages) \in P
    OBVIOUS
<1>3. cut \in P
    BY <1>1, <1>2, LeastNumber DEF CutFrom
<1>4. cut # Len(messages)
    BY DEF Cuts
<1> QED BY <1>1, <1>3, <1>4

-----------------------------------------------------------------------------
(***************************************************************************)
(* Where the picked elements go: h of a place is how many are picked up to *)
(* it, r what is picked.                                                   *)
(***************************************************************************)
Mapped(h, r, s, places) ==
    /\ \A n \in 0..Len(s) : h[n] \in Nat
    /\ \A n \in 1..Len(s) : n \in places =>
          h[n] = h[n - 1] + 1 /\ h[n] \in 1..Len(r) /\ r[h[n]] = s[n]
    /\ \A q \in 1..Len(r) : \E n \in 1..Len(s) : n \in places /\ h[n] = q

LEMMA PickingTyped ==
    ASSUME NEW S, NEW s \in Seq(S), NEW places, NEW f, IsPicking(f, s, places, Len(s))
    PROVE  \A n \in 0..Len(s) : f[n] \in Seq(S)
<1> DEFINE P == {n \in Nat : n <= Len(s) => f[n] \in Seq(S)}
<1>1. 0 \in P
    <2>1. <<>> \in Seq(S) /\ Len(s) \in Nat
        OBVIOUS
    <2>2. f[0] = <<>>
        BY <2>1, PickingStarts
    <2> QED BY <2>1, <2>2
<1>2. ASSUME NEW n \in Nat, n \in P PROVE n + 1 \in P
    <2> SUFFICES ASSUME n + 1 <= Len(s) PROVE f[n + 1] \in Seq(S)
        OBVIOUS
    <2>1. f[n] \in Seq(S) /\ (n + 1) - 1 = n /\ n + 1 \in 1..Len(s) /\ Len(s) \in Nat
        BY <1>2
    <2>2. f[n + 1] = IF n + 1 \in places THEN Append(f[n], s[n + 1]) ELSE f[n]
        BY <2>1, PickingAt
    <2> QED BY <2>1, <2>2
<1> HIDE DEF P
<1>3. Nat \subseteq P
    BY <1>1, <1>2, InductionOnNat
<1> QED BY <1>3 DEF P

\* What is picked at a place stays where it is.
LEMMA PickingStays ==
    ASSUME NEW S, NEW s \in Seq(S), NEW places, NEW f, IsPicking(f, s, places, Len(s)),
           NEW n \in 1..Len(s), n \in places
    PROVE  /\ Len(f[n]) = Len(f[n - 1]) + 1
           /\ \A m \in n..Len(s) : Len(f[n]) \in 1..Len(f[m]) /\ f[m][Len(f[n])] = s[n]
<1>1. /\ Len(s) \in Nat /\ n \in Nat /\ n - 1 \in 0..Len(s) /\ n \in 0..Len(s)
      /\ \A m \in 0..Len(s) : f[m] \in Seq(S)
    BY PickingTyped
<1>0. \A k \in 1..Len(s) :
          f[k] = IF k \in places THEN Append(f[k - 1], s[k]) ELSE f[k - 1]
    <2>1. Len(s) \in Nat
        OBVIOUS
    <2> QED BY <2>1, PickingAt
<1>2. f[n] = Append(f[n - 1], s[n])
    BY <1>0
<1>3. f[n - 1] \in Seq(S) /\ f[n] \in Seq(S) /\ s[n] \in S
    BY <1>1
<1>4. Len(f[n]) = Len(f[n - 1]) + 1 /\ Len(f[n]) \in 1..Len(f[n]) /\ f[n][Len(f[n])] = s[n]
    BY <1>2, <1>3
<1> DEFINE k == Len(f[n])
           P == {d \in Nat : n + d <= Len(s) => k \in 1..Len(f[n + d]) /\ f[n + d][k] = s[n]}
<1>5. 0 \in P
    <2>1. n + 0 = n
        BY <1>1
    <2> QED BY <1>4, <2>1
<1> HIDE DEF k
<1>6. ASSUME NEW d \in Nat, d \in P PROVE d + 1 \in P
    <2> SUFFICES ASSUME n + (d + 1) <= Len(s)
                 PROVE  k \in 1..Len(f[n + (d + 1)]) /\ f[n + (d + 1)][k] = s[n]
        OBVIOUS
    <2>1. /\ n + d <= Len(s) /\ n + (d + 1) \in 1..Len(s) /\ (n + (d + 1)) - 1 = n + d
          /\ n + d \in 0..Len(s)
        BY <1>1
    <2>2. k \in 1..Len(f[n + d]) /\ f[n + d][k] = s[n] /\ f[n + d] \in Seq(S)
        BY <1>1, <1>6, <2>1
    <2>3. \/ f[n + (d + 1)] = f[n + d]
          \/ f[n + (d + 1)] = Append(f[n + d], s[n + (d + 1)])
        BY <1>0, <2>1
    <2>4. s[n + (d + 1)] \in S
        BY <2>1
    <2> QED BY <2>2, <2>3, <2>4
<1> HIDE DEF P
<1>7. Nat \subseteq P
    BY <1>5, <1>6, InductionOnNat
<1>8. ASSUME NEW m \in n..Len(s) PROVE k \in 1..Len(f[m]) /\ f[m][k] = s[n]
    <2>1. m - n \in Nat /\ n + (m - n) = m
        BY <1>1
    <2>2. m - n \in P
        BY <1>7, <2>1
    <2> QED BY <2>1, <2>2 DEF P
<1> QED BY <1>4, <1>8 DEF k

\* A change before the end of what is appended to, and at its end.
LEMMA AppendRevised ==
    ASSUME NEW S, NEW a \in Seq(S), NEW k \in 1..Len(a), NEW x \in S, NEW y \in S
    PROVE  Append([a EXCEPT ![k] = x], y) = [Append(a, y) EXCEPT ![k] = x]
<1>1. PICK b : b = [a EXCEPT ![k] = x]
    OBVIOUS
<1>2. b \in Seq(S) /\ Len(b) = Len(a) /\ \A i \in 1..Len(a) : b[i] = IF i = k THEN x ELSE a[i]
    BY <1>1, ExceptSeq
<1>3. PICK c : c = Append(a, y)
    OBVIOUS
<1>4. /\ c \in Seq(S) /\ Len(c) = Len(a) + 1 /\ c[Len(a) + 1] = y
      /\ \A i \in 1..Len(a) : c[i] = a[i]
    BY <1>3, AppendProperties
<1>5. k \in 1..Len(c) /\ Len(a) \in Nat /\ k \in Nat
    BY <1>4
<1>6. PICK d : d = [c EXCEPT ![k] = x]
    OBVIOUS
<1>7. d \in Seq(S) /\ Len(d) = Len(c) /\ \A i \in 1..Len(c) : d[i] = IF i = k THEN x ELSE c[i]
    BY <1>4, <1>5, <1>6, ExceptSeq
<1>8. PICK e : e = Append(b, y)
    OBVIOUS
<1>9. /\ e \in Seq(S) /\ Len(e) = Len(b) + 1 /\ e[Len(b) + 1] = y
      /\ \A i \in 1..Len(b) : e[i] = b[i]
    BY <1>2, <1>8, AppendProperties
<1>10. \A i \in 1..Len(d) : d[i] = e[i]
    <2>1. ASSUME NEW i \in 1..Len(a) PROVE d[i] = e[i]
        <3>1. i \in 1..Len(c) /\ i \in 1..Len(b)
            BY <1>2, <1>4, <1>5
        <3>2. d[i] = IF i = k THEN x ELSE c[i]
            BY <1>7, <3>1
        <3>3. c[i] = a[i]
            BY <1>4
        <3>4. b[i] = IF i = k THEN x ELSE a[i]
            BY <1>2
        <3>5. e[i] = b[i]
            BY <1>9, <3>1
        <3> QED BY <3>2, <3>3, <3>4, <3>5
    <2>2. d[Len(a) + 1] = e[Len(a) + 1]
        BY <1>2, <1>4, <1>5, <1>7, <1>9
    <2>3. \A i \in 1..Len(d) : i \in 1..Len(a) \/ i = Len(a) + 1
        BY <1>4, <1>5, <1>7
    <2> QED BY <2>1, <2>2, <2>3
<1>11. Len(d) = Len(e)
    BY <1>2, <1>4, <1>7, <1>9
<1>12. d = e
    BY <1>7, <1>9, <1>10, <1>11, SeqEqual
<1> QED BY <1>1, <1>3, <1>6, <1>8, <1>12

LEMMA LastRevised ==
    ASSUME NEW S, NEW a \in Seq(S), NEW x \in S, NEW y \in S
    PROVE  [Append(a, y) EXCEPT ![Len(a) + 1] = x] = Append(a, x)
<1>1. PICK c : c = Append(a, y)
    OBVIOUS
<1>2. /\ c \in Seq(S) /\ Len(c) = Len(a) + 1 /\ \A i \in 1..Len(a) : c[i] = a[i]
    BY <1>1, AppendProperties
<1>3. PICK k \in 1..Len(c) : k = Len(a) + 1
    BY <1>2
<1>4. PICK d : d = [c EXCEPT ![k] = x]
    OBVIOUS
<1>5. d \in Seq(S) /\ Len(d) = Len(c) /\ \A i \in 1..Len(c) : d[i] = IF i = k THEN x ELSE c[i]
    BY <1>2, <1>4, ExceptSeq
<1>6. PICK e : e = Append(a, x)
    OBVIOUS
<1>7. /\ e \in Seq(S) /\ Len(e) = Len(a) + 1 /\ e[Len(a) + 1] = x
      /\ \A i \in 1..Len(a) : e[i] = a[i]
    BY <1>6, AppendProperties
<1>8. Len(d) = Len(e) /\ Len(a) \in Nat
    BY <1>2, <1>5, <1>7
<1>9. \A i \in 1..Len(d) : d[i] = e[i]
    BY <1>2, <1>3, <1>5, <1>7, <1>8
<1>10. d = e
    BY <1>5, <1>7, <1>8, <1>9, SeqEqual
<1> QED BY <1>1, <1>3, <1>4, <1>6, <1>10

\* A change of an element that is picked.
Changes(s, t, i, x) == t = [s EXCEPT ![i] = x]
Revised(r, after, k, from, to) == r[k] = from /\ Changes(r, after, k, to)

LEMMA PickedRevised ==
    ASSUME NEW S, NEW s \in Seq(S), NEW places, NEW i \in 1..Len(s), i \in places, NEW x \in S,
           NEW t, Changes(s, t, i, x)
    PROVE  \E k \in 1..Len(Picked(s, places)) : Revised(Picked(s, places), Picked(t, places), k, s[i], x)
<1>1. /\ t \in Seq(S) /\ Len(t) = Len(s) /\ Len(s) \in Nat /\ t[i] = x /\ i \in Nat
      /\ \A n \in 1..Len(s) : n # i => t[n] = s[n]
    BY DEF Changes
<1>2. PICK f : IsPicking(f, s, places, Len(s)) /\ Picked(s, places) = f[Len(s)]
    BY PickedIs
<1>3. PICK g : IsPicking(g, t, places, Len(s)) /\ Picked(t, places) = g[Len(s)]
    BY <1>1, PickedIs
<1>4. PICK k : k = Len(f[i])
    OBVIOUS
<1>5. /\ k = Len(f[i - 1]) + 1
      /\ \A m \in i..Len(s) : k \in 1..Len(f[m]) /\ f[m][k] = s[i]
    BY <1>2, <1>4, PickingStays
<1>6. \A n \in 0..Len(s) : f[n] \in Seq(S)
    BY <1>2, PickingTyped
<1>13. \A n \in 1..Len(s) : f[n] = IF n \in places THEN Append(f[n - 1], s[n]) ELSE f[n - 1]
    BY <1>2, PickingAt
<1>14. \A n \in 1..Len(s) : g[n] = IF n \in places THEN Append(g[n - 1], t[n]) ELSE g[n - 1]
    BY <1>3, PickingAt
<1> DEFINE P == {d \in Nat : i + d <= Len(s) => g[i + d] = [f[i + d] EXCEPT ![k] = x]}
<1>7. 0 \in P
    <2>1. i - 1 \in 0..Len(s) /\ i - 1 \in Nat /\ i - 1 <= Len(s) /\ i - 1 \in 0..i - 1 /\ i + 0 = i
        BY <1>1
    <2>2. PickAlike(i - 1, s, places, t, places)
        BY <1>1, <2>1 DEF PickAlike, SamePlaces
    <2>3. f[i - 1] = g[i - 1]
        BY <1>1, <1>2, <1>3, <2>1, <2>2, PickingAgrees
    <2>4. f[i] = Append(f[i - 1], s[i]) /\ g[i] = Append(g[i - 1], x)
        <3>1. f[i] = Append(f[i - 1], s[i])
            BY <1>13
        <3>2. g[i] = Append(g[i - 1], t[i])
            BY <1>14
        <3> QED BY <1>1, <3>1, <3>2
    <2>5. f[i - 1] \in Seq(S) /\ s[i] \in S
        BY <1>6, <2>1
    <2>6. [Append(f[i - 1], s[i]) EXCEPT ![Len(f[i - 1]) + 1] = x] = Append(f[i - 1], x)
        <3>1. PICK a \in Seq(S), y \in S : a = f[i - 1] /\ y = s[i]
            BY <2>5
        <3>2. [Append(a, y) EXCEPT ![Len(a) + 1] = x] = Append(a, x)
            BY LastRevised
        <3> QED BY <3>1, <3>2
    <2>7. g[i] = [f[i] EXCEPT ![k] = x]
        BY <1>5, <2>3, <2>4, <2>6
    <2> QED BY <2>1, <2>7
<1>8. ASSUME NEW d \in Nat, d \in P PROVE d + 1 \in P
    <2> SUFFICES ASSUME i + (d + 1) <= Len(s)
                 PROVE  g[i + (d + 1)] = [f[i + (d + 1)] EXCEPT ![k] = x]
        OBVIOUS
    <2>1. PICK n \in i + 1..Len(s) : n = i + (d + 1) /\ n - 1 = i + d
        BY <1>1
    <2>2. n \in 1..Len(s) /\ n - 1 \in i..Len(s) /\ n - 1 \in 0..Len(s) /\ n # i /\ i + d <= Len(s)
        BY <1>1, <2>1
    <2>3. g[n - 1] = [f[n - 1] EXCEPT ![k] = x]
        BY <1>8, <2>1, <2>2
    <2>4. f[n] = IF n \in places THEN Append(f[n - 1], s[n]) ELSE f[n - 1]
        BY <1>13, <2>2
    <2>5. g[n] = IF n \in places THEN Append(g[n - 1], s[n]) ELSE g[n - 1]
        BY <1>1, <1>14, <2>2
    <2>6. f[n - 1] \in Seq(S) /\ k \in 1..Len(f[n - 1]) /\ s[n] \in S
        BY <1>5, <1>6, <2>2
    <2>7. Append([f[n - 1] EXCEPT ![k] = x], s[n]) = [Append(f[n - 1], s[n]) EXCEPT ![k] = x]
        BY <2>6, AppendRevised
    <2>8. g[n] = [f[n] EXCEPT ![k] = x]
        BY <2>3, <2>4, <2>5, <2>7
    <2> QED BY <2>1, <2>8
<1> HIDE DEF P
<1>9. Nat \subseteq P
    BY <1>7, <1>8, InductionOnNat
<1>10. PICK d \in Nat : i + d = Len(s) /\ Len(s) \in i..Len(s)
    <2>1. Len(s) - i \in Nat /\ i + (Len(s) - i) = Len(s)
        BY <1>1
    <2>2. Len(s) \in i..Len(s)
        BY <1>1
    <2> QED BY <2>1, <2>2
<1>11. g[Len(s)] = [f[Len(s)] EXCEPT ![k] = x]
    <2>1. d \in P
        BY <1>9
    <2>2. i + d <= Len(s)
        BY <1>1, <1>10
    <2> QED BY <1>10, <2>1, <2>2 DEF P
<1>12. k \in 1..Len(f[Len(s)]) /\ f[Len(s)][k] = s[i]
    BY <1>5, <1>10
<1> QED BY <1>2, <1>3, <1>11, <1>12 DEF Revised, Changes

LEMMA PickedMapped ==
    ASSUME NEW S, NEW s \in Seq(S), NEW places
    PROVE  \E h : Mapped(h, Picked(s, places), s, places)
<1>1. PICK f : IsPicking(f, s, places, Len(s)) /\ Picked(s, places) = f[Len(s)]
    BY PickedIs
<1> DEFINE h == [n \in 0..Len(s) |-> Len(f[n])]
           r == Picked(s, places)
<1>2. Len(s) \in Nat /\ (\A n \in 0..Len(s) : f[n] \in Seq(S)) /\ Len(s) \in 0..Len(s)
    BY <1>1, PickingTyped
<1>3. \A n \in 0..Len(s) : h[n] = Len(f[n]) /\ h[n] \in Nat
    BY <1>2
<1>4. ASSUME NEW n \in 1..Len(s), n \in places
      PROVE  h[n] = h[n - 1] + 1 /\ h[n] \in 1..Len(r) /\ r[h[n]] = s[n]
    <2>1. /\ Len(f[n]) = Len(f[n - 1]) + 1
          /\ \A m \in n..Len(s) : Len(f[n]) \in 1..Len(f[m]) /\ f[m][Len(f[n])] = s[n]
        BY <1>1, <1>4, PickingStays
    <2>2. Len(s) \in n..Len(s) /\ n \in 0..Len(s) /\ n - 1 \in 0..Len(s)
        BY <1>2
    <2> QED BY <1>1, <1>3, <2>1, <2>2
<1> DEFINE P == {m \in Nat : m <= Len(s) =>
                    \A q \in 1..Len(f[m]) : \E n \in 1..m : n \in places /\ Len(f[n]) = q}
<1>5. 0 \in P
    <2>1. f[0] = <<>>
        BY <1>1, <1>2, PickingStarts
    <2> QED BY <2>1
<1>6. ASSUME NEW m \in Nat, m \in P PROVE m + 1 \in P
    <2> SUFFICES ASSUME m + 1 <= Len(s), NEW q \in 1..Len(f[m + 1])
                 PROVE  \E n \in 1..m + 1 : n \in places /\ Len(f[n]) = q
        OBVIOUS
    <2>1. /\ (m + 1) - 1 = m /\ m + 1 \in 1..Len(s) /\ m \in 0..Len(s) /\ m + 1 \in 1..m + 1
          /\ \A n \in 1..m : n \in 1..m + 1
        BY <1>2
    <2>2. f[m + 1] = IF m + 1 \in places THEN Append(f[m], s[m + 1]) ELSE f[m]
        BY <1>1, <1>2, <2>1, PickingAt
    <2>3. CASE q \in 1..Len(f[m])
        <3>1. PICK n \in 1..m : n \in places /\ Len(f[n]) = q
            BY <1>2, <1>6, <2>1, <2>3
        <3> QED BY <2>1, <3>1
    <2>4. CASE q \notin 1..Len(f[m])
        <3>1. f[m] \in Seq(S) /\ s[m + 1] \in S
            BY <1>2, <2>1
        <3>2. m + 1 \in places
            BY <2>2, <2>4
        <3>3. Len(f[m + 1]) = Len(f[m]) + 1 /\ Len(f[m]) \in Nat
            BY <2>2, <3>1, <3>2
        <3>4. Len(f[m + 1]) = q
            BY <2>4, <3>3
        <3> QED BY <2>1, <3>2, <3>4
    <2> QED BY <2>3, <2>4
<1> HIDE DEF P
<1>7. Nat \subseteq P
    BY <1>5, <1>6, InductionOnNat
<1>8. \A q \in 1..Len(r) : \E n \in 1..Len(s) : n \in places /\ h[n] = q
    <2>1. Len(s) \in P
        BY <1>2, <1>7
    <2>2. \A q \in 1..Len(f[Len(s)]) : \E n \in 1..Len(s) : n \in places /\ Len(f[n]) = q
        BY <1>2, <2>1 DEF P
    <2>3. \A n \in 1..Len(s) : n \in 0..Len(s)
        BY <1>2
    <2> QED BY <1>1, <1>3, <2>2, <2>3
<1> HIDE DEF h, r
<1>9. Mapped(h, r, s, places)
    BY <1>3, <1>4, <1>8 DEF Mapped
<1> QED BY <1>9 DEF r

\* Neighbours that are all picked stay neighbours.
AllPicked(places, n, c) == \A d \in 1..c : n + d \in places

LEMMA Neighbours ==
    ASSUME NEW S, NEW s \in Seq(S), NEW places, NEW r, NEW h, Mapped(h, r, s, places),
           NEW n \in 0..Len(s), NEW c \in Nat, n + c <= Len(s), AllPicked(places, n, c)
    PROVE  h[n + c] = h[n] + c
<1> DEFINE P == {d \in Nat : d <= c => h[n + d] = h[n] + d}
<1>1. Len(s) \in Nat /\ h[n] \in Nat /\ n \in Nat
    BY DEF Mapped
<1>2. 0 \in P
    <2>1. n + 0 = n /\ h[n] + 0 = h[n]
        BY <1>1
    <2> QED BY <2>1
<1>3. ASSUME NEW d \in Nat, d \in P PROVE d + 1 \in P
    <2> SUFFICES ASSUME d + 1 <= c PROVE h[n + (d + 1)] = h[n] + (d + 1)
        OBVIOUS
    <2>1. d + 1 \in 1..c /\ n + (d + 1) \in 1..Len(s) /\ (n + (d + 1)) - 1 = n + d
        BY <1>1
    <2>2. h[n + (d + 1)] = h[n + d] + 1
        BY <2>1 DEF Mapped, AllPicked
    <2>3. h[n + d] = h[n] + d
        BY <1>3, <2>1
    <2> QED BY <1>1, <2>2, <2>3
<1> HIDE DEF P
<1>4. Nat \subseteq P
    BY <1>2, <1>3, InductionOnNat
<1>5. c \in P
    BY <1>4
<1> QED BY <1>5 DEF P

-----------------------------------------------------------------------------
(***************************************************************************)
(* Answered messages: how they arise, and that they are paired once they   *)
(* are sanitized.                                                          *)
(***************************************************************************)
Shaped(S) == \A m \in S : m.calls \in Nat /\ m.call \in Nat

LEMMA ResultIs ==
    ASSUME NEW call
    PROVE  /\ ToolResult(call).kind = "result" /\ ToolResult(call).calls = 0
           /\ ToolResult(call).call = call /\ Sendable(ToolResult(call))
BY DEF ToolResult, Message, Sendable

\* Behind a message that is sent come as many results as it has calls.
LEMMA ResultsBehind ==
    ASSUME NEW S, NEW s \in Seq(S), Answered(s), NEW j \in 1..Len(s), Sendable(s[j]),
           NEW call \in 1..s[j].calls
    PROVE  j + call <= Len(s) /\ s[j + call] = ToolResult(call)
BY DEF Answered, ResultsFollow

\* The message that made the call of result i.
LEMMA CallerOf ==
    ASSUME NEW S, Shaped(S), NEW s \in Seq(S), Answered(s), NEW i \in 1..Len(s), s[i].kind = "result"
    PROVE  /\ s[i].call \in Nat
           /\ \E j \in 1..i - 1 : /\ j \in 1..Len(s) /\ Sendable(s[j]) /\ AnswerTo(s, i, j)
                                  /\ s[i].call \in 1..s[j].calls
<1>1. s[i] \in S /\ s[i].call \in Nat
    BY DEF Shaped
<1>2. PICK j \in 1..i - 1 : Sendable(s[j]) /\ AnswerTo(s, i, j)
    BY DEF Answered
<1>3. j \in 1..Len(s)
    OBVIOUS
<1>4. s[j] \in S /\ s[j].calls \in Nat
    BY <1>3 DEF Shaped
<1>5. s[i].call \in 1..s[j].calls
    BY <1>1, <1>2, <1>4 DEF AnswerTo
<1> QED BY <1>1, <1>2, <1>3, <1>5

LEMMA AnsweredIsPaired ==
    ASSUME NEW S, Shaped(S), NEW s \in Seq(S), Answered(s)
    PROVE  Paired(Sanitize(s))
<1> DEFINE places == {i \in DOMAIN s : Sendable(s[i])}
           r == Picked(s, places)
<1>1. PICK h : Mapped(h, r, s, places)
    BY PickedMapped
<1>2. Sanitize(s) = r
    BY DEF Sanitize
<1>3. /\ \A n \in 1..Len(s) : n \in places <=> Sendable(s[n])
      /\ Len(s) \in Nat /\ r \in Seq(S)
    <2>1. r \in Seq(S)
        BY PickedTyped
    <2> QED BY <2>1
<1> HIDE DEF places, r
<1>4. ASSUME NEW j \in 1..Len(s), Sendable(s[j]), NEW call \in 1..s[j].calls
      PROVE  /\ j + call \in 1..Len(s) /\ h[j] + call \in 1..Len(r) /\ h[j] \in 1..Len(r)
             /\ h[j + call] = h[j] + call /\ r[h[j] + call] = ToolResult(call)
    <2>1. s[j].calls \in Nat /\ call \in Nat /\ j \in Nat
        BY DEF Shaped
    <2>2. ASSUME NEW d \in 1..call
          PROVE  j + d \in 1..Len(s) /\ s[j + d] = ToolResult(d) /\ j + d \in places
        <3>1. d \in 1..s[j].calls
            BY <2>1
        <3>2. j + d <= Len(s) /\ s[j + d] = ToolResult(d)
            BY <1>4, <3>1, ResultsBehind
        <3>3. j + d \in 1..Len(s)
            BY <2>1, <3>2
        <3> QED BY <1>3, <3>2, <3>3, ResultIs
    <2>3. call \in 1..call /\ j \in 0..Len(s)
        BY <2>1
    <2>4. j + call \in 1..Len(s) /\ s[j + call] = ToolResult(call) /\ j + call \in places
        BY <2>2, <2>3
    <2>5. h[j + call] = h[j] + call
        <3>1. AllPicked(places, j, call)
            BY <2>2 DEF AllPicked
        <3>2. call \in Nat /\ j + call <= Len(s) /\ j \in 0..Len(s)
            BY <2>1, <2>3, <2>4
        <3> QED BY <1>1, <3>1, <3>2, Neighbours
    <2>6. /\ h[j] \in 1..Len(r) /\ h[j + call] \in 1..Len(r) /\ r[h[j + call]] = s[j + call]
        BY <1>1, <1>3, <1>4, <2>4 DEF Mapped
    <2> QED BY <2>4, <2>5, <2>6
<1>5. ASSUME NEW q \in 1..Len(r)
      PROVE  /\ ResultsFollow(r, q)
             /\ r[q].kind = "result" => \E j \in 1..(q - 1) : AnswerTo(r, q, j)
    <2>1. PICK n \in 1..Len(s) : n \in places /\ h[n] = q
        BY <1>1 DEF Mapped
    <2>2. Sendable(s[n]) /\ r[q] = s[n] /\ s[n] \in S
        BY <1>1, <1>3, <2>1 DEF Mapped
    <2>3. ResultsFollow(r, q)
        <3> SUFFICES ASSUME NEW call \in 1..r[q].calls
                     PROVE  q + call <= Len(r) /\ r[q + call] = ToolResult(call)
            BY DEF ResultsFollow
        <3>1. call \in 1..s[n].calls
            BY <2>2
        <3>2. h[n] + call \in 1..Len(r) /\ r[h[n] + call] = ToolResult(call)
            BY <1>4, <2>2, <3>1
        <3> QED BY <2>1, <3>2
    <2>4. ASSUME r[q].kind = "result" PROVE \E j \in 1..(q - 1) : AnswerTo(r, q, j)
        <3>1. s[n].kind = "result" /\ s[n].call \in Nat
            BY <2>2, <2>4 DEF Shaped
        <3>2. PICK j \in 1..n - 1 : /\ j \in 1..Len(s) /\ Sendable(s[j]) /\ AnswerTo(s, n, j)
                                    /\ s[n].call \in 1..s[j].calls
            BY <3>1, CallerOf
        <3>3. PICK call \in 1..s[j].calls : call = s[n].call
            BY <3>2
        <3>4. j + call = n /\ s[j].kind = "assistant" /\ call <= s[j].calls
            BY <3>2, <3>3 DEF AnswerTo
        <3>5. h[j] \in 1..Len(r) /\ h[j + call] = h[j] + call
            BY <1>4, <3>2
        <3>6. r[h[j]] = s[j]
            BY <1>1, <1>3, <3>2 DEF Mapped
        <3>7. h[j] + call = q /\ r[q].call = call
            BY <2>1, <2>2, <3>3, <3>4, <3>5
        <3>8. call \in Nat /\ call >= 1
            BY <3>1, <3>3
        <3>9. h[j] \in 1..(q - 1)
            BY <3>5, <3>7, <3>8
        <3>10. AnswerTo(r, q, h[j])
            BY <3>4, <3>6, <3>7 DEF AnswerTo
        <3> QED BY <3>9, <3>10
    <2> QED BY <2>3, <2>4
<1> QED BY <1>2, <1>3, <1>5 DEF Paired

LEMMA AnsweredNone == Answered(<<>>)
BY DEF Answered

LEMMA AnsweredOne ==
    ASSUME NEW m, m.kind # "result", m.calls = 0 \/ ~Sendable(m)
    PROVE  Answered(<<m>>)
<1>1. \A i \in DOMAIN <<m>> : i = 1 /\ <<m>>[i] = m
    OBVIOUS
<1>2. 1..0 = {}
    OBVIOUS
<1> QED BY <1>1, <1>2 DEF Answered, ResultsFollow

\* An assistant message with all the results of its calls.
LEMMA AnsweredBatch ==
    ASSUME NEW m, m.kind = "assistant", m.calls \in Nat, Sendable(m)
    PROVE  Answered(<<m>> \o ToolResults(m.calls))
<1> DEFINE n == m.calls
           b == <<m>> \o ToolResults(n)
<1>1. ToolResults(n) = [call \in 1..n |-> ToolResult(call)] /\ n \in Nat
    BY DEF ToolResults
<1>2. Len(ToolResults(n)) = n /\ \A call \in 1..n : ToolResults(n)[call] = ToolResult(call)
    BY <1>1
<1>3. /\ Len(b) = n + 1 /\ b[1] = m /\ DOMAIN b = 1..n + 1
      /\ \A call \in 1..n : b[1 + call] = ToolResult(call)
    <2>1. ToolResults(n) \in Seq({ToolResult(call) : call \in 1..n})
        BY <1>1
    <2> HIDE DEF n
    <2> QED BY <1>1, <1>2, <2>1
<1> HIDE DEF b, n
<1>4. ASSUME NEW i \in 1..n + 1
      PROVE  /\ Sendable(b[i]) => ResultsFollow(b, i)
             /\ b[i].kind = "result" =>
                   \E j \in 1..(i - 1) : Sendable(b[j]) /\ AnswerTo(b, i, j)
    <2>1. CASE i = 1
        <3>1. ResultsFollow(b, 1)
            BY <1>1, <1>3 DEF ResultsFollow, n
        <3>2. b[1].kind # "result"
            BY <1>3
        <3> QED BY <2>1, <3>1, <3>2
    <2>2. CASE i # 1
        <3>1. PICK call \in 1..n : i = 1 + call
            BY <1>1, <2>2
        <3>2. b[i] = ToolResult(call) /\ b[i].calls = 0 /\ b[i].call = call
            BY <1>3, <3>1, ResultIs
        <3>3. ResultsFollow(b, i)
            BY <3>2 DEF ResultsFollow
        <3>4. AnswerTo(b, i, 1) /\ Sendable(b[1]) /\ 1 \in 1..(i - 1)
            BY <1>1, <1>3, <3>1, <3>2 DEF AnswerTo, n
        <3> QED BY <3>3, <3>4
    <2> QED BY <2>1, <2>2
<1>5. Answered(b)
    BY <1>3, <1>4 DEF Answered
<1> QED BY <1>5 DEF b, n

LEMMA AnsweredJoined ==
    ASSUME NEW S, Shaped(S), NEW s \in Seq(S), NEW t \in Seq(S), Answered(s), Answered(t)
    PROVE  Answered(s \o t)
<1> DEFINE b == s \o t
           l == Len(s)
<1>1. /\ b \in Seq(S) /\ Len(b) = l + Len(t) /\ l \in Nat /\ Len(t) \in Nat
      /\ \A i \in 1..l : b[i] = s[i]
      /\ \A i \in 1..Len(t) : b[l + i] = t[i]
      /\ DOMAIN b = 1..Len(b)
    OBVIOUS
<1> HIDE DEF b
<1>2. ASSUME NEW i \in 1..l
      PROVE  /\ Sendable(b[i]) => ResultsFollow(b, i)
             /\ b[i].kind = "result" =>
                   \E j \in 1..(i - 1) : Sendable(b[j]) /\ AnswerTo(b, i, j)
    <2>1. b[i] = s[i] /\ s[i] \in S /\ s[i].calls \in Nat
        BY <1>1 DEF Shaped
    <2>2. ASSUME Sendable(b[i]) PROVE ResultsFollow(b, i)
        <3> SUFFICES ASSUME NEW call \in 1..s[i].calls
                     PROVE  i + call <= Len(b) /\ b[i + call] = ToolResult(call)
            BY <2>1 DEF ResultsFollow
        <3>1. i + call <= l /\ s[i + call] = ToolResult(call)
            BY <2>1, <2>2, ResultsBehind
        <3>2. i + call \in 1..l
            BY <2>1, <3>1
        <3> QED BY <1>1, <3>1, <3>2
    <2>3. ASSUME b[i].kind = "result"
          PROVE  \E j \in 1..(i - 1) : Sendable(b[j]) /\ AnswerTo(b, i, j)
        <3>1. PICK j \in 1..i - 1 : j \in 1..l /\ Sendable(s[j]) /\ AnswerTo(s, i, j)
            BY <2>1, <2>3, CallerOf
        <3>2. b[j] = s[j]
            BY <1>1, <3>1
        <3>3. Sendable(b[j]) /\ AnswerTo(b, i, j)
            BY <2>1, <3>1, <3>2 DEF AnswerTo
        <3> QED BY <3>3
    <2> QED BY <2>2, <2>3
<1>3. ASSUME NEW k \in 1..Len(t)
      PROVE  /\ Sendable(b[l + k]) => ResultsFollow(b, l + k)
             /\ b[l + k].kind = "result" =>
                   \E j \in 1..((l + k) - 1) : Sendable(b[j]) /\ AnswerTo(b, l + k, j)
    <2>1. b[l + k] = t[k] /\ t[k] \in S /\ t[k].calls \in Nat
        BY <1>1 DEF Shaped
    <2>2. ASSUME Sendable(b[l + k]) PROVE ResultsFollow(b, l + k)
        <3> SUFFICES ASSUME NEW call \in 1..t[k].calls
                     PROVE  (l + k) + call <= Len(b) /\ b[(l + k) + call] = ToolResult(call)
            BY <2>1 DEF ResultsFollow
        <3>1. k + call <= Len(t) /\ t[k + call] = ToolResult(call)
            BY <2>1, <2>2, ResultsBehind
        <3>2. call \in Nat /\ call >= 1 /\ k \in Nat /\ k >= 1 /\ k + call <= Len(t)
            BY <2>1, <3>1
        <3> HIDE DEF l
        <3>3. /\ k + call \in 1..Len(t) /\ (l + k) + call = l + (k + call)
              /\ (l + k) + call <= l + Len(t)
            BY <1>1, <3>2
        <3> QED BY <1>1, <3>1, <3>3
    <2>3. ASSUME b[l + k].kind = "result"
          PROVE  \E j \in 1..((l + k) - 1) : Sendable(b[j]) /\ AnswerTo(b, l + k, j)
        <3>1. /\ t[k].call \in Nat
              /\ \E j \in 1..k - 1 : j \in 1..Len(t) /\ Sendable(t[j]) /\ AnswerTo(t, k, j)
            BY <2>1, <2>3, CallerOf
        <3>2. PICK j \in 1..k - 1 : j \in 1..Len(t) /\ Sendable(t[j]) /\ AnswerTo(t, k, j)
            BY <3>1
        <3>3. b[l + j] = t[j] /\ l + j \in 1..((l + k) - 1)
            BY <1>1, <3>2
        <3>4. (l + j) + t[k].call = l + k
            <4>1. PICK call \in Nat : call = t[k].call /\ j + call = k
                BY <3>1, <3>2 DEF AnswerTo
            <4>2. j \in Nat /\ k \in Nat /\ l \in Nat
                BY <1>1, <3>2
            <4> HIDE DEF l
            <4>3. (l + j) + call = l + k
                BY <4>1, <4>2
            <4> QED BY <4>1, <4>3
        <3>5. Sendable(b[l + j]) /\ AnswerTo(b, l + k, l + j)
            BY <2>1, <3>2, <3>3, <3>4 DEF AnswerTo
        <3> QED BY <3>3, <3>5
    <2> QED BY <2>2, <2>3
<1>4. ASSUME NEW i \in 1..Len(b)
      PROVE  /\ Sendable(b[i]) => ResultsFollow(b, i)
             /\ b[i].kind = "result" =>
                   \E j \in 1..(i - 1) : Sendable(b[j]) /\ AnswerTo(b, i, j)
    <2>1. CASE i <= l
        <3>1. i \in 1..l
            BY <2>1
        <3> QED BY <1>2, <3>1
    <2>2. CASE i > l
        <3>1. PICK k \in 1..Len(t) : i = l + k
            <4>1. i - l \in 1..Len(t) /\ i = l + (i - l)
                BY <1>1, <2>2
            <4> QED BY <4>1
        <3> QED BY <1>3, <3>1
    <2> QED BY <1>1, <2>1, <2>2
<1>5. Answered(b)
    BY <1>1, <1>4 DEF Answered
<1> QED BY <1>5 DEF b

\* What is left of answered messages behind a cut.
LEMMA AnsweredBehind ==
    ASSUME NEW S, Shaped(S), NEW s \in Seq(S), Answered(s), NEW cut \in 0..Len(s),
           cut < Len(s) => s[cut + 1].kind # "result"
    PROVE  Answered(SubSeq(s, cut + 1, Len(s)))
<1> DEFINE t == SubSeq(s, cut + 1, Len(s))
<1>1. /\ Len(s) \in Nat /\ cut \in Nat /\ t \in Seq(S) /\ Len(t) = Len(s) - cut
      /\ \A k \in 1..Len(t) : t[k] = s[cut + k] /\ cut + k \in 1..Len(s)
      /\ DOMAIN t = 1..Len(t)
    OBVIOUS
<1> HIDE DEF t
<1>2. ASSUME NEW k \in 1..Len(t)
      PROVE  /\ Sendable(t[k]) => ResultsFollow(t, k)
             /\ t[k].kind = "result" =>
                   \E j \in 1..(k - 1) : Sendable(t[j]) /\ AnswerTo(t, k, j)
    <2>1. /\ t[k] = s[cut + k] /\ cut + k \in 1..Len(s) /\ k \in Nat /\ k >= 1
          /\ t[k] \in S /\ t[k].calls \in Nat
        BY <1>1 DEF Shaped
    <2>2. ASSUME Sendable(t[k]) PROVE ResultsFollow(t, k)
        <3> SUFFICES ASSUME NEW call \in 1..t[k].calls
                     PROVE  k + call <= Len(t) /\ t[k + call] = ToolResult(call)
            BY DEF ResultsFollow
        <3>1. (cut + k) + call <= Len(s) /\ s[(cut + k) + call] = ToolResult(call)
            BY <2>1, <2>2, ResultsBehind
        <3>2. call \in Nat /\ call >= 1
            BY <2>1
        <3>3. k + call \in 1..Len(t) /\ (cut + k) + call = cut + (k + call)
            BY <1>1, <2>1, <3>1, <3>2
        <3> QED BY <1>1, <3>1, <3>3
    <2>3. ASSUME t[k].kind = "result"
          PROVE  \E j \in 1..(k - 1) : Sendable(t[j]) /\ AnswerTo(t, k, j)
        <3>1. /\ s[cut + k].call \in Nat
              /\ \E i \in 1..(cut + k) - 1 :
                    /\ i \in 1..Len(s) /\ Sendable(s[i]) /\ AnswerTo(s, cut + k, i)
                    /\ s[cut + k].call \in 1..s[i].calls
            BY <2>1, <2>3, CallerOf
        <3>2. PICK i \in 1..(cut + k) - 1 :
                    /\ i \in 1..Len(s) /\ Sendable(s[i]) /\ AnswerTo(s, cut + k, i)
                    /\ s[cut + k].call \in 1..s[i].calls
            BY <3>1
        <3>3. PICK call \in Nat : call = s[cut + k].call /\ i + call = cut + k
            BY <3>1, <3>2 DEF AnswerTo
        <3>4. i > cut
            <4> SUFFICES ASSUME i <= cut PROVE FALSE
                BY <1>1
            <4>1. (cut + 1) - i \in 1..s[i].calls /\ i + ((cut + 1) - i) = cut + 1
                <5>1. i \in Nat /\ cut \in Nat /\ k \in Nat /\ k >= 1 /\ i + call = cut + k
                    BY <1>1, <2>1, <3>2, <3>3
                <5>2. s[i].calls \in Nat /\ call <= s[i].calls
                    BY <3>2, <3>3 DEF Shaped
                <5>3. PICK calls \in Nat : calls = s[i].calls /\ call <= calls
                    BY <5>2
                <5>4. (cut + 1) - i \in 1..calls /\ i + ((cut + 1) - i) = cut + 1
                    BY <5>1, <5>3
                <5> QED BY <5>3, <5>4
            <4>2. s[cut + 1] = ToolResult((cut + 1) - i)
                BY <3>2, <4>1, ResultsBehind
            <4>3. cut < Len(s)
                BY <1>1, <2>1
            <4> QED BY <4>2, <4>3, ResultIs
        <3>5. i - cut \in 1..(k - 1) /\ cut + (i - cut) = i /\ i - cut \in 1..Len(t)
            BY <1>1, <2>1, <3>2, <3>4
        <3>6. t[i - cut] = s[i]
            BY <1>1, <3>5
        <3>7. (i - cut) + call = k
            <4>1. i \in Nat /\ cut \in Nat /\ k \in Nat /\ call \in Nat /\ i + call = cut + k
                BY <1>1, <2>1, <3>2, <3>3
            <4> QED BY <4>1
        <3>8. Sendable(t[i - cut]) /\ AnswerTo(t, k, i - cut)
            BY <2>1, <3>2, <3>3, <3>6, <3>7 DEF AnswerTo
        <3> QED BY <3>5, <3>8
    <2> QED BY <2>2, <2>3
<1>3. Answered(t)
    BY <1>1, <1>2 DEF Answered
<1> QED BY <1>3 DEF t

\* And what is there before an element that is no tool result.
LEMMA AnsweredUpTo ==
    ASSUME NEW S, Shaped(S), NEW s \in Seq(S), NEW t \in Seq(S), Answered(s \o t),
           t # <<>> => t[1].kind # "result"
    PROVE  Answered(s)
<1> DEFINE b == s \o t
           l == Len(s)
<1>1. /\ b \in Seq(S) /\ Len(b) = l + Len(t) /\ l \in Nat /\ Len(t) \in Nat
      /\ \A i \in 1..l : b[i] = s[i] /\ i \in 1..Len(b)
      /\ Len(t) > 0 => b[l + 1] = t[1] /\ t # <<>>
      /\ DOMAIN s = 1..l
    OBVIOUS
<1>2. Answered(b)
    OBVIOUS
<1> HIDE DEF b
<1>3. ASSUME NEW i \in 1..l
      PROVE  /\ Sendable(s[i]) => ResultsFollow(s, i)
             /\ s[i].kind = "result" =>
                   \E j \in 1..(i - 1) : Sendable(s[j]) /\ AnswerTo(s, i, j)
    <2>1. b[i] = s[i] /\ i \in 1..Len(b) /\ s[i] \in S /\ s[i].calls \in Nat /\ i \in Nat
        BY <1>1 DEF Shaped
    <2>2. ASSUME Sendable(s[i]), NEW call \in 1..s[i].calls
          PROVE  i + call <= l /\ s[i + call] = ToolResult(call)
        <3>0. b \in Seq(S) /\ Sendable(b[i]) /\ b[i].calls = s[i].calls
            BY <1>1, <2>1, <2>2
        <3>1. i + call <= Len(b) /\ b[i + call] = ToolResult(call)
            BY <1>2, <2>1, <2>2, <3>0, ResultsBehind
        <3>2. i + call <= l
            <4> SUFFICES ASSUME i + call > l PROVE FALSE
                BY <1>1, <2>1
            <4>1. (l + 1) - i \in 1..s[i].calls /\ i + ((l + 1) - i) = l + 1 /\ Len(t) > 0
                <5>1. PICK calls \in Nat : calls = s[i].calls
                    BY <2>1
                <5>2. /\ call \in Nat /\ call <= calls /\ i <= l /\ l \in Nat /\ i \in Nat
                      /\ calls \in Nat /\ i + call > l
                    BY <1>1, <2>1, <2>2, <5>1
                <5> HIDE DEF l
                <5>3. (l + 1) - i \in 1..calls /\ i + ((l + 1) - i) = l + 1
                    BY <5>2
                <5>4. Len(t) > 0
                    BY <1>1, <3>1, <5>2
                <5> QED BY <5>1, <5>3, <5>4
            <4>2. b[l + 1] = ToolResult((l + 1) - i)
                BY <1>2, <2>1, <3>0, <4>1, ResultsBehind
            <4> QED BY <1>1, <4>1, <4>2, ResultIs
        <3>3. i + call \in 1..l
            BY <1>1, <2>1, <3>2
        <3> QED BY <1>1, <3>1, <3>2, <3>3
    <2>3. ASSUME s[i].kind = "result"
          PROVE  \E j \in 1..(i - 1) : Sendable(s[j]) /\ AnswerTo(s, i, j)
        <3>1. PICK j \in 1..i - 1 : Sendable(b[j]) /\ AnswerTo(b, i, j)
            BY <1>1, <1>2, <2>1, <2>3, CallerOf
        <3>2. b[j] = s[j]
            BY <1>1, <3>1
        <3>3. Sendable(s[j]) /\ AnswerTo(s, i, j)
            BY <2>1, <3>1, <3>2 DEF AnswerTo
        <3> QED BY <3>3
    <2> QED BY <2>2, <2>3 DEF ResultsFollow
<1> QED BY <1>1, <1>3 DEF Answered

\* A compaction leaves answered messages answered.
LEMMA CompactedAnswered ==
    ASSUME NEW S, Shaped(S), UserMessage \in S, NEW messages \in Seq(S), Answered(messages),
           NEW cut \in Cuts(messages)
    PROVE  Answered(Compacted(messages, cut))
<1>1. cut \in 1..Len(messages) - 1 /\ messages[cut + 1].kind # "result"
    BY CutPlace
<1>2. /\ cut \in 0..Len(messages) /\ SubSeq(messages, cut + 1, Len(messages)) \in Seq(S)
    BY <1>1
<1>3. PICK end \in Seq(S) : end = SubSeq(messages, cut + 1, Len(messages))
    BY <1>2
<1>4. Answered(end)
    BY <1>1, <1>2, <1>3, AnsweredBehind
<1>5. <<UserMessage>> \in Seq(S)
    OBVIOUS
<1>6. Answered(<<UserMessage>>)
    <2>1. UserMessage.kind # "result" /\ UserMessage.calls = 0
        BY DEF UserMessage, Message
    <2> QED BY <2>1, AnsweredOne
<1>7. Answered(<<UserMessage>> \o end)
    BY <1>4, <1>5, <1>6, AnsweredJoined
<1> QED BY <1>3, <1>7 DEF Compacted
=============================================================================

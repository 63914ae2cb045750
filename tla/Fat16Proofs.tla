---------------------------- MODULE Fat16Proofs ----------------------------
(***************************************************************************)
(* Proofs about Fat16: the image stays one that fsck.fat accepts, names    *)
(* are unambiguous, and descriptors know their files.                      *)
(*                                                                         *)
(* The inductive invariant FatInv says that the disk is sound, that each   *)
(* file has the clusters its size needs, and that the item in a descriptor *)
(* fits the one on disk.  Sound(d, X) is about a disk d in the middle of a *)
(* call, when the clusters X belong to no item yet or no longer:           *)
(*                                                                         *)
(*   - the first cluster of an item starts a chain that ends, the chains   *)
(*     of two items share no cluster, and each used cluster is in one of   *)
(*     them or in X;                                                       *)
(*   - what is stored in a directory has one end, no part of a long name   *)
(*     without its item and no name twice.                                 *)
(*                                                                         *)
(* A call is a few steps between sound disks: a chain grows (Growing), an  *)
(* item is rewritten (Replaced), erased (Erased) or added (Created), and   *)
(* clusters are given back (Freeing).  Each call puts them together.       *)
(***************************************************************************)
EXTENDS Fat16, NumberLemmas, FiniteSetTheorems, SequenceTheorems

(* The clusters s are the whole chain from first, and it ends properly. *)
IsChain(d, first, s) ==
    /\ s \in Seq(Clusters)
    /\ s = <<>> <=> first \notin Clusters
    /\ s # <<>> => s[1] = first /\ d.fat[s[Len(s)]] = END_OF_CHAIN
    /\ \A i \in 1 .. Len(s) - 1 : d.fat[s[i]] = s[i + 1]
    /\ \A i, j \in 1 .. Len(s) : s[i] = s[j] => i = j

(* Numbers that are no clusters *)
LEMMA Limits ==
    /\ Limit \in Int /\ 3 <= Limit /\ Limit < END_OF_CHAIN
    /\ Clusters \subseteq Nat
    /\ ROOT \notin Clusters /\ UNUSED \notin Clusters /\ 0 \notin Clusters
    /\ END_OF_CHAIN \notin Clusters /\ ERROR \notin Clusters
    /\ UNUSED # END_OF_CHAIN /\ UNUSED = 0 /\ ROOT = 0 /\ 0 # ERROR
    /\ END_OF_CHAIN # 0
  BY FatAssumption DEF Clusters, ROOT, UNUSED, END_OF_CHAIN, ERROR

LEMMA ClustersFinite == IsFiniteSet(Clusters) /\ Cardinality(Clusters) = Limit - 2
<1>1. 2 \in Int /\ Limit - 1 \in Int /\ ~ (2 > Limit - 1) /\ (Limit - 1) - 2 + 1 = Limit - 2
  BY Limits
<1>2. IsFiniteSet(2 .. Limit - 1) /\ Cardinality(2 .. Limit - 1) = IF 2 > Limit - 1 THEN 0 ELSE (Limit - 1) - 2 + 1
  BY <1>1, FS_Interval, Zenon
<1>. QED
  BY <1>1, <1>2 DEF Clusters

(* Different clusters in a row are at most as many as there are. *)
LEMMA RowFits ==
    ASSUME NEW s \in Seq(Clusters), \A i, j \in 1 .. Len(s) : s[i] = s[j] => i = j
    PROVE  Len(s) <= Limit - 2
<1>1. Len(s) \in Nat /\ s \in [1 .. Len(s) -> Clusters]
  BY LenProperties, Zenon
<1>2. s \in Injection(1 .. Len(s), Clusters)
  BY <1>1, Zenon DEF Injection, IsInjective
<1>3. Cardinality(1 .. Len(s)) <= Cardinality(Clusters)
  BY <1>2, ClustersFinite, FS_Injection, Zenon
<1>4. 1 \in Int /\ Len(s) \in Int /\ (1 > Len(s) => Len(s) = 0) /\ Len(s) - 1 + 1 = Len(s)
  BY <1>1
<1>5. Cardinality(1 .. Len(s)) = Len(s)
  BY <1>4, FS_Interval
<1>. QED
  BY <1>3, <1>5, ClustersFinite, Zenon

(* The walk along the FAT that Chain takes its clusters from *)
Follow(d, c) == IF c \in Clusters THEN d.fat[c] ELSE c
Walk(d, first) ==
    CHOOSE at : at = [i \in 1 .. Limit - 2 |->
                        IF i = 1 THEN first ELSE Follow(d, at[i - 1])]

LEMMA ChainWalks ==
    ASSUME NEW d, NEW first
    PROVE  Chain(d, first) =
             LET at == Walk(d, first)
                 I == {i \in 1 .. Len(at) : at[i] \notin Clusters}
                 n == IF I # {} THEN Min(I) ELSE 0
             IN  SubSeq(at, 1, IF n = 0 THEN Len(at) ELSE n - 1)
  BY DEF Chain, Walk, Follow, Before, SelectInSeq

(* Chain(d, first) depends on the FAT only. *)
LEMMA ChainOfFat ==
    ASSUME NEW d, NEW e, d.fat = e.fat, NEW first
    PROVE  Chain(d, first) = Chain(e, first)
<1>1. \A c : Follow(d, c) = Follow(e, c)
  BY DEF Follow
<1>2. Walk(d, first) = Walk(e, first)
  BY <1>1 DEF Walk
<1>. QED
  BY <1>2, ChainWalks, Zenon

(* A chain that ends properly is what Chain returns. *)
LEMMA ChainIs ==
    ASSUME NEW d, NEW first, NEW s, IsChain(d, first, s)
    PROVE  Chain(d, first) = s
<1>. DEFINE L == Limit - 2
            g == [i \in 1 .. L |-> IF i <= Len(s) THEN s[i]
                                   ELSE IF s = <<>> THEN first ELSE END_OF_CHAIN]
            at == Walk(d, first)
<1>1. L \in Nat \ {0}
  BY Limits
<1>2. Len(s) \in Nat /\ \A i \in 1 .. Len(s) : s[i] \in Clusters
  BY DEF IsChain
<1>3. Len(s) <= L
  BY RowFits DEF IsChain
<1>4. ASSUME NEW i \in 1 .. L
      PROVE  g[i] = IF i = 1 THEN first ELSE Follow(d, g[i - 1])
  <2>1. CASE i = 1
    <3>1. s # <<>> => Len(s) >= 1
      BY <1>2 DEF IsChain
    <3>2. s = <<>> => Len(s) = 0
      OBVIOUS
    <3>. QED
      BY <2>1, <3>1, <3>2 DEF IsChain
  <2>2. CASE i # 1
    <3>1. i - 1 \in 1 .. L /\ i \in Int /\ (i - 1) + 1 = i
      BY <2>2, <1>1
    <3>2. CASE i <= Len(s)
      <4>1. g[i] = s[i] /\ g[i - 1] = s[i - 1] /\ i - 1 \in 1 .. Len(s) - 1
        BY <3>1, <3>2, <1>2
      <4>2. s[i - 1] \in Clusters
        BY <4>1, <1>2
      <4>3. d.fat[s[i - 1]] = s[i]
        BY <4>1, <3>1 DEF IsChain
      <4>. HIDE DEF g
      <4>. QED
        BY <2>2, <4>1, <4>2, <4>3 DEF Follow
    <3>3. CASE i - 1 = Len(s)
      <4>1. s # <<>> /\ g[i - 1] = s[Len(s)] /\ g[i] = END_OF_CHAIN /\ Len(s) \in 1 .. Len(s)
        BY <3>1, <3>3, <1>2
      <4>2. s[Len(s)] \in Clusters
        BY <4>1, <1>2
      <4>. HIDE DEF g
      <4>. QED
        BY <2>2, <4>1, <4>2 DEF Follow, IsChain
    <3>4. CASE i - 1 > Len(s)
      <4>1. g[i - 1] = IF s = <<>> THEN first ELSE END_OF_CHAIN
        BY <3>1, <3>4, <1>2
      <4>2. g[i] = g[i - 1]
        BY <3>1, <3>4, <1>2, <4>1
      <4>3. g[i - 1] \notin Clusters
        BY <4>1, Limits DEF IsChain
      <4>. HIDE DEF g
      <4>. QED
        BY <2>2, <4>2, <4>3 DEF Follow
    <3>. QED
      BY <3>1, <3>2, <3>3, <3>4, <1>2
  <2>. QED
    BY <2>1, <2>2
<1>5. g = [i \in 1 .. L |-> IF i = 1 THEN first ELSE Follow(d, g[i - 1])]
  <2>. DEFINE h == [i \in 1 .. L |-> IF i = 1 THEN first ELSE Follow(d, g[i - 1])]
  <2>1. DOMAIN g = 1 .. L /\ DOMAIN h = 1 .. L
    OBVIOUS
  <2>2. \A i \in 1 .. L : g[i] = h[i]
    <3>. HIDE DEF g
    <3>. QED
      BY <1>4
  <2>3. g = [i \in DOMAIN g |-> g[i]] /\ h = [i \in DOMAIN h |-> h[i]]
    OBVIOUS
  <2>. HIDE DEF g, h
  <2>4. g = h
    BY <2>1, <2>2, <2>3
  <2>. QED
    BY <2>4 DEF h
<1>6. at = [i \in 1 .. L |-> IF i = 1 THEN first ELSE Follow(d, at[i - 1])]
  <2>. HIDE DEF g
  <2>. QED
    BY <1>5, Zenon DEF Walk
<1>7. at = g
  <2>. DEFINE S == {k \in 0 .. L : k = 0 \/ at[k] = g[k]}
  <2>1. 0 \in S
    BY <1>1
  <2>2. ASSUME NEW k \in 1 .. L, k - 1 \in S PROVE k \in S
    <3>1. k = 1 \/ at[k - 1] = g[k - 1]
      BY <2>2
    <3>2. at[k] = IF k = 1 THEN first ELSE Follow(d, at[k - 1])
      <4>. HIDE DEF at, g
      <4>. QED
        BY <1>6
    <3>3. g[k] = IF k = 1 THEN first ELSE Follow(d, g[k - 1])
      BY <1>4
    <3>4. k \in 0 .. L
      OBVIOUS
    <3>. HIDE DEF at, g
    <3>. QED
      BY <3>1, <3>2, <3>3, <3>4
  <2>3. 0 .. L \subseteq S
    <3>. HIDE DEF S
    <3>. QED
      BY <2>1, <2>2, <1>1, UpTo
  <2>4. \A k \in 1 .. L : at[k] = g[k]
    <3>1. \A k \in 1 .. L : k \in 0 .. L /\ k # 0
      BY <1>1
    <3>. HIDE DEF at, g
    <3>. QED
      BY <2>3, <3>1
  <2>5. DOMAIN at = 1 .. L /\ at = [i \in DOMAIN at |-> at[i]]
    <3>. HIDE DEF at
    <3>. QED
      BY <1>6
  <2>6. DOMAIN g = 1 .. L /\ g = [i \in DOMAIN g |-> g[i]]
    OBVIOUS
  <2>. HIDE DEF at, g
  <2>. QED
    BY <2>4, <2>5, <2>6
<1>. DEFINE I == {i \in 1 .. L : g[i] \notin Clusters}
            n == IF I # {} THEN Min(I) ELSE 0
            m == IF n = 0 THEN L ELSE n - 1
<1>8. Len(g) = L
  BY <1>1
<1>9. Chain(d, first) = SubSeq(g, 1, m)
  <2>. HIDE DEF g
  <2>. QED
    BY <1>7, <1>8, ChainWalks, Zenon
<1>10. \A i \in 1 .. L : i \in I <=> i > Len(s)
  <2>1. ASSUME NEW i \in 1 .. L, i <= Len(s) PROVE i \notin I
    BY <2>1, <1>2
  <2>2. ASSUME NEW i \in 1 .. L, i > Len(s) PROVE i \in I
    <3>1. g[i] = IF s = <<>> THEN first ELSE END_OF_CHAIN
      BY <2>2, <1>2
    <3>. QED
      BY <3>1, Limits DEF IsChain
  <2>. QED
    BY <2>1, <2>2, <1>2
<1>11. m = Len(s)
  <2>1. CASE Len(s) = L
    <3>1. I = {}
      BY <2>1, <1>10, <1>1
    <3>. QED
      BY <2>1, <3>1
  <2>2. CASE Len(s) < L
    <3>1. Len(s) + 1 \in I
      BY <2>2, <1>10, <1>2, <1>1
    <3>2. I \in SUBSET Nat /\ I # {}
      BY <3>1
    <3>3. Min(I) \in I /\ \A y \in I : Min(I) <= y
      <4>. HIDE DEF I
      <4>. QED
        BY <3>2, MinIn
    <3>4. Min(I) \in 1 .. L /\ Min(I) > Len(s) /\ Min(I) <= Len(s) + 1
      BY <3>3, <3>1, <1>10
    <3>. HIDE DEF I
    <3>. QED
      BY <3>2, <3>4, <1>2
  <2>. QED
    BY <2>1, <2>2, <1>3, <1>2, <1>1
<1>12. \A i \in 1 .. Len(s) : g[i] = s[i] /\ g[i] \in Clusters
  BY <1>2, <1>3, <1>1
<1>13. SubSeq(g, 1, Len(s)) \in Seq(Clusters) /\ Len(SubSeq(g, 1, Len(s))) = Len(s)
       /\ \A i \in 1 .. Len(s) : SubSeq(g, 1, Len(s))[i] = g[i]
  <2>. HIDE DEF g
  <2>. QED
    BY <1>12, <1>2
<1>14. SubSeq(g, 1, Len(s)) = s
  <2>. HIDE DEF g
  <2>. QED
    <3>1. s \in Seq(Clusters) /\ Len(s) = Len(s)
      BY DEF IsChain
    <3>. HIDE DEF IsChain
    <3>. QED
      BY <1>12, <1>13, <3>1, SeqEqual
<1>. HIDE DEF g, m
<1>. QED
  BY <1>9, <1>11, <1>14

-----------------------------------------------------------------------------
(* Free clusters                                                           *)

Free(d) == {c \in Clusters : d.fat[c] = UNUSED}

(* The allocator comes to a cluster in a step of its own. *)
LEMMA ScanSteps ==
    ASSUME NEW d, NEW a \in Clusters, NEW b \in Clusters
    PROVE  /\ ScanStep(d, a) \in Int
           /\ ScanStep(d, a) = ScanStep(d, b) => a = b
<1>. DEFINE start == IF d.next_free \in Clusters THEN d.next_free ELSE 2
            L == Limit - 2
<1>1. L \in Nat \ {0} /\ 2 \in Clusters
  BY Limits DEF Clusters
<1>2. start \in Clusters
  BY <1>1
<1>. HIDE DEF start
<1>3. ASSUME NEW c \in Clusters
      PROVE  (c - start + L) % L = IF c >= start THEN c - start ELSE c - start + L
  <2>1. c \in Int /\ start \in Int /\ 2 <= c /\ c <= L + 1 /\ 2 <= start /\ start <= L + 1
    BY <1>2, Limits DEF Clusters
  <2>. HIDE DEF L
  <2>2. CASE c >= start
    <3>1. c - start \in 0 .. L - 1
      BY <2>1, <2>2, <1>1
    <3>. QED
      BY <2>2, <3>1, <1>1, ModIn
  <2>3. CASE ~ (c >= start)
    <3>1. c - start + L \in 0 .. L - 1
      BY <2>1, <2>3, <1>1
    <3>. QED
      BY <2>3, <3>1, <1>1, ModIn
  <2>. QED
    BY <2>2, <2>3
<1>4. ASSUME NEW c \in Clusters PROVE ScanStep(d, c) = (c - start + L) % L
  BY DEF ScanStep, start
<1>5. \A c \in Clusters : c \in Int /\ 2 <= c /\ c <= L + 1
  BY Limits DEF Clusters
<1>. HIDE DEF L
<1>6. ASSUME NEW c \in Clusters
      PROVE  ScanStep(d, c) = IF c >= start THEN c - start ELSE c - start + L
  BY <1>3, <1>4
<1>. QED
  BY <1>1, <1>2, <1>5, <1>6

(* FreeClusters lists free clusters, each once. *)
LEMMA FreeIs ==
    ASSUME NEW d
    PROVE  LET free == FreeClusters(d)
           IN  /\ free \in Seq(Free(d))
               /\ \A i, j \in 1 .. Len(free) : free[i] = free[j] => i = j
<1>. DEFINE S == Free(d)
            before(c) == {x \in S : ScanStep(d, x) < ScanStep(d, c)}
            n == Cardinality(S)
            free == [i \in 1 .. n |-> CHOOSE c \in S : Cardinality(before(c)) = i - 1]
            f == [c \in S |-> Cardinality(before(c))]
<1>1. S \in SUBSET Clusters /\ IsFiniteSet(S) /\ n \in Nat
  <2>1. S \in SUBSET Clusters
    BY DEF Free
  <2>. HIDE DEF S
  <2>. QED
    BY <2>1, ClustersFinite, FS_Subset, FS_CardinalityType, Zenon
<1>2. free = FreeClusters(d)
  BY DEF FreeClusters, Free
<1>3. \A a, b \in S : ScanStep(d, a) \in Int /\ (ScanStep(d, a) = ScanStep(d, b) => a = b)
  BY <1>1, ScanSteps, Zenon
<1>4. ASSUME NEW c \in S
      PROVE  IsFiniteSet(before(c)) /\ Cardinality(before(c)) \in 0 .. n - 1
  <2>1. before(c) \in SUBSET (S \ {c})
    <3>. HIDE DEF S
    <3>. QED
      BY <1>3
  <2>2. IsFiniteSet(S \ {c}) /\ Cardinality(S \ {c}) = n - 1
    <3>. HIDE DEF S
    <3>. QED
      BY <1>1, FS_RemoveElement
  <2>. HIDE DEF S, before
  <2>3. IsFiniteSet(before(c)) /\ Cardinality(before(c)) <= n - 1
    BY <2>1, <2>2, FS_Subset
  <2>4. Cardinality(before(c)) \in Nat
    BY <2>3, FS_CardinalityType, Zenon
  <2>. QED
    BY <2>3, <2>4, <1>1
<1>5. ASSUME NEW a \in S, NEW b \in S, ScanStep(d, a) < ScanStep(d, b)
      PROVE  Cardinality(before(a)) # Cardinality(before(b))
  <2>1. before(a) \in SUBSET before(b) /\ a \in before(b) /\ a \notin before(a)
    <3>. HIDE DEF S
    <3>. QED
      BY <1>3, <1>5
  <2>2. IsFiniteSet(before(b))
    BY <1>4, Zenon
  <2>. HIDE DEF S, before
  <2>. QED
    BY <2>1, <2>2, FS_Subset, Zenon
<1>6. f \in Injection(S, 0 .. n - 1)
  <2>1. f \in [S -> 0 .. n - 1]
    <3>. HIDE DEF S, before
    <3>. QED
      BY <1>4
  <2>2. ASSUME NEW a \in S, NEW b \in S, f[a] = f[b] PROVE a = b
    <3>1. f[a] = Cardinality(before(a)) /\ f[b] = Cardinality(before(b))
      <4>. HIDE DEF S, before
      <4>. QED
        OBVIOUS
    <3>2. ~ (ScanStep(d, a) < ScanStep(d, b)) /\ ~ (ScanStep(d, b) < ScanStep(d, a))
      <4>. HIDE DEF S, before, f
      <4>. QED
        BY <2>2, <3>1, <1>5
    <3>. HIDE DEF S, before, f
    <3>. QED
      BY <3>2, <1>3
  <2>. HIDE DEF f, S
  <2>. QED
    BY <2>1, <2>2, Zenon DEF Injection, IsInjective
<1>7. IsFiniteSet(0 .. n - 1) /\ Cardinality(0 .. n - 1) = n
  <2>. HIDE DEF S
  <2>1. 0 \in Int /\ n - 1 \in Int /\ (0 > n - 1 <=> n = 0) /\ n - 1 - 0 + 1 = n
    BY <1>1
  <2>2. IsFiniteSet(0 .. n - 1) /\ Cardinality(0 .. n - 1) = IF 0 > n - 1 THEN 0 ELSE n - 1 - 0 + 1
    BY <2>1, FS_Interval, Zenon
  <2>. QED
    BY <2>1, <2>2
<1>8. f \in Surjection(S, 0 .. n - 1)
  <2>. HIDE DEF f, S
  <2>. QED
    BY <1>6, <1>7, FS_Injection, Zenon
<1>9. ASSUME NEW i \in 1 .. n
      PROVE  free[i] \in S /\ Cardinality(before(free[i])) = i - 1
  <2>1. i - 1 \in 0 .. n - 1
    BY <1>1
  <2>2. \E c \in S : f[c] = i - 1
    <3>. HIDE DEF f, S
    <3>. QED
      BY <1>8, <2>1, Zenon DEF Surjection
  <2>3. \E c \in S : Cardinality(before(c)) = i - 1
    <3>. HIDE DEF S, before
    <3>. QED
      BY <2>2
  <2>. HIDE DEF S, before, f
  <2>. QED
    BY <2>3
<1>10. Len(free) = n
  <2>. HIDE DEF S, before
  <2>. QED
    BY <1>1
<1>11. free \in Seq(S)
  <2>. HIDE DEF S, before
  <2>. QED
    BY <1>9, <1>1
<1>12. \A i, j \in 1 .. n : free[i] = free[j] => i = j
  <2>1. ASSUME NEW i \in 1 .. n, NEW j \in 1 .. n, free[i] = free[j] PROVE i = j
    <3>1. i - 1 = j - 1
      <4>. HIDE DEF free, before
      <4>. QED
        BY <2>1, <1>9, Zenon
    <3>. QED
      BY <3>1, <1>1
  <2>. QED
    BY <2>1
<1>. HIDE DEF free, S
<1>. QED
  BY <1>2, <1>10, <1>11, <1>12 DEF S

(* The first elements of a sequence *)
LEMMA FirstOf ==
    ASSUME NEW S, NEW s \in Seq(S), NEW m \in Int, m <= Len(s)
    PROVE  /\ SubSeq(s, 1, m) \in Seq(S)
           /\ Len(SubSeq(s, 1, m)) = (IF 1 <= m THEN m ELSE 0)
           /\ \A i \in 1 .. Len(SubSeq(s, 1, m)) :
                i \in 1 .. Len(s) /\ SubSeq(s, 1, m)[i] = s[i]
<1>1. Len(s) \in Nat /\ \A i \in 1 .. m : i \in 1 .. Len(s) /\ s[i] \in S
  OBVIOUS
<1>2. SubSeq(s, 1, m) \in Seq(S)
  BY <1>1
<1>3. Len(SubSeq(s, 1, m)) = (IF 1 <= m THEN m ELSE 0)
  BY <1>1
<1>4. \A i \in 1 .. m : SubSeq(s, 1, m)[i] = s[i]
  BY <1>1
<1>. QED
  BY <1>1, <1>2, <1>3, <1>4

(* At most the missing clusters are appended to a chain, and free ones. *)
LEMMA AppendedIs ==
    ASSUME NEW d, NEW s \in Seq(Clusters), NEW n \in Int
    PROVE  LET new == Appended(d, s, n)
           IN  /\ new \in Seq(Free(d))
               /\ \A i, j \in 1 .. Len(new) : new[i] = new[j] => i = j
               /\ new # <<>> => Len(s) + Len(new) <= n
<1>. DEFINE free == FreeClusters(d)
            new == Appended(d, s, n)
            m == Min({n - Len(s), Len(free)})
<1>1. free \in Seq(Free(d)) /\ \A i, j \in 1 .. Len(free) : free[i] = free[j] => i = j
  BY FreeIs, Zenon
<1>. HIDE DEF free
<1>2. Len(free) \in Nat /\ Len(s) \in Nat
  BY <1>1
<1>3. m \in Int /\ m <= n - Len(s) /\ m <= Len(free)
  BY <1>2 DEF Min
<1>4. new = SubSeq(free, 1, m) \/ new = <<>>
  BY DEF Appended, free
<1>5. CASE new = <<>>
  BY <1>5, EmptySeq
<1>6. CASE new = SubSeq(free, 1, m)
  <2>. HIDE DEF m, new
  <2>1. \A i \in 1 .. m : i \in 1 .. Len(free) /\ free[i] \in Free(d)
    BY <1>1, <1>2, <1>3
  <2>2. new \in Seq(Free(d)) /\ Len(new) = (IF 1 <= m THEN m ELSE 0)
        /\ \A i \in 1 .. Len(new) : i \in 1 .. Len(free) /\ new[i] = free[i]
    <3>1. free \in Seq(Free(d))
      BY <1>1
    <3>. QED
      BY <3>1, <1>3, <1>6, FirstOf
  <2>3. Len(new) = IF 1 <= m THEN m ELSE 0
    BY <2>2
  <2>4. \A i \in 1 .. Len(new) : i \in 1 .. Len(free) /\ new[i] = free[i]
    BY <2>2
  <2>5. \A i, j \in 1 .. Len(new) : new[i] = new[j] => i = j
    BY <1>1, <2>4
  <2>6. new # <<>> => Len(new) # 0
    BY <2>2, EmptySeq
  <2>7. new # <<>> => Len(s) + Len(new) <= n
    BY <2>6, <2>3, <1>2, <1>3
  <2>8. new \in Seq(Free(d))
    BY <2>2
  <2>. QED
    BY <2>5, <2>7, <2>8 DEF new
<1>. QED
  BY <1>4, <1>5, <1>6

-----------------------------------------------------------------------------
(* Chains that grow                                                        *)

(* The names on the disk, and its directory items *)
ShortNames == {Fold(n) : n \in Names} \cup UNION {Range(Aliases(n)) : n \in Long}
Items == [kind : {"file", "dir"}, short : ShortNames,
          first : Clusters \cup {0}, size : Nat]
Lfns == [kind : {"lfn"}, n : Nat \ {0}, last : BOOLEAN, sum : ShortNames, name : Long]
Entry == Items \cup Lfns \cup {End, Deleted, Dot}

(* The shape of the disk *)
DiskShape(d) ==
    /\ d = [fat |-> d.fat, items |-> d.items, bytes |-> d.bytes, next_free |-> d.next_free]
    /\ d.fat = [c \in Clusters |-> d.fat[c]]
    /\ d.items = [c \in Clusters \cup {ROOT} |-> d.items[c]]
    /\ \A c \in Clusters \cup {ROOT} : d.items[c] \in [Slots(c) -> Entry]

(* The disk e is d with the chain s continued to t by free clusters. *)
Grows(d, e, s, t) ==
    /\ t \in Seq(Clusters) /\ Len(s) <= Len(t)
    /\ \A i \in 1 .. Len(s) : t[i] = s[i]
    /\ t = s => e = d
    /\ t # <<>> => IsChain(e, t[1], t)
    /\ \A c \in Range(t) \ Range(s) : d.fat[c] = UNUSED /\ e.items[c] = NoItems(c)
    /\ \A c \in Clusters \ Range(t) : e.fat[c] = d.fat[c]
    /\ \A c \in (Clusters \cup {ROOT}) \ (Range(t) \ Range(s)) : e.items[c] = d.items[c]
    /\ \A c \in Range(t) \ Range(s) : e.bytes[c] = Zero
    /\ \A c \in Clusters \ (Range(t) \ Range(s)) : e.bytes[c] = d.bytes[c]
    /\ DiskShape(e)

(* Range of a sequence *)
LEMMA InRange ==
    ASSUME NEW S, NEW s \in Seq(S)
    PROVE  /\ Range(s) \in SUBSET S
           /\ \A x : x \in Range(s) <=> \E i \in 1 .. Len(s) : s[i] = x
<1>1. DOMAIN s = 1 .. Len(s) /\ \A i \in 1 .. Len(s) : s[i] \in S
  OBVIOUS
<1>. QED
  BY <1>1 DEF Range

(* What belongs to a chain is in use. *)
LEMMA ChainUsed ==
    ASSUME NEW d, NEW first, NEW s, IsChain(d, first, s), NEW c \in Range(s)
    PROVE  d.fat[c] # UNUSED
<1>1. s \in Seq(Clusters)
  BY DEF IsChain
<1>2. PICK i \in 1 .. Len(s) : s[i] = c
  BY <1>1, InRange
<1>3. Len(s) \in Nat
  BY <1>1
<1>4. CASE i = Len(s)
  <2>1. s # <<>>
    BY <1>2, <1>3
  <2>. QED
    BY <2>1, <1>2, <1>4, Limits DEF IsChain
<1>5. CASE i # Len(s)
  <2>1. i \in 1 .. Len(s) - 1 /\ i + 1 \in 1 .. Len(s)
    BY <1>3, <1>5
  <2>2. d.fat[c] = s[i + 1] /\ s[i + 1] \in Clusters
    BY <1>1, <1>2, <2>1 DEF IsChain
  <2>. QED
    BY <2>2, Limits
<1>. QED
  BY <1>4, <1>5

(* A chain stays while the FAT has the same at its clusters. *)
LEMMA ChainStays ==
    ASSUME NEW d, NEW e, NEW first, NEW s, IsChain(d, first, s),
           \A c \in Range(s) : e.fat[c] = d.fat[c]
    PROVE  IsChain(e, first, s) /\ Chain(e, first) = s /\ Chain(d, first) = s
<1>1. s \in Seq(Clusters) /\ Len(s) \in Nat
  BY DEF IsChain
<1>2. \A i \in 1 .. Len(s) : e.fat[s[i]] = d.fat[s[i]]
  BY <1>1, InRange
<1>3. s # <<>> => Len(s) \in 1 .. Len(s)
  BY <1>1
<1>4. \A i \in 1 .. Len(s) - 1 : i \in 1 .. Len(s)
  BY <1>1
<1>5. IsChain(e, first, s)
  BY <1>2, <1>3, <1>4, Zenon DEF IsChain
<1>. QED
  BY <1>5, ChainIs, Zenon

(* Linked continues a chain. *)
LEMMA LinkedGrows ==
    ASSUME NEW d, DiskShape(d), NEW first, NEW s, IsChain(d, first, s),
           NEW new \in Seq(Free(d)), \A i, j \in 1 .. Len(new) : new[i] = new[j] => i = j
    PROVE  Grows(d, Linked(d, s, new), s, s \o new)
<1>. DEFINE t == s \o new
            e == Linked(d, s, new)
<1>1. s \in Seq(Clusters) /\ Len(s) \in Nat /\ \A i \in 1 .. Len(s) : s[i] \in Clusters
  BY DEF IsChain
<1>2. new \in Seq(Clusters) /\ Len(new) \in Nat
      /\ \A i \in 1 .. Len(new) : new[i] \in Clusters /\ d.fat[new[i]] = UNUSED
  BY DEF Free
<1>3. t \in Seq(Clusters) /\ Len(t) = Len(s) + Len(new)
      /\ \A i \in 1 .. Len(t) : t[i] = IF i <= Len(s) THEN s[i] ELSE new[i - Len(s)]
  BY <1>1, <1>2, ConcatProperties
<1>4. CASE new = <<>>
  <2>1. e = d
    BY <1>4, Zenon DEF Linked
  <2>2. t = s
    BY <1>1, <1>4
  <2>3. t # <<>> => IsChain(d, t[1], t)
    BY <2>2 DEF IsChain
  <2>. HIDE DEF e, t
  <2>4. Range(t) \ Range(s) = {}
    BY <2>2
  <2>5. Len(s) <= Len(s) /\ \A i \in 1 .. Len(s) : s[i] = s[i]
    BY <1>1
  <2>6. Grows(d, d, s, s)
    BY <1>1, <2>2, <2>3, <2>4, <2>5, Zenon DEF Grows
  <2>. QED
    BY <2>1, <2>2, <2>6 DEF e, t
<1>5. CASE new # <<>>
  <2>. DEFINE link(c) == LET i == CHOOSE i \in DOMAIN t : t[i] = c
                         IN  IF i = Len(t) THEN END_OF_CHAIN ELSE t[i + 1]
              changed == Range(new) \cup (IF s = <<>> THEN {} ELSE {s[Len(s)]})
  <2>1. e = [fat |-> [c \in Clusters |-> IF c \in changed THEN link(c) ELSE d.fat[c]],
              items |-> [c \in DOMAIN d.items |->
                            IF c \in Range(new) THEN NoItems(c) ELSE d.items[c]],
              bytes |-> [c \in Clusters |->
                            IF c \in Range(new) THEN Zero ELSE d.bytes[c]],
              next_free |-> Last(new) + 1]
    BY <1>5 DEF Linked, Last
  <2>2. /\ e.fat = [c \in Clusters |-> IF c \in changed THEN link(c) ELSE d.fat[c]]
        /\ e.items = [c \in DOMAIN d.items |->
                            IF c \in Range(new) THEN NoItems(c) ELSE d.items[c]]
        /\ e.bytes = [c \in Clusters |-> IF c \in Range(new) THEN Zero ELSE d.bytes[c]]
        /\ e = [fat |-> e.fat, items |-> e.items, bytes |-> e.bytes, next_free |-> e.next_free]
    <3>. HIDE DEF link, changed, e
    <3>. QED
      BY <2>1
  <2>3. \A i \in 1 .. Len(s), j \in 1 .. Len(new) : s[i] # new[j]
    <3>1. \A i \in 1 .. Len(s) : d.fat[s[i]] # UNUSED
      BY <1>1, InRange, ChainUsed
    <3>. QED
      BY <1>2, <3>1
  <2>4. \A i, j \in 1 .. Len(t) : t[i] = t[j] => i = j
    <3>1. ASSUME NEW i \in 1 .. Len(t), NEW j \in 1 .. Len(t), t[i] = t[j] PROVE i = j
      <4>1. i \in 1 .. Len(s) \/ i - Len(s) \in 1 .. Len(new)
        BY <1>1, <1>2, <1>3
      <4>2. j \in 1 .. Len(s) \/ j - Len(s) \in 1 .. Len(new)
        BY <1>1, <1>2, <1>3
      <4>. HIDE DEF t
      <4>3. CASE i <= Len(s) /\ j <= Len(s)
        BY <1>3, <3>1, <4>1, <4>2, <4>3 DEF IsChain
      <4>4. CASE ~ (i <= Len(s)) /\ ~ (j <= Len(s))
        <5>1. new[i - Len(s)] = new[j - Len(s)]
          BY <1>3, <3>1, <4>4
        <5>2. i - Len(s) = j - Len(s)
          BY <4>1, <4>2, <4>4, <5>1
        <5>. QED
          BY <5>2, <1>1
      <4>5. CASE i <= Len(s) /\ ~ (j <= Len(s))
        <5>1. t[i] = s[i] /\ t[j] = new[j - Len(s)] /\ i \in 1 .. Len(s)
          BY <1>3, <4>1, <4>5
        <5>2. j - Len(s) \in 1 .. Len(new)
          BY <4>2, <4>5
        <5>. QED
          BY <2>3, <3>1, <5>1, <5>2
      <4>6. CASE ~ (i <= Len(s)) /\ j <= Len(s)
        <5>1. t[j] = s[j] /\ t[i] = new[i - Len(s)] /\ j \in 1 .. Len(s)
          BY <1>3, <4>2, <4>6
        <5>2. i - Len(s) \in 1 .. Len(new)
          BY <4>1, <4>6
        <5>. QED
          BY <2>3, <3>1, <5>1, <5>2
      <4>. QED
        BY <4>3, <4>4, <4>5, <4>6
    <3>. QED
      BY <3>1
  <2>5. \A c : c \in Range(new) <=> \E j \in 1 .. Len(new) : new[j] = c
    BY <1>2, InRange
  <2>6. \A c : c \in Range(s) <=> \E j \in 1 .. Len(s) : s[j] = c
    BY <1>1, InRange
  <2>7. \A c : c \in Range(t) <=> \E j \in 1 .. Len(t) : t[j] = c
    <3>. HIDE DEF t
    <3>. QED
      BY <1>3, InRange
  <2>8. Range(t) = Range(s) \cup Range(new) /\ Range(s) \cap Range(new) = {}
    <3>1. Range(t) = Range(s) \cup Range(new)
      BY <1>1, <1>2, RangeConcatenation
    <3>. HIDE DEF t
    <3>. QED
      BY <3>1, <2>3, <2>5, <2>6
  <2>9. ASSUME NEW i \in 1 .. Len(t)
        PROVE  link(t[i]) = IF i = Len(t) THEN END_OF_CHAIN ELSE t[i + 1]
    <3>. DEFINE k == CHOOSE k \in DOMAIN t : t[k] = t[i]
    <3>1. k = i
      <4>1. DOMAIN t = 1 .. Len(t)
        BY <1>3
      <4>. HIDE DEF t
      <4>. QED
        BY <4>1, <2>4
    <3>2. link(t[i]) = IF k = Len(t) THEN END_OF_CHAIN ELSE t[k + 1]
      BY Zenon
    <3>. HIDE DEF t, k, link
    <3>. QED
      BY <3>1, <3>2
  <2>10. ASSUME NEW i \in 1 .. Len(t)
         PROVE  e.fat[t[i]] = IF i = Len(t) THEN END_OF_CHAIN ELSE t[i + 1]
    <3>0. t[i] \in Clusters /\ i \in Int /\ Len(t) \in Int
      <4>. HIDE DEF t
      <4>. QED
        BY <1>1, <1>2, <1>3
    <3>1. e.fat[t[i]] = IF t[i] \in changed THEN link(t[i]) ELSE d.fat[t[i]]
      <4>. HIDE DEF e, changed, link, t
      <4>. QED
        BY <3>0, <2>2
    <3>2. CASE i < Len(s)
      <4>1. t[i] = s[i] /\ t[i + 1] = s[i + 1] /\ i # Len(t) /\ i \in 1 .. Len(s) - 1
            /\ i # Len(s) /\ Len(s) \in 1 .. Len(s) /\ i \in 1 .. Len(s)
        <5>. HIDE DEF t
        <5>. QED
          BY <1>3, <3>0, <3>2, <1>1, <1>2
      <4>2. t[i] \notin changed
        <5>1. s[i] # s[Len(s)] /\ s[i] \notin Range(new)
          BY <4>1, <2>3, <2>5 DEF IsChain
        <5>. HIDE DEF t
        <5>. QED
          BY <4>1, <5>1
      <4>3. d.fat[s[i]] = s[i + 1]
        BY <4>1 DEF IsChain
      <4>. HIDE DEF t, e, changed, link
      <4>. QED
        BY <3>1, <4>1, <4>2, <4>3
    <3>3. CASE i = Len(s)
      <4>1. t[i] \in changed
        <5>1. s # <<>> /\ t[i] = s[Len(s)]
          <6>. HIDE DEF t
          <6>. QED
            BY <1>3, <3>0, <3>3, <1>1
        <5>. HIDE DEF t
        <5>. QED
          BY <5>1
      <4>. HIDE DEF t, e, changed, link
      <4>. QED
        BY <3>1, <4>1, <2>9
    <3>4. CASE i > Len(s)
      <4>1. t[i] \in changed
        <5>. HIDE DEF t
        <5>1. t[i] = new[i - Len(s)] /\ i - Len(s) \in 1 .. Len(new)
          BY <1>3, <3>0, <3>4, <1>1, <1>2
        <5>. QED
          BY <5>1, <2>5
      <4>. HIDE DEF t, e, changed, link
      <4>. QED
        BY <3>1, <4>1, <2>9
    <3>5. i < Len(s) \/ i = Len(s) \/ i > Len(s)
      BY <3>0, <1>1
    <3>. HIDE DEF t, e
    <3>. QED
      BY <3>2, <3>3, <3>4, <3>5
  <2>11. t # <<>> /\ Len(t) \in 1 .. Len(t)
    <3>1. Len(new) # 0
      BY <1>2, <1>5, EmptySeq
    <3>2. Len(t) >= 1
      <4>. HIDE DEF t
      <4>. QED
        BY <1>1, <1>2, <1>3, <3>1
    <3>. HIDE DEF t
    <3>. QED
      BY <3>2, <1>3
  <2>12. IsChain(e, t[1], t)
    <3>. HIDE DEF t, e
    <3>1. t[1] \in Clusters /\ Len(t) \in Nat
      BY <1>3, <2>11
    <3>2. e.fat[t[Len(t)]] = END_OF_CHAIN
      BY <2>10, <2>11
    <3>3. \A i \in 1 .. Len(t) - 1 : e.fat[t[i]] = t[i + 1]
      <4>1. \A i \in 1 .. Len(t) - 1 : i \in 1 .. Len(t) /\ i # Len(t)
        BY <3>1
      <4>. QED
        BY <4>1, <2>10
    <3>. QED
      BY <1>3, <2>4, <2>11, <3>1, <3>2, <3>3 DEF IsChain
  <2>13. DOMAIN d.items = Clusters \cup {ROOT}
    BY DEF DiskShape
  <2>14. \A c \in Clusters \ Range(t) : e.fat[c] = d.fat[c]
    <3>1. changed \subseteq Range(t)
      <4>1. s # <<>> => s[Len(s)] \in Range(s)
        BY <1>1, <2>6
      <4>. HIDE DEF t
      <4>. QED
        BY <2>8, <4>1
    <3>. HIDE DEF t, e, changed, link
    <3>. QED
      BY <3>1, <2>2
  <2>15. \A c \in Clusters \cup {ROOT} :
            e.items[c] = IF c \in Range(new) THEN NoItems(c) ELSE d.items[c]
    <3>. HIDE DEF t, e, changed, link
    <3>. QED
      BY <2>2, <2>13
  <2>16. DiskShape(e)
    <3>1. e.fat = [c \in Clusters |-> e.fat[c]]
      <4>. HIDE DEF t, e, changed, link
      <4>. QED
        BY <2>2
    <3>2. e.items = [c \in Clusters \cup {ROOT} |-> e.items[c]]
      <4>. HIDE DEF t, e, changed, link
      <4>. QED
        BY <2>2, <2>13
    <3>3. \A c : NoItems(c) \in [Slots(c) -> Entry]
      <4>1. End \in Entry
        BY DEF Entry
      <4>. HIDE DEF Slots, Entry
      <4>. QED
        BY <4>1 DEF NoItems
    <3>4. \A c \in Clusters \cup {ROOT} : e.items[c] \in [Slots(c) -> Entry]
      <4>. HIDE DEF t, e, changed, link
      <4>. QED
        BY <2>15, <3>3, Zenon DEF DiskShape
    <3>. HIDE DEF t, e, changed, link
    <3>. QED
      BY <2>2, <3>1, <3>2, <3>4, Zenon DEF DiskShape
  <2>17. t # s
    <3>1. Len(t) # Len(s)
      <4>1. Len(new) # 0
        BY <1>2, <1>5, EmptySeq
      <4>. HIDE DEF t
      <4>. QED
        BY <1>1, <1>2, <1>3, <4>1
    <3>. HIDE DEF t
    <3>. QED
      BY <3>1
  <2>18. Len(s) <= Len(t) /\ \A i \in 1 .. Len(s) : t[i] = s[i]
    <3>. HIDE DEF t
    <3>. QED
      BY <1>1, <1>2, <1>3
  <2>19. \A c \in Range(t) \ Range(s) :
            c \in Range(new) /\ c \in Clusters /\ d.fat[c] = UNUSED
    <3>. HIDE DEF t
    <3>. QED
      BY <2>5, <2>8, <1>2
  <2>20. \A c \in Range(new) : c \in Range(t) \ Range(s)
    <3>. HIDE DEF t
    <3>. QED
      BY <2>8
  <2>21. \A c \in Clusters : e.bytes[c] = IF c \in Range(new) THEN Zero ELSE d.bytes[c]
    <3>. HIDE DEF t, e, changed, link
    <3>. QED
      BY <2>2
  <2>. HIDE DEF t, e, changed, link
  <2>. QED
    BY <1>3, <2>11, <2>12, <2>14, <2>15, <2>16, <2>17, <2>18, <2>19, <2>20, <2>21, Zenon DEF Grows, e, t
<1>. QED
  BY <1>4, <1>5

(* fat16_cluster_at continues a chain, up to the cluster asked for. *)
LEMMA ClusterAt ==
    ASSUME NEW d, DiskShape(d), NEW first, NEW s, IsChain(d, first, s), NEW n \in Int
    PROVE  LET r == fat16_cluster_at(d, first, n)
           IN  /\ Grows(d, r.disk, s, r.chain)
               /\ r.chain = s \/ Len(r.chain) <= n
<1>. DEFINE new == Appended(d, s, n)
            r == fat16_cluster_at(d, first, n)
<1>1. Chain(d, first) = s /\ s \in Seq(Clusters)
  <2>1. s \in Seq(Clusters)
    BY DEF IsChain
  <2>. QED
    BY <2>1, ChainIs, Zenon
<1>2. r = [disk |-> Linked(d, s, new), chain |-> s \o new]
  BY <1>1, Zenon DEF fat16_cluster_at
<1>3. new \in Seq(Free(d)) /\ (\A i, j \in 1 .. Len(new) : new[i] = new[j] => i = j)
      /\ (new # <<>> => Len(s) + Len(new) <= n)
  BY <1>1, AppendedIs, Zenon
<1>. HIDE DEF new
<1>4. Grows(d, Linked(d, s, new), s, s \o new)
  BY <1>3, LinkedGrows, Zenon
<1>5. new \in Seq(Clusters)
  BY <1>3 DEF Free
<1>6. s \o new = s \/ Len(s \o new) <= n
  BY <1>1, <1>3, <1>5
<1>7. r.disk = Linked(d, s, new) /\ r.chain = s \o new
  <2>. HIDE DEF r
  <2>. QED
    BY <1>2
<1>. QED
  BY <1>4, <1>6, <1>7, Zenon

-----------------------------------------------------------------------------
(* The items of a directory, in a row                                      *)

(* What the items of a directory keep to: behind the first end marker are  *)
(* only end markers, every part of a long name belongs to an item, and     *)
(* names and aliases differ.                                               *)
EndsOnce(s) == \A i, j \in 1 .. Len(s) : i < j /\ s[i] = End => s[j] = End
PartsHeld(s) ==
    \A k \in 1 .. Len(s) : s[k].kind = "lfn" =>
        \E i \in 1 .. Len(s) : IsItem(s[i]) /\ k \in i - fat16_lfn_count(s, i) .. i - 1
NamesDiffer(s) ==
    \A i, j \in 1 .. Len(s) : IsItem(s[i]) /\ IsItem(s[j]) /\ i # j =>
        /\ s[i].short # s[j].short
        /\ fat16_get_item_name(s, i) # fat16_get_item_name(s, j)
GoodDir(s) == s \in Seq(Entry) /\ EndsOnce(s) /\ PartsHeld(s) /\ NamesDiffer(s)

(* Kinds of entries *)
LEMMA Kinds ==
    /\ End.kind = "end" /\ Deleted.kind = "deleted" /\ Dot.kind = "dot"
    /\ \A e \in Items : IsItem(e) /\ e.kind \in {"file", "dir"} /\ e.kind # "lfn"
            /\ e # End /\ e # Deleted
            /\ e.short \in ShortNames /\ e.first \in Clusters \cup {0} /\ e.size \in Nat
    /\ \A e \in Lfns : ~ IsItem(e) /\ e.kind = "lfn" /\ e # End /\ e # Deleted /\ e.name \in Long
    /\ ~ IsItem(End) /\ ~ IsItem(Deleted) /\ ~ IsItem(Dot)
    /\ \A e \in Entry : (IsItem(e) => e \in Items) /\ (e.kind = "lfn" => e \in Lfns)
            /\ (e.kind = "end" => e = End)
    /\ End # Deleted /\ End # Dot /\ Deleted # Dot
<1>1. End.kind = "end" /\ Deleted.kind = "deleted" /\ Dot.kind = "dot"
  BY DEF End, Deleted, Dot, Item
<1>2. \A e \in Items : e.kind \in {"file", "dir"} /\ e.short \in ShortNames
            /\ e.first \in Clusters \cup {0} /\ e.size \in Nat
  BY DEF Items
<1>3. \A e \in Lfns : e.kind = "lfn" /\ e.name \in Long
  BY DEF Lfns
<1>4. \A e \in Items : e.kind # "lfn" /\ e.kind # "end" /\ e.kind # "deleted" /\ e.kind # "dot"
  BY <1>2
<1>. QED
  BY <1>1, <1>2, <1>3, <1>4 DEF IsItem, Entry

(* The parts of a long name that count for an item are in front of it. *)
Part(s, i, m) ==
    s[i - m].kind = "lfn" /\ s[i - m].n = m /\ s[i - m].sum = s[i].short
Good(s, i) == {n \in 1 .. i - 1 : \A m \in 1 .. n : Part(s, i, m)}

LEMMA CountIs ==
    ASSUME NEW s, NEW i \in Nat \ {0}
    PROVE  LET whole == {n \in Good(s, i) : s[i - n].last}
               c == fat16_lfn_count(s, i)
           IN  /\ whole = {} => c = 0
               /\ whole # {} => c \in whole /\ \A n \in whole : c <= n
               /\ c \in 0 .. i - 1
               /\ \A m \in 1 .. c : Part(s, i, m)
<1>. DEFINE whole == {n \in Good(s, i) : s[i - n].last}
            c == fat16_lfn_count(s, i)
<1>1. c = IF whole = {} THEN 0 ELSE Min(whole)
  BY DEF fat16_lfn_count, Good, Part
<1>2. whole \in SUBSET Nat /\ whole \subseteq Good(s, i) /\ Good(s, i) \subseteq 1 .. i - 1
  BY DEF Good
<1>3. whole # {} => Min(whole) \in whole /\ \A n \in whole : Min(whole) <= n
  <2>. HIDE DEF whole
  <2>. QED
    BY <1>2, MinIn
<1>. HIDE DEF c, whole
<1>4. whole # {} => c \in whole /\ \A n \in whole : c <= n
  BY <1>1, <1>3
<1>5. c \in 0 .. i - 1
  <2>1. CASE whole = {}
    BY <1>1, <2>1
  <2>2. CASE whole # {}
    <3>1. c \in Good(s, i)
      BY <1>2, <1>4, <2>2, Zenon
    <3>2. c \in 1 .. i - 1
      BY <1>2, <3>1, Zenon
    <3>. QED
      BY <3>2
  <2>. QED
    BY <2>1, <2>2
<1>6. \A m \in 1 .. c : Part(s, i, m)
  <2>1. CASE whole = {}
    BY <1>1, <2>1
  <2>2. CASE whole # {}
    BY <1>2, <1>4, <2>2 DEF Good
  <2>. QED
    BY <2>1, <2>2
<1>. QED
  BY <1>1, <1>4, <1>5, <1>6 DEF c, whole

(* n parts of a long name, the last of them marked, count. *)
LEMMA PartsCount ==
    ASSUME NEW s, NEW i \in Nat \ {0}, NEW n \in 1 .. i - 1,
           \A m \in 1 .. n : Part(s, i, m) /\ (s[i - m].last <=> m = n)
    PROVE  fat16_lfn_count(s, i) = n
<1>. DEFINE whole == {m \in Good(s, i) : s[i - m].last}
            c == fat16_lfn_count(s, i)
<1>1. n \in whole
  BY DEF Good
<1>2. c \in whole /\ c <= n
  BY <1>1, CountIs
<1>3. c \in 1 .. i - 1 /\ s[i - c].last
  <2>. HIDE DEF c
  <2>. QED
    BY <1>2 DEF Good
<1>4. c \in 1 .. n
  <2>. HIDE DEF c, whole
  <2>. QED
    BY <1>2, <1>3
<1>. HIDE DEF c
<1>5. c = n
  BY <1>3, <1>4
<1>. QED
  BY <1>5 DEF c

(* Only the items back to the last that is no part count. *)
LEMMA CountKept ==
    ASSUME NEW s, NEW t, NEW i \in Nat \ {0}, NEW b \in 0 .. i - 1,
           b # 0 => s[b].kind # "lfn" /\ t[b].kind # "lfn",
           \A k \in b + 1 .. i - 1 : s[k] = t[k],
           s[i].short = t[i].short
    PROVE  fat16_lfn_count(s, i) = fat16_lfn_count(t, i)
<1>1. ASSUME NEW x, NEW y, b # 0 => x[b].kind # "lfn",
             \A k \in b + 1 .. i - 1 : x[k] = y[k], x[i].short = y[i].short,
             NEW n \in Good(x, i)
      PROVE  n \in Good(y, i) /\ x[i - n] = y[i - n]
  <2>1. n \in 1 .. i - 1 /\ \A m \in 1 .. n : Part(x, i, m)
    BY <1>1 DEF Good
  <2>2. i - n > b
    <3>1. CASE b = 0
      BY <2>1, <3>1
    <3>2. CASE b # 0
      <4>1. SUFFICES ASSUME i - b <= n PROVE FALSE
        BY <2>1
      <4>2. i - b \in 1 .. n /\ i - (i - b) = b
        BY <4>1, <2>1
      <4>3. Part(x, i, i - b)
        BY <2>1, <4>2
      <4>. QED
        BY <1>1, <3>2, <4>2, <4>3 DEF Part
    <3>. QED
      BY <3>1, <3>2
  <2>3. ASSUME NEW m \in 1 .. n PROVE Part(y, i, m) /\ x[i - m] = y[i - m]
    <3>1. i - m \in b + 1 .. i - 1
      BY <2>1, <2>2
    <3>. QED
      BY <1>1, <2>1, <3>1 DEF Part
  <2>. QED
    BY <2>1, <2>3 DEF Good
<1>2. Good(s, i) = Good(t, i) /\ \A n \in Good(s, i) : s[i - n] = t[i - n]
  <2>1. \A n \in Good(s, i) : n \in Good(t, i) /\ s[i - n] = t[i - n]
    BY <1>1
  <2>2. \A k \in b + 1 .. i - 1 : t[k] = s[k]
    OBVIOUS
  <2>3. \A n \in Good(t, i) : n \in Good(s, i)
    BY <1>1, <2>2
  <2>. QED
    BY <2>1, <2>3
<1>3. {n \in Good(s, i) : s[i - n].last} = {n \in Good(t, i) : t[i - n].last}
  BY <1>2
<1>. QED
  BY <1>3 DEF fat16_lfn_count, Good, Part

(* A name is that of the item, or of the part in front of it. *)
LEMMA NameKept ==
    ASSUME NEW s, NEW t, NEW i, fat16_lfn_count(s, i) = fat16_lfn_count(t, i),
           s[i].short = t[i].short,
           fat16_lfn_count(s, i) # 0 => s[i - 1] = t[i - 1]
    PROVE  fat16_get_item_name(s, i) = fat16_get_item_name(t, i)
  BY DEF fat16_get_item_name

(* A change of a window that ends in no part, before and after, leaves the *)
(* names of the other items.                                               *)
LEMMA WindowCounts ==
    ASSUME NEW s \in Seq(Entry), NEW t \in Seq(Entry), Len(s) <= Len(t),
           NEW a \in 1 .. Len(s), NEW b \in a .. Len(s),
           s[b].kind # "lfn", t[b].kind # "lfn",
           \A k \in 1 .. Len(s) : k \notin a .. b => t[k] = s[k],
           NEW i \in 1 .. Len(s), i \notin a .. b
    PROVE  /\ fat16_lfn_count(t, i) = fat16_lfn_count(s, i)
           /\ fat16_get_item_name(t, i) = fat16_get_item_name(s, i)
           /\ (i - fat16_lfn_count(s, i) .. i - 1) \cap (a .. b) = {}
<1>1. i \in Nat \ {0} /\ a \in Nat /\ b \in Nat /\ Len(s) \in Nat /\ a <= b /\ b <= Len(s) /\ 1 <= a
  OBVIOUS
<1>. DEFINE c == fat16_lfn_count(s, i)
<1>2. c \in 0 .. i - 1 /\ \A m \in 1 .. c : Part(s, i, m)
  BY <1>1, CountIs, Zenon
<1>. HIDE DEF c
<1>3. fat16_lfn_count(t, i) = c /\ (i - c .. i - 1) \cap (a .. b) = {}
  <2>1. CASE i < a
    <3>1. \A k \in 0 + 1 .. i - 1 : s[k] = t[k]
      BY <1>1, <2>1
    <3>2. s[i].short = t[i].short /\ 0 \in 0 .. i - 1
      BY <1>1
    <3>3. fat16_lfn_count(t, i) = c
      BY <1>1, <3>1, <3>2, CountKept DEF c
    <3>4. (i - c .. i - 1) \cap (a .. b) = {}
      BY <1>1, <1>2, <2>1
    <3>. QED
      BY <3>3, <3>4
  <2>2. CASE i > b
    <3>1. \A k \in b + 1 .. i - 1 : s[k] = t[k]
      BY <1>1, <2>2
    <3>2. s[i].short = t[i].short /\ b \in 0 .. i - 1
      BY <1>1, <2>2
    <3>3. fat16_lfn_count(t, i) = c
      BY <1>1, <3>1, <3>2, CountKept DEF c
    <3>4. ~ (i - b <= c)
      <4>1. SUFFICES ASSUME i - b <= c PROVE FALSE
        OBVIOUS
      <4>2. i - b \in 1 .. c /\ i - (i - b) = b
        BY <4>1, <1>1, <1>2, <2>2
      <4>. QED
        BY <1>2, <4>2 DEF Part
    <3>5. (i - c .. i - 1) \cap (a .. b) = {}
      BY <1>1, <1>2, <2>2, <3>4
    <3>. QED
      BY <3>3, <3>5
  <2>. QED
    BY <1>1, <2>1, <2>2
<1>4. s[i].short = t[i].short
  BY <1>1
<1>5. c # 0 => s[i - 1] = t[i - 1]
  <2>1. SUFFICES ASSUME c # 0 PROVE s[i - 1] = t[i - 1]
    OBVIOUS
  <2>2. i - 1 \in i - c .. i - 1 /\ i - 1 \in 1 .. Len(s)
    BY <2>1, <1>1, <1>2
  <2>. QED
    BY <1>3, <2>2
<1>6. fat16_get_item_name(t, i) = fat16_get_item_name(s, i)
  BY <1>3, <1>4, <1>5, NameKept DEF c
<1>. QED
  BY <1>3, <1>6 DEF c

(* t is the directory s with other entries at a to b. *)
Rewritten(s, t, a, b) ==
    /\ t \in Seq(Entry) /\ Len(t) = Len(s)
    /\ a \in 1 .. Len(s) /\ b \in a .. Len(s)
    /\ \A k \in 1 .. Len(s) : k \notin a .. b => t[k] = s[k]

LEMMA RewrittenCounts ==
    ASSUME NEW s \in Seq(Entry), NEW t, NEW a, NEW b, Rewritten(s, t, a, b),
           s[b].kind # "lfn", t[b].kind # "lfn",
           NEW i \in 1 .. Len(s), i \notin a .. b
    PROVE  /\ fat16_lfn_count(t, i) = fat16_lfn_count(s, i)
           /\ fat16_get_item_name(t, i) = fat16_get_item_name(s, i)
<1>1. t \in Seq(Entry) /\ Len(s) <= Len(t) /\ a \in 1 .. Len(s) /\ b \in a .. Len(s)
      /\ \A k \in 1 .. Len(s) : k \notin a .. b => t[k] = s[k]
  BY DEF Rewritten
<1>. QED
  BY <1>1, WindowCounts

(* An item is written back with another cluster and size. *)
LEMMA ItemReplaced ==
    ASSUME NEW s, NEW t, GoodDir(s), NEW p, Rewritten(s, t, p, p),
           IsItem(s[p]), IsItem(t[p]), t[p].short = s[p].short
    PROVE  GoodDir(t)
<1>1. s \in Seq(Entry) /\ t \in Seq(Entry) /\ Len(t) = Len(s) /\ Len(s) \in Nat
      /\ p \in 1 .. Len(s) /\ p \in Nat \ {0} /\ p \in p .. Len(s)
      /\ \A k \in 1 .. Len(s) : k # p => t[k] = s[k]
  BY DEF GoodDir, Rewritten
<1>2. s[p].kind # "lfn" /\ t[p].kind # "lfn" /\ s[p] # End /\ t[p] # End
  BY Kinds DEF IsItem
<1>3. ASSUME NEW i \in 1 .. Len(s)
      PROVE  /\ fat16_lfn_count(t, i) = fat16_lfn_count(s, i)
             /\ fat16_get_item_name(t, i) = fat16_get_item_name(s, i)
             /\ t[i].short = s[i].short /\ (IsItem(t[i]) <=> IsItem(s[i]))
  <2>1. CASE i # p
    <3>1. i \notin p .. p /\ \A k \in 1 .. Len(s) : k \notin p .. p => t[k] = s[k]
      BY <1>1, <2>1
    <3>. QED
      BY <3>1, <1>1, <1>2, <2>1, WindowCounts
  <2>2. CASE i = p
    <3>1. 0 \in 0 .. p - 1 /\ \A k \in 0 + 1 .. p - 1 : s[k] = t[k]
      BY <1>1
    <3>2. fat16_lfn_count(s, p) = fat16_lfn_count(t, p)
      BY <3>1, <1>1, CountKept
    <3>3. fat16_lfn_count(s, p) \in 0 .. p - 1
      BY <1>1, CountIs, Zenon
    <3>4. fat16_lfn_count(s, p) # 0 => s[p - 1] = t[p - 1]
      <4>1. fat16_lfn_count(s, p) # 0 => p - 1 \in 0 + 1 .. p - 1
        BY <1>1, <3>3
      <4>. QED
        BY <3>1, <4>1
    <3>5. fat16_get_item_name(t, p) = fat16_get_item_name(s, p)
      BY <3>2, <3>4, NameKept, Zenon
    <3>. QED
      BY <2>2, <3>2, <3>5
  <2>. QED
    BY <2>1, <2>2
<1>4. EndsOnce(t)
  BY <1>1, <1>2, Zenon DEF EndsOnce, GoodDir
<1>5. PartsHeld(t)
  <2>1. SUFFICES ASSUME NEW k \in 1 .. Len(t), t[k].kind = "lfn"
                 PROVE  \E i \in 1 .. Len(t) :
                            IsItem(t[i]) /\ k \in i - fat16_lfn_count(t, i) .. i - 1
    BY Zenon DEF PartsHeld
  <2>2. k # p /\ k \in 1 .. Len(s) /\ s[k].kind = "lfn"
    BY <1>1, <1>2, <2>1
  <2>3. PICK i \in 1 .. Len(s) : IsItem(s[i]) /\ k \in i - fat16_lfn_count(s, i) .. i - 1
    BY <2>2 DEF GoodDir, PartsHeld
  <2>. QED
    BY <2>3, <1>1, <1>3
<1>6. NamesDiffer(t)
  BY <1>1, <1>3 DEF GoodDir, NamesDiffer
<1>. QED
  BY <1>1, <1>4, <1>5, <1>6 DEF GoodDir

(* An item is deleted with the parts of its name. *)
LEMMA ItemErased ==
    ASSUME NEW s, NEW t, GoodDir(s), NEW p \in 1 .. Len(s), IsItem(s[p]),
           Rewritten(s, t, p - fat16_lfn_count(s, p), p),
           \A k \in p - fat16_lfn_count(s, p) .. p : t[k] = Deleted
    PROVE  /\ GoodDir(t)
           /\ \A k \in 1 .. Len(s) : IsItem(t[k]) <=> IsItem(s[k]) /\ k # p
<1>. DEFINE c == fat16_lfn_count(s, p)
            a == p - c
<1>1. s \in Seq(Entry) /\ Len(s) \in Nat /\ p \in Nat \ {0} /\ 1 <= p /\ p <= Len(s)
  BY DEF GoodDir
<1>2. c \in 0 .. p - 1 /\ \A m \in 1 .. c : Part(s, p, m)
  BY <1>1, CountIs, Zenon
<1>. HIDE DEF c
<1>3. t \in Seq(Entry) /\ Len(t) = Len(s) /\ a \in 1 .. Len(s) /\ p \in a .. Len(s)
      /\ \A k \in 1 .. Len(s) : k \notin a .. p => t[k] = s[k]
  BY DEF Rewritten, c
<1>4. \A k \in a .. p : t[k] = Deleted
  BY DEF c
<1>5. \A k \in a .. p : k # p => s[k].kind = "lfn"
  <2>1. ASSUME NEW k \in a .. p, k # p PROVE s[k].kind = "lfn"
    <3>1. p - k \in 1 .. c /\ p - (p - k) = k
      BY <1>1, <1>2, <2>1
    <3>. QED
      BY <1>2, <3>1 DEF Part
  <2>. QED
    BY <2>1
<1>6. s[p].kind # "lfn" /\ t[p].kind # "lfn" /\ s[p] # End
  BY <1>3, <1>4, Kinds DEF IsItem
<1>7. \A k \in a .. p : ~ IsItem(t[k]) /\ t[k] # End /\ t[k].kind # "lfn"
                        /\ s[k] # End /\ (k # p => ~ IsItem(s[k]))
  BY <1>4, <1>5, <1>6, Kinds DEF IsItem
<1>8. ASSUME NEW i \in 1 .. Len(s), i \notin a .. p
      PROVE  /\ fat16_lfn_count(t, i) = fat16_lfn_count(s, i)
             /\ fat16_get_item_name(t, i) = fat16_get_item_name(s, i)
             /\ t[i] = s[i]
  BY <1>1, <1>3, <1>6, <1>8, WindowCounts
<1>. HIDE DEF a
<1>9. \A k \in 1 .. Len(s) : IsItem(t[k]) <=> IsItem(s[k]) /\ k # p
  BY <1>3, <1>7
<1>10. EndsOnce(t)
  BY <1>3, <1>7 DEF EndsOnce, GoodDir
<1>11. PartsHeld(t)
  <2>1. SUFFICES ASSUME NEW k \in 1 .. Len(t), t[k].kind = "lfn"
                 PROVE  \E i \in 1 .. Len(t) :
                            IsItem(t[i]) /\ k \in i - fat16_lfn_count(t, i) .. i - 1
    BY Zenon DEF PartsHeld
  <2>2. k \notin a .. p /\ k \in 1 .. Len(s) /\ s[k].kind = "lfn"
    BY <1>3, <1>7, <2>1
  <2>3. PICK i \in 1 .. Len(s) : IsItem(s[i]) /\ k \in i - fat16_lfn_count(s, i) .. i - 1
    BY <2>2 DEF GoodDir, PartsHeld
  <2>4. i # p
    <3>1. SUFFICES ASSUME i = p PROVE FALSE
      OBVIOUS
    <3>2. k \in a .. p
      BY <2>3, <3>1, <1>1, <1>2 DEF a, c
    <3>. QED
      BY <2>2, <3>2
  <2>5. i \notin a .. p
    BY <2>3, <2>4, <1>7
  <2>. QED
    BY <2>3, <2>5, <1>3, <1>8
<1>12. NamesDiffer(t)
  <2>1. SUFFICES ASSUME NEW i \in 1 .. Len(s), NEW j \in 1 .. Len(s),
                        IsItem(t[i]), IsItem(t[j]), i # j
                 PROVE  /\ t[i].short # t[j].short
                        /\ fat16_get_item_name(t, i) # fat16_get_item_name(t, j)
    BY <1>3, Zenon DEF NamesDiffer
  <2>2. i \notin a .. p /\ j \notin a .. p
    BY <2>1, <1>7
  <2>. QED
    BY <2>1, <2>2, <1>8 DEF GoodDir, NamesDiffer
<1>. QED
  BY <1>3, <1>9, <1>10, <1>11, <1>12 DEF GoodDir

(* t is s with an item and the parts of its name in a free place, and with *)
(* names that the directory does not have.                                 *)
PartsOf(name) == IF name \in Fits THEN 0 ELSE LfnCount(name)
NewNames(s, name, short) ==
    /\ name \in Fits => short = Fold(name)
    /\ \A i \in 1 .. Len(s) : IsItem(s[i]) =>
            short # s[i].short /\ Fold(name) \notin NamesOf(s, i)
FreePlace(s, a, b, name) ==
    /\ b = a + PartsOf(name)
    /\ \A k \in 1 .. a - 1 : s[k] # End
    /\ \A k \in a .. b : s[k] \in {Deleted, End}
Adds(s, t, a, b, name, item) ==
    /\ Rewritten(s, t, a, b)
    /\ FreePlace(s, a, b, name)
    /\ \A k \in a .. b : t[k] = NewItems(name, item)[k - a + 1]
    /\ NewNames(s, name, item.short)

LEMMA ItemAdded ==
    ASSUME NEW s, NEW t, GoodDir(s), NEW name \in Names, NEW item \in Items,
           NEW a, NEW b, Adds(s, t, a, b, name, item)
    PROVE  /\ GoodDir(t) /\ t[b] = item
           /\ \A k \in 1 .. Len(s) : IsItem(t[k]) <=> IsItem(s[k]) \/ k = b
           /\ \A k \in a .. b : ~ IsItem(s[k])
           /\ fat16_get_item_name(t, b) = Fold(name)
<1>. DEFINE n == PartsOf(name)
<1>0. Rewritten(s, t, a, b)
  BY DEF Adds
<1>1. s \in Seq(Entry) /\ Len(s) \in Nat /\ t \in Seq(Entry) /\ Len(t) = Len(s)
      /\ a \in 1 .. Len(s) /\ b \in a .. Len(s)
      /\ \A k \in 1 .. Len(s) : k \notin a .. b => t[k] = s[k]
  BY <1>0 DEF GoodDir, Rewritten
<1>2. a \in Nat /\ b \in Nat /\ 1 <= a /\ a <= b /\ b <= Len(s)
  BY <1>1
<1>3. n \in Nat /\ b = a + n /\ (name \notin Fits => name \in Long /\ n # 0)
  BY FatAssumption DEF Names, PartsOf, Adds, FreePlace
<1>. HIDE DEF n
<1>4. ASSUME NEW k \in a .. b
      PROVE  t[k] = IF k = b THEN item ELSE Lfn(b - k, k = a, item.short, name)
  <2>. DEFINE x == k - a + 1
  <2>1. x \in 1 .. n + 1 /\ (x = n + 1 <=> k = b) /\ n + 1 - x = b - k /\ (x = 1 <=> k = a)
    BY <1>2, <1>3
  <2>2. t[k] = NewItems(name, item)[x]
    BY DEF Adds
  <2>. HIDE DEF x
  <2>3. NewItems(name, item)[x] = IF x = n + 1 THEN item ELSE Lfn(n + 1 - x, x = 1, item.short, name)
    BY <2>1 DEF NewItems, n, PartsOf
  <2>. QED
    BY <2>1, <2>2, <2>3
<1>5. t[b] = item /\ b \in a .. b
  BY <1>2, <1>4
<1>6. \A k \in a .. b : k # b => /\ t[k].kind = "lfn" /\ t[k].n = b - k
                                 /\ (t[k].last <=> k = a) /\ t[k].sum = item.short
                                 /\ t[k].name = name
  <2>1. ASSUME NEW k \in a .. b, k # b
        PROVE  /\ t[k].kind = "lfn" /\ t[k].n = b - k
               /\ (t[k].last <=> k = a) /\ t[k].sum = item.short
               /\ t[k].name = name
    <3>1. t[k] = Lfn(b - k, k = a, item.short, name)
      BY <1>4, <2>1
    <3>. DEFINE last == k = a
    <3>2. t[k] = Lfn(b - k, last, item.short, name)
      BY <3>1
    <3>. HIDE DEF last
    <3>3. /\ t[k].kind = "lfn" /\ t[k].n = b - k
          /\ t[k].last = last /\ t[k].sum = item.short
          /\ t[k].name = name
      BY <3>2 DEF Lfn
    <3>. QED
      BY <3>3 DEF last
  <2>. QED
    BY <2>1
<1>7. IsItem(item) /\ item.kind # "lfn" /\ item # End
  BY Kinds
<1>8. \A k \in a .. b : t[k] # End /\ ~ IsItem(s[k]) /\ s[k].kind # "lfn"
                        /\ (k # b => ~ IsItem(t[k]))
  <2>1. \A k \in a .. b : k # b => ~ IsItem(t[k])
    BY <1>6 DEF IsItem
  <2>2. \A k \in a .. b : k # b => t[k] # End
    BY <1>6, Kinds
  <2>3. \A k \in a .. b : ~ IsItem(s[k]) /\ s[k].kind # "lfn"
    BY Kinds DEF Adds, FreePlace
  <2>. QED
    BY <2>1, <2>2, <2>3, <1>5, <1>7
<1>9. ASSUME NEW i \in 1 .. Len(s), i \notin a .. b
      PROVE  /\ fat16_lfn_count(t, i) = fat16_lfn_count(s, i)
             /\ fat16_get_item_name(t, i) = fat16_get_item_name(s, i)
             /\ t[i] = s[i]
  <2>1. s[b].kind # "lfn" /\ t[b].kind # "lfn"
    BY <1>5, <1>7, <1>8
  <2>2. Len(s) <= Len(t)
    BY <1>1
  <2>3. t[i] = s[i]
    BY <1>1, <1>9
  <2>4. /\ fat16_lfn_count(t, i) = fat16_lfn_count(s, i)
        /\ fat16_get_item_name(t, i) = fat16_get_item_name(s, i)
    BY <1>0, <1>1, <1>9, <2>1, RewrittenCounts, Zenon
  <2>. QED
    BY <2>3, <2>4
<1>10. \A k \in 1 .. Len(s) : IsItem(t[k]) <=> IsItem(s[k]) \/ k = b
  BY <1>1, <1>5, <1>7, <1>8
<1>11. EndsOnce(t)
  <2>1. SUFFICES ASSUME NEW i \in 1 .. Len(s), NEW j \in 1 .. Len(s), i < j, t[i] = End
                 PROVE  t[j] = End
    BY <1>1, Zenon DEF EndsOnce
  <2>2. i \notin a .. b /\ s[i] = End
    BY <2>1, <1>1, <1>8
  <2>3. i > b
    <3>1. i \in 1 .. a - 1 \/ i > b
      BY <2>2, <1>2
    <3>. QED
      BY <2>2, <3>1 DEF Adds, FreePlace
  <2>4. j \notin a .. b /\ s[j] = End
    BY <2>1, <2>2, <2>3, <1>2 DEF GoodDir, EndsOnce
  <2>. QED
    BY <2>4, <1>1
<1>12. fat16_lfn_count(t, b) = n
  <2>. DEFINE c == fat16_lfn_count(t, b)
  <2>1. c \in 0 .. b - 1 /\ \A m \in 1 .. c : Part(t, b, m)
    <3>1. b \in Nat \ {0}
      BY <1>2
    <3>. QED
      BY <3>1, CountIs, Zenon
  <2>0. c \in Nat
    <3>. HIDE DEF c
    <3>. QED
      BY <2>1, <1>2
  <2>2. CASE name \in Fits
    <3>1. n = 0 /\ a = b
      BY <2>2, <1>2, <1>3 DEF n, PartsOf
    <3>2. SUFFICES ASSUME c # 0 PROVE FALSE
      BY <3>1
    <3>3. 1 \in 1 .. c /\ b - 1 \in 1 .. Len(s) /\ b - 1 \notin a .. b
      <4>. HIDE DEF c
      <4>1. c # 0 /\ c \in 0 .. b - 1
        BY <2>1, <3>1, <3>2
      <4>2. b - 1 >= 1
        BY <4>1, <1>2
      <4>. QED
        BY <2>0, <3>1, <4>1, <4>2, <1>2
    <3>4. t[b - 1].kind = "lfn"
      <4>. HIDE DEF c
      <4>. QED
        BY <2>1, <3>3 DEF Part
    <3>5. s[b - 1].kind = "lfn"
      BY <3>3, <3>4, <1>1
    <3>6. PICK i \in 1 .. Len(s) :
                IsItem(s[i]) /\ b - 1 \in i - fat16_lfn_count(s, i) .. i - 1
      BY <3>3, <3>5 DEF GoodDir, PartsHeld
    <3>7. i # b /\ i > b - 1
      BY <3>6, <1>5, <1>8
    <3>. DEFINE e == fat16_lfn_count(s, i)
    <3>8. e \in 0 .. i - 1 /\ \A m \in 1 .. e : Part(s, i, m)
      <4>1. i \in Nat \ {0}
        OBVIOUS
      <4>. QED
        BY <4>1, CountIs, Zenon
    <3>9. i - b \in 1 .. e /\ i - (i - b) = b
      <4>. HIDE DEF c
      <4>1. b - 1 \in i - e .. i - 1
        BY <3>6
      <4>. HIDE DEF e
      <4>. QED
        BY <4>1, <3>7, <3>8, <1>2
    <3>10. s[b].kind = "lfn"
      <4>. HIDE DEF e, c
      <4>. QED
        BY <3>8, <3>9 DEF Part
    <3>. QED
      BY <3>10, <1>5, <1>8
  <2>3. CASE name \notin Fits
    <3>1. n \in Nat \ {0} /\ a = b - n /\ n \in 1 .. b - 1
      BY <2>3, <1>2, <1>3
    <3>2. ASSUME NEW m \in 1 .. n
          PROVE  b - m \in a .. b /\ b - m # b /\ b - (b - m) = m /\ (b - m = a <=> m = n)
      BY <3>1, <1>2
    <3>3. \A m \in 1 .. n : Part(t, b, m) /\ (t[b - m].last <=> m = n)
      <4>1. ASSUME NEW m \in 1 .. n PROVE Part(t, b, m) /\ (t[b - m].last <=> m = n)
        <5>1. b - m \in a .. b /\ b - m # b
          BY <3>2
        <5>2. /\ t[b - m].kind = "lfn" /\ t[b - m].n = b - (b - m)
              /\ (t[b - m].last <=> b - m = a) /\ t[b - m].sum = item.short
          BY <5>1, <1>6
        <5>. QED
          BY <3>2, <5>2, <1>5 DEF Part
      <4>. QED
        BY <4>1
    <3>. QED
      BY <3>1, <3>3, <1>2, PartsCount
  <2>. QED
    BY <2>2, <2>3
<1>13. fat16_get_item_name(t, b) = Fold(name)
  <2>1. CASE name \in Fits
    <3>1. n = 0
      BY <2>1 DEF n, PartsOf
    <3>. QED
      BY <2>1, <3>1, <1>5, <1>12 DEF fat16_get_item_name, Adds, NewNames
  <2>2. CASE name \notin Fits
    <3>1. n # 0 /\ b - 1 \in a .. b /\ b - 1 # b
      BY <2>2, <1>2, <1>3
    <3>. QED
      BY <3>1, <1>6, <1>12 DEF fat16_get_item_name
  <2>. QED
    BY <2>1, <2>2
<1>14. PartsHeld(t)
  <2>1. SUFFICES ASSUME NEW k \in 1 .. Len(t), t[k].kind = "lfn"
                 PROVE  \E i \in 1 .. Len(t) :
                            IsItem(t[i]) /\ k \in i - fat16_lfn_count(t, i) .. i - 1
    BY Zenon DEF PartsHeld
  <2>2. CASE k \in a .. b
    <3>1. k # b
      BY <2>1, <1>5, <1>7
    <3>2. k \in b - n .. b - 1 /\ b \in 1 .. Len(t)
      BY <2>2, <3>1, <1>1, <1>2, <1>3
    <3>. QED
      BY <3>2, <1>5, <1>7, <1>12
  <2>3. CASE k \notin a .. b
    <3>1. k \in 1 .. Len(s) /\ s[k].kind = "lfn"
      BY <1>1, <2>1, <2>3
    <3>2. PICK i \in 1 .. Len(s) : IsItem(s[i]) /\ k \in i - fat16_lfn_count(s, i) .. i - 1
      BY <3>1 DEF GoodDir, PartsHeld
    <3>3. i \notin a .. b
      BY <3>2, <1>8
    <3>. QED
      BY <3>2, <3>3, <1>1, <1>9
  <2>. QED
    BY <2>2, <2>3
<1>15. NamesDiffer(t)
  <2>1. ASSUME NEW i \in 1 .. Len(s), IsItem(t[i]), i # b
        PROVE  /\ i \notin a .. b /\ IsItem(s[i]) /\ t[i].short = s[i].short
               /\ fat16_get_item_name(t, i) = fat16_get_item_name(s, i)
               /\ t[i].short # item.short /\ fat16_get_item_name(t, i) # Fold(name)
    <3>1. i \notin a .. b
      BY <2>1, <1>8
    <3>2. IsItem(s[i]) /\ t[i] = s[i]
      BY <3>1, <2>1, <1>9
    <3>3. Fold(name) # fat16_get_item_name(s, i) /\ item.short # s[i].short
      BY <3>2 DEF NamesOf, Adds, NewNames
    <3>. QED
      BY <3>1, <3>2, <3>3, <1>9
  <2>2. SUFFICES ASSUME NEW i \in 1 .. Len(s), NEW j \in 1 .. Len(s),
                        IsItem(t[i]), IsItem(t[j]), i # j
                 PROVE  /\ t[i].short # t[j].short
                        /\ fat16_get_item_name(t, i) # fat16_get_item_name(t, j)
    BY <1>1, Zenon DEF NamesDiffer
  <2>3. CASE i = b
    BY <2>1, <2>2, <2>3, <1>5, <1>13
  <2>4. CASE j = b
    BY <2>1, <2>2, <2>4, <1>5, <1>13
  <2>5. CASE i # b /\ j # b
    BY <2>1, <2>2, <2>5 DEF GoodDir, NamesDiffer
  <2>. QED
    BY <2>3, <2>4, <2>5
<1>. QED
  BY <1>1, <1>5, <1>8, <1>10, <1>11, <1>13, <1>14, <1>15 DEF GoodDir

(* A directory with more room *)
LEMMA DirGrown ==
    ASSUME NEW s, NEW t, GoodDir(s), t \in Seq(Entry), Len(s) <= Len(t),
           \A k \in 1 .. Len(s) : t[k] = s[k],
           \A k \in Len(s) + 1 .. Len(t) : t[k] = End
    PROVE  GoodDir(t)
<1>1. s \in Seq(Entry) /\ Len(s) \in Nat /\ Len(t) \in Nat
  BY DEF GoodDir
<1>2. \A k \in 1 .. Len(t) : k \in 1 .. Len(s) \/ t[k] = End
  BY <1>1
<1>3. \A k \in 1 .. Len(t) : (IsItem(t[k]) \/ t[k].kind = "lfn") => k \in 1 .. Len(s)
  BY <1>2, Kinds
<1>4. ASSUME NEW i \in 1 .. Len(s)
      PROVE  /\ fat16_lfn_count(t, i) = fat16_lfn_count(s, i)
             /\ fat16_get_item_name(t, i) = fat16_get_item_name(s, i)
             /\ t[i] = s[i] /\ i \in 1 .. Len(t)
  <2>1. i \in Nat \ {0} /\ 0 \in 0 .. i - 1 /\ \A k \in 0 + 1 .. i - 1 : s[k] = t[k]
    BY <1>1
  <2>2. s[i].short = t[i].short
    OBVIOUS
  <2>3. fat16_lfn_count(s, i) = fat16_lfn_count(t, i)
    BY <2>1, <2>2, CountKept
  <2>4. fat16_lfn_count(s, i) \in 0 .. i - 1
    BY <2>1, CountIs, Zenon
  <2>5. fat16_lfn_count(s, i) # 0 => i - 1 \in 0 + 1 .. i - 1
    BY <2>1, <2>4
  <2>6. fat16_get_item_name(s, i) = fat16_get_item_name(t, i)
    BY <2>1, <2>2, <2>3, <2>5, NameKept
  <2>. QED
    BY <2>3, <2>6, <1>1
<1>5. EndsOnce(t)
  BY <1>1, <1>2 DEF GoodDir, EndsOnce
<1>6. PartsHeld(t)
  <2>1. SUFFICES ASSUME NEW k \in 1 .. Len(t), t[k].kind = "lfn"
                 PROVE  \E i \in 1 .. Len(t) :
                            IsItem(t[i]) /\ k \in i - fat16_lfn_count(t, i) .. i - 1
    BY Zenon DEF PartsHeld
  <2>2. k \in 1 .. Len(s) /\ s[k].kind = "lfn"
    BY <1>3, <1>4, <2>1
  <2>3. PICK i \in 1 .. Len(s) : IsItem(s[i]) /\ k \in i - fat16_lfn_count(s, i) .. i - 1
    BY <2>2 DEF GoodDir, PartsHeld
  <2>. QED
    BY <2>3, <1>4
<1>7. NamesDiffer(t)
  BY <1>3, <1>4 DEF GoodDir, NamesDiffer
<1>. QED
  BY <1>5, <1>6, <1>7 DEF GoodDir

-----------------------------------------------------------------------------
(* Directories on the disk                                                 *)

(* A number is quotient times divisor plus remainder. *)
LEMMA DivMod ==
    ASSUME NEW d \in Nat \ {0}, NEW q \in Nat, NEW k \in 0 .. d - 1
    PROVE  (d * q + k) \div d = q /\ (d * q + k) % d = k
<1>. DEFINE x == d * q + k
            p == x \div d
            r == x % d
<1>0. d * q \in Nat /\ x \in Nat /\ x = d * q + k
  OBVIOUS
<1>1. p \in Int /\ r \in 0 .. d - 1 /\ x = d * p + r /\ d * p \in Int
  <2>. HIDE DEF x
  <2>1. p \in Int /\ r \in 0 .. d - 1 /\ x = d * p + r
    BY <1>0
  <2>. HIDE DEF p, r
  <2>. QED
    BY <2>1
<1>. HIDE DEF x, p, r
<1>2. ~ (p + 1 <= q)
  <2>1. SUFFICES ASSUME p + 1 <= q PROVE FALSE
    OBVIOUS
  <2>2. d * (p + 1) <= d * q
    BY <1>1, <2>1, ProductGrows
  <2>3. d * (p + 1) = d * p + d
    BY <1>1
  <2>. QED
    BY <1>0, <1>1, <2>2, <2>3
<1>3. ~ (q + 1 <= p)
  <2>1. SUFFICES ASSUME q + 1 <= p PROVE FALSE
    OBVIOUS
  <2>2. d * (q + 1) <= d * p
    BY <1>1, <2>1, ProductGrows
  <2>3. d * (q + 1) = d * q + d
    OBVIOUS
  <2>. QED
    BY <1>0, <1>1, <2>2, <2>3
<1>4. p = q
  BY <1>1, <1>2, <1>3
<1>5. r = k
  BY <1>0, <1>1, <1>4
<1>. QED
  BY <1>4, <1>5 DEF x, p, r

LEMMA DivModIs ==
    ASSUME NEW d \in Nat \ {0}, NEW x \in Nat
    PROVE  x % d \in 0 .. d - 1 /\ x = d * (x \div d) + (x % d)
<1>. DEFINE p == x \div d
            r == x % d
<1>1. p \in Int /\ r \in 0 .. d - 1 /\ x = d * p + r
  OBVIOUS
<1>. HIDE DEF p, r
<1>2. r \in 0 .. d - 1 /\ x = d * p + r
  BY <1>1
<1>. QED
  BY <1>2, Zenon DEF p, r

LEMMA DivModOf ==
    ASSUME NEW d \in Nat \ {0}, NEW n \in Nat, NEW x \in 0 .. d * n - 1
    PROVE  /\ x \div d \in 0 .. n - 1 /\ x % d \in 0 .. d - 1
           /\ x = d * (x \div d) + (x % d)
<1>1. x \div d \in 0 .. n - 1
  BY QuotientIn
<1>2. d * n \in Int
  OBVIOUS
<1>3. x \in Nat
  BY <1>2
<1>4. x % d \in 0 .. d - 1 /\ x = d * (x \div d) + (x % d)
  BY <1>3, DivModIs
<1>. QED
  BY <1>1, <1>4

(* Where a directory item can be, and what is there *)
Cells == {p \in (Clusters \cup {ROOT}) \X Nat : p[2] \in Slots(p[1])}
At(d, p) == d.items[p[1]][p[2]]

(* The clusters of a directory, the places in them, the items stored there *)
(* and the places of files and directories among them                      *)
IsDir(d, dir) == dir = ROOT \/ (dir \in Clusters /\ IsChain(d, dir, Chain(d, dir)))
Area(d, dir) == IF dir = ROOT THEN {ROOT} ELSE Range(Chain(d, dir))
Places(d, dir) == {p \in Area(d, dir) \X Nat : p[2] \in Slots(p[1])}
Stored(d, dir) == [i \in DOMAIN Positions(d, dir) |-> At(d, Positions(d, dir)[i])]
Refs(d, dir) == {p \in Places(d, dir) : IsItem(At(d, p))}

LEMMA PlacesAreCells ==
    ASSUME NEW d, NEW dir, IsDir(d, dir)
    PROVE  Places(d, dir) \subseteq Cells /\ Area(d, dir) \subseteq Clusters \cup {ROOT}
<1>1. Area(d, dir) \subseteq Clusters \cup {ROOT}
  <2>1. CASE dir = ROOT
    BY <2>1 DEF Area
  <2>2. CASE dir # ROOT
    <3>1. Chain(d, dir) \in Seq(Clusters)
      BY <2>2 DEF IsDir, IsChain
    <3>. QED
      BY <2>2, <3>1, InRange DEF Area
  <2>. QED
    BY <2>1, <2>2
<1>. QED
  BY <1>1 DEF Places, Cells

LEMMA PlaceIs ==
    ASSUME NEW d, NEW dir, NEW p
    PROVE  p \in Places(d, dir) <=>
             /\ p = <<p[1], p[2]>> /\ p[1] \in Area(d, dir)
             /\ p[2] \in Slots(p[1])
<1>1. \A c : Slots(c) \subseteq Nat
  BY FatAssumption DEF Slots
<1>2. ASSUME p = <<p[1], p[2]>>, p[1] \in Area(d, dir), p[2] \in Slots(p[1])
      PROVE  p \in Places(d, dir)
  <2>1. p[2] \in Nat
    BY <1>1, <1>2
  <2>2. p \in Area(d, dir) \X Nat
    BY <1>2, <2>1
  <2>. QED
    BY <1>2, <2>2 DEF Places
<1>3. ASSUME p \in Places(d, dir)
      PROVE  p = <<p[1], p[2]>> /\ p[1] \in Area(d, dir) /\ p[2] \in Slots(p[1])
  <2>1. p \in Area(d, dir) \X Nat /\ p[2] \in Slots(p[1])
    BY <1>3, Zenon DEF Places
  <2>. HIDE DEF Slots, Area
  <2>. QED
    BY <2>1
<1>. QED
  BY <1>2, <1>3, Zenon

(* Positions lists the places of a directory, each once. *)
LEMMA PositionsAre ==
    ASSUME NEW d, NEW dir, IsDir(d, dir)
    PROVE  LET pos == Positions(d, dir)
           IN  /\ pos \in Seq(Places(d, dir))
               /\ Len(pos) = IF dir = ROOT THEN ROOT_ENTRIES
                             ELSE PER_CLUSTER * Len(Chain(d, dir))
               /\ \A i, j \in 1 .. Len(pos) : pos[i] = pos[j] => i = j
               /\ \A p \in Places(d, dir) : \E i \in 1 .. Len(pos) : pos[i] = p
<1>. DEFINE pos == Positions(d, dir)
<1>1. CASE dir = ROOT
  <2>1. pos = [i \in 1 .. ROOT_ENTRIES |-> <<ROOT, i - 1>>]
    BY <1>1 DEF Positions
  <2>2. ROOT_ENTRIES \in Nat \ {0}
    BY FatAssumption
  <2>3. Slots(ROOT) = 0 .. ROOT_ENTRIES - 1 /\ Area(d, dir) = {ROOT}
    BY <1>1 DEF Slots, Area
  <2>4. \A i \in 1 .. ROOT_ENTRIES : i - 1 \in Slots(ROOT) /\ i - 1 \in Nat
    BY <2>2, <2>3
  <2>5. \A i \in 1 .. ROOT_ENTRIES : <<ROOT, i - 1>> \in Places(d, dir)
    BY <2>3, <2>4 DEF Places
  <2>. HIDE DEF pos
  <2>6. Len(pos) = ROOT_ENTRIES /\ pos \in Seq(Places(d, dir))
        /\ \A i \in 1 .. Len(pos) : pos[i] = <<ROOT, i - 1>>
    BY <2>1, <2>2, <2>5
  <2>7. \A i, j \in 1 .. Len(pos) : pos[i] = pos[j] => i = j
    BY <2>6, <2>2
  <2>8. ASSUME NEW p \in Places(d, dir) PROVE \E i \in 1 .. Len(pos) : pos[i] = p
    <3>1. p = <<p[1], p[2]>> /\ p[1] = ROOT /\ p[2] \in 0 .. ROOT_ENTRIES - 1
      BY <2>3, <2>8, PlaceIs, Zenon
    <3>2. p[2] + 1 \in 1 .. Len(pos) /\ (p[2] + 1) - 1 = p[2]
      BY <2>2, <2>6, <3>1
    <3>3. pos[p[2] + 1] = p
      BY <2>6, <3>1, <3>2
    <3>. QED
      BY <3>2, <3>3
  <2>. QED
    BY <1>1, <2>6, <2>7, <2>8 DEF pos
<1>2. CASE dir # ROOT
  <2>. DEFINE s == Chain(d, dir)
              P == PER_CLUSTER
              n == Len(s)
  <2>1. s \in Seq(Clusters) /\ n \in Nat /\ \A i, j \in 1 .. n : s[i] = s[j] => i = j
    BY <1>2 DEF IsDir, IsChain
  <2>2. P \in Nat \ {0}
    BY FatAssumption
  <2>3. Area(d, dir) = Range(s) /\ \A c \in Range(s) : c \in Clusters
    BY <1>2, <2>1, InRange DEF Area
  <2>4. \A c \in Range(s) : Slots(c) = 0 .. P - 1
    BY <2>3, Limits DEF Slots
  <2>5. \A i \in 1 .. n : s[i] \in Range(s)
    BY <2>1, InRange
  <2>6. pos = [i \in 1 .. P * n |-> <<s[(i - 1) \div P + 1], (i - 1) % P>>]
    BY <1>2 DEF Positions
  <2>. HIDE DEF s, P, pos
  <2>7. P * n \in Nat
    BY <2>1, <2>2
  <2>8. ASSUME NEW i \in 1 .. P * n
        PROVE  /\ (i - 1) \div P \in 0 .. n - 1 /\ (i - 1) % P \in 0 .. P - 1
               /\ i - 1 = P * ((i - 1) \div P) + ((i - 1) % P)
    <3>1. i - 1 \in 0 .. P * n - 1
      BY <2>7
    <3>. HIDE DEF n
    <3>. QED
      BY <2>1, <2>2, <3>1, DivModOf
  <2>9. ASSUME NEW i \in 1 .. P * n
        PROVE  <<s[(i - 1) \div P + 1], (i - 1) % P>> \in Places(d, dir)
    <3>1. (i - 1) \div P + 1 \in 1 .. n
      BY <2>1, <2>8
    <3>2. s[(i - 1) \div P + 1] \in Range(s)
      BY <2>5, <3>1
    <3>3. (i - 1) % P \in 0 .. P - 1 /\ (i - 1) % P \in Nat
      BY <2>2, <2>8
    <3>. QED
      BY <2>3, <2>4, <3>2, <3>3 DEF Places
  <2>10. Len(pos) = P * n /\ pos \in Seq(Places(d, dir))
    <3>. HIDE DEF n
    <3>. QED
      BY <2>6, <2>7, <2>9
  <2>11. ASSUME NEW i \in 1 .. P * n, NEW j \in 1 .. P * n, pos[i] = pos[j] PROVE i = j
    <3>1. /\ s[(i - 1) \div P + 1] = s[(j - 1) \div P + 1]
          /\ (i - 1) % P = (j - 1) % P
      BY <2>6, <2>11
    <3>2. (i - 1) \div P + 1 \in 1 .. n /\ (j - 1) \div P + 1 \in 1 .. n
      BY <2>1, <2>8
    <3>3. (i - 1) \div P + 1 = (j - 1) \div P + 1
      <4>. DEFINE a == (i - 1) \div P + 1
                  b == (j - 1) \div P + 1
      <4>. HIDE DEF a, b
      <4>1. a \in 1 .. n /\ b \in 1 .. n /\ s[a] = s[b]
        BY <3>1, <3>2 DEF a, b
      <4>2. a = b
        BY <2>1, <4>1
      <4>. QED
        BY <4>2 DEF a, b
    <3>4. (i - 1) \div P = (j - 1) \div P
      BY <2>8, <3>3
    <3>5. i - 1 = j - 1
      <4>. DEFINE a(x) == (x - 1) \div P
                  e(x) == (x - 1) % P
      <4>1. \A x \in 1 .. P * n : x - 1 = P * a(x) + e(x)
        BY <2>8, Zenon
      <4>2. a(i) = a(j) /\ e(i) = e(j)
        BY <3>1, <3>4
      <4>. HIDE DEF a, e
      <4>3. P * a(i) = P * a(j)
        BY <4>2
      <4>4. i - 1 = P * a(i) + e(i) /\ j - 1 = P * a(j) + e(j)
        BY <4>1, Zenon
      <4>. QED
        BY <4>2, <4>4, Zenon
    <3>. QED
      BY <3>5, <2>7
  <2>12. ASSUME NEW p \in Places(d, dir) PROVE \E i \in 1 .. P * n : pos[i] = p
    <3>1. p = <<p[1], p[2]>> /\ p[1] \in Range(s) /\ p[2] \in 0 .. P - 1
      <4>1. p = <<p[1], p[2]>> /\ p[1] \in Area(d, dir) /\ p[2] \in Slots(p[1])
        BY <2>12, PlaceIs, Zenon
      <4>2. p[1] \in Range(s)
        BY <2>3, <4>1, Zenon
      <4>3. Slots(p[1]) = 0 .. P - 1
        BY <2>4, <4>2, Zenon
      <4>. QED
        BY <4>1, <4>2, <4>3, Zenon
    <3>2. PICK k \in 1 .. n : s[k] = p[1]
      BY <2>1, <3>1, InRange
    <3>. DEFINE i == P * (k - 1) + p[2] + 1
    <3>3. k - 1 \in Nat /\ P * (k - 1) \in Nat
      BY <2>1, <2>2
    <3>4. i - 1 = P * (k - 1) + p[2] /\ i \in Nat
      BY <3>1, <3>3
    <3>5. (i - 1) \div P = k - 1 /\ (i - 1) % P = p[2]
      <4>. HIDE DEF i
      <4>. QED
        BY <2>2, <3>1, <3>3, <3>4, DivMod
    <3>6. i \in 1 .. P * n
      <4>1. P * k <= P * n
        BY <2>1, <2>2, ProductGrows
      <4>2. P * k = P * (k - 1) + P
        BY <2>1, <2>2
      <4>3. P * k \in Int
        BY <2>1, <2>2
      <4>. DEFINE x == P * (k - 1)
                  y == P * k
                  z == P * n
      <4>4. x \in Nat /\ y \in Int /\ z \in Nat /\ y <= z /\ y = x + P
            /\ i = x + p[2] + 1
        BY <2>7, <3>3, <4>1, <4>2, <4>3
      <4>. HIDE DEF x, y, z, i
      <4>5. i \in 1 .. z
        BY <4>4, <2>2, <3>1
      <4>. QED
        BY <4>5 DEF z
    <3>. HIDE DEF i
    <3>7. (i - 1) \div P + 1 = k
      BY <2>1, <3>5
    <3>8. pos[i] = <<s[(i - 1) \div P + 1], (i - 1) % P>>
      BY <2>6, <3>6
    <3>9. pos[i] = p
      BY <3>1, <3>2, <3>5, <3>7, <3>8
    <3>. QED
      BY <3>6, <3>9
  <2>. QED
    BY <1>2, <2>10, <2>11, <2>12, Zenon DEF pos, s, P
<1>. QED
  BY <1>1, <1>2

(* An entry of the disk *)
LEMMA CellEntry ==
    ASSUME NEW d, DiskShape(d), NEW p \in Cells
    PROVE  At(d, p) \in Entry /\ p = <<p[1], p[2]>> /\ p[1] \in Clusters \cup {ROOT}
           /\ p[2] \in Slots(p[1])
<1>1. p \in (Clusters \cup {ROOT}) \X Nat /\ p[2] \in Slots(p[1])
  BY DEF Cells
<1>2. p[1] \in Clusters \cup {ROOT} /\ p = <<p[1], p[2]>>
  BY <1>1
<1>3. d.items[p[1]] \in [Slots(p[1]) -> Entry]
  BY <1>2 DEF DiskShape
<1>. QED
  BY <1>1, <1>2, <1>3 DEF At

LEMMA StoredIs ==
    ASSUME NEW d, DiskShape(d), NEW dir, IsDir(d, dir)
    PROVE  LET s == Stored(d, dir)
               pos == Positions(d, dir)
           IN  /\ s \in Seq(Entry) /\ Len(s) = Len(pos) /\ Len(s) \in Nat
               /\ \A i \in 1 .. Len(s) : s[i] = At(d, pos[i]) /\ pos[i] \in Places(d, dir)
                                         /\ pos[i] \in Cells
<1>. DEFINE s == Stored(d, dir)
            pos == Positions(d, dir)
<1>1. pos \in Seq(Places(d, dir))
  BY PositionsAre, Zenon
<1>. HIDE DEF pos
<1>2. Len(pos) \in Nat /\ DOMAIN pos = 1 .. Len(pos)
      /\ \A i \in 1 .. Len(pos) : pos[i] \in Places(d, dir)
  BY <1>1
<1>3. \A i \in 1 .. Len(pos) : pos[i] \in Cells
  BY <1>2, PlacesAreCells
<1>4. \A i \in 1 .. Len(pos) : At(d, pos[i]) \in Entry
  BY <1>3, CellEntry
<1>5. s = [i \in 1 .. Len(pos) |-> At(d, pos[i])]
  BY <1>2 DEF Stored, pos
<1>. HIDE DEF s
<1>6. s \in Seq(Entry) /\ Len(s) = Len(pos) /\ \A i \in 1 .. Len(pos) : s[i] = At(d, pos[i])
  BY <1>2, <1>4, <1>5
<1>. QED
  BY <1>2, <1>3, <1>6 DEF s, pos

(* The places of items in a directory *)
LEMMA RefsAre ==
    ASSUME NEW d, DiskShape(d), NEW dir, IsDir(d, dir)
    PROVE  LET s == Stored(d, dir)
               pos == Positions(d, dir)
           IN  /\ \A i \in 1 .. Len(s) : IsItem(s[i]) => pos[i] \in Refs(d, dir)
               /\ \A p \in Refs(d, dir) :
                    \E i \in 1 .. Len(s) : pos[i] = p /\ s[i] = At(d, p) /\ IsItem(s[i])
<1>. DEFINE s == Stored(d, dir)
            pos == Positions(d, dir)
<1>1. /\ Len(s) = Len(pos)
      /\ \A i \in 1 .. Len(s) : s[i] = At(d, pos[i]) /\ pos[i] \in Places(d, dir)
  BY StoredIs, Zenon
<1>2. \A p \in Places(d, dir) : \E i \in 1 .. Len(pos) : pos[i] = p
  BY PositionsAre
<1>. HIDE DEF s, pos
<1>3. \A i \in 1 .. Len(s) : IsItem(s[i]) => pos[i] \in Refs(d, dir)
  BY <1>1, Zenon DEF Refs
<1>4. \A p \in Refs(d, dir) :
        \E i \in 1 .. Len(s) : pos[i] = p /\ s[i] = At(d, p) /\ IsItem(s[i])
  <2>1. SUFFICES ASSUME NEW p \in Refs(d, dir)
                 PROVE  \E i \in 1 .. Len(s) : pos[i] = p /\ s[i] = At(d, p) /\ IsItem(s[i])
    OBVIOUS
  <2>2. p \in Places(d, dir) /\ IsItem(At(d, p))
    BY DEF Refs
  <2>3. PICK i \in 1 .. Len(pos) : pos[i] = p
    BY <1>2, <2>2
  <2>. QED
    BY <1>1, <2>2, <2>3
<1>. QED
  BY <1>3, <1>4 DEF s, pos

(* Entries are those before the first end marker. *)
LEMMA EntriesAre ==
    ASSUME NEW d, DiskShape(d), NEW dir, IsDir(d, dir)
    PROVE  LET s == Stored(d, dir)
               es == Entries(d, dir)
           IN  /\ es \in Seq(Entry) /\ Len(es) \in 0 .. Len(s) /\ DOMAIN es = 1 .. Len(es)
               /\ \A i \in 1 .. Len(es) : es[i] = s[i] /\ s[i] # End
               /\ Len(es) < Len(s) => s[Len(es) + 1] = End
<1>. DEFINE s == Stored(d, dir)
            es == Entries(d, dir)
            I == {i \in 1 .. Len(s) : s[i] = End}
            n == IF I # {} THEN Min(I) ELSE 0
            m == IF n = 0 THEN Len(s) ELSE n - 1
<1>1. es = SubSeq(s, 1, m)
  BY DEF Entries, Stored, At, Before, SelectInSeq
<1>2. s \in Seq(Entry) /\ Len(s) \in Nat
  BY StoredIs, Zenon
<1>. HIDE DEF s, es
<1>3. I \in SUBSET Nat /\ (I # {} => Min(I) \in I /\ \A i \in I : Min(I) <= i)
  <2>1. I \in SUBSET Nat
    BY <1>2
  <2>. HIDE DEF I
  <2>. QED
    BY <2>1, MinIn
<1>4. m \in 0 .. Len(s) /\ (\A i \in 1 .. m : s[i] # End) /\ (m < Len(s) => s[m + 1] = End)
  <2>1. CASE I = {}
    <3>1. m = Len(s)
      BY <2>1
    <3>. HIDE DEF m
    <3>. QED
      BY <2>1, <3>1, <1>2
  <2>2. CASE I # {}
    <3>1. n \in 1 .. Len(s) /\ s[n] = End /\ \A i \in I : n <= i
      BY <1>3, <2>2
    <3>2. m = n - 1
      BY <3>1
    <3>. HIDE DEF n, m
    <3>3. m \in 0 .. Len(s) /\ m + 1 = n
      BY <3>1, <3>2, <1>2
    <3>4. \A i \in 1 .. m : i \in 1 .. Len(s) /\ ~ (n <= i)
      BY <3>1, <3>2, <1>2
    <3>. QED
      BY <3>1, <3>3, <3>4
  <2>. QED
    BY <2>1, <2>2
<1>. HIDE DEF m
<1>5. es \in Seq(Entry) /\ Len(es) = m /\ \A i \in 1 .. Len(es) : es[i] = s[i]
  <2>1. m \in Int /\ m <= Len(s)
    BY <1>2, <1>4
  <2>2. /\ SubSeq(s, 1, m) \in Seq(Entry)
        /\ Len(SubSeq(s, 1, m)) = (IF 1 <= m THEN m ELSE 0)
        /\ \A i \in 1 .. Len(SubSeq(s, 1, m)) :
                i \in 1 .. Len(s) /\ SubSeq(s, 1, m)[i] = s[i]
    BY <1>2, <2>1, FirstOf
  <2>3. (IF 1 <= m THEN m ELSE 0) = m
    BY <1>4
  <2>. QED
    BY <1>1, <2>2, <2>3
<1>6. DOMAIN es = 1 .. Len(es)
  BY <1>5
<1>. QED
  BY <1>4, <1>5, <1>6 DEF s, es

(* With one row of end markers, the items of a directory are among them,   *)
(* and have the same names.                                                *)
LEMMA EntriesAll ==
    ASSUME NEW d, DiskShape(d), NEW dir, IsDir(d, dir), EndsOnce(Stored(d, dir))
    PROVE  LET s == Stored(d, dir)
               es == Entries(d, dir)
           IN  /\ \A i \in 1 .. Len(s) : i \in 1 .. Len(es) \/ s[i] = End
               /\ \A i \in 1 .. Len(es) :
                    /\ fat16_lfn_count(es, i) = fat16_lfn_count(s, i)
                    /\ fat16_get_item_name(es, i) = fat16_get_item_name(s, i)
                    /\ NamesOf(es, i) = NamesOf(s, i)
<1>. DEFINE s == Stored(d, dir)
            es == Entries(d, dir)
<1>1. /\ es \in Seq(Entry) /\ Len(es) \in 0 .. Len(s)
      /\ \A i \in 1 .. Len(es) : es[i] = s[i] /\ s[i] # End
      /\ Len(es) < Len(s) => s[Len(es) + 1] = End
  BY EntriesAre, Zenon
<1>2. s \in Seq(Entry) /\ Len(s) \in Nat
  BY StoredIs, Zenon
<1>0. EndsOnce(s)
  OBVIOUS
<1>. HIDE DEF s, es
<1>3. ASSUME NEW i \in 1 .. Len(s), i \notin 1 .. Len(es) PROVE s[i] = End
  <2>1. Len(es) + 1 \in 1 .. Len(s) /\ s[Len(es) + 1] = End /\ Len(es) + 1 <= i
    BY <1>1, <1>2, <1>3
  <2>2. CASE i = Len(es) + 1
    BY <2>1, <2>2
  <2>3. CASE i > Len(es) + 1
    BY <1>0, <2>1, <2>3 DEF EndsOnce
  <2>. QED
    BY <1>1, <2>1, <2>2, <2>3
<1>4. ASSUME NEW i \in 1 .. Len(es)
      PROVE  /\ fat16_lfn_count(es, i) = fat16_lfn_count(s, i)
             /\ fat16_get_item_name(es, i) = fat16_get_item_name(s, i)
             /\ es[i] = s[i]
  <2>1. i \in Nat \ {0} /\ 0 \in 0 .. i - 1 /\ \A k \in 0 + 1 .. i - 1 : es[k] = s[k]
    BY <1>1
  <2>2. es[i].short = s[i].short
    BY <1>1
  <2>3. fat16_lfn_count(es, i) = fat16_lfn_count(s, i)
    BY <2>1, <2>2, CountKept
  <2>4. fat16_lfn_count(es, i) \in 0 .. i - 1
    BY <2>1, CountIs, Zenon
  <2>5. fat16_lfn_count(es, i) # 0 => i - 1 \in 0 + 1 .. i - 1
    BY <2>1, <2>4
  <2>6. fat16_get_item_name(es, i) = fat16_get_item_name(s, i)
    BY <2>1, <2>2, <2>3, <2>5, NameKept
  <2>. QED
    BY <2>3, <2>6, <1>1
<1>5. \A i \in 1 .. Len(es) : NamesOf(es, i) = NamesOf(s, i)
  BY <1>4 DEF NamesOf
<1>. QED
  BY <1>3, <1>4, <1>5 DEF s, es

(* The item called name is one of the entries; names that are looked for   *)
(* in vain are new, also the alias that is made for one.                   *)
LEMMA FoundIs ==
    ASSUME NEW d, DiskShape(d), NEW dir, IsDir(d, dir), EndsOnce(Stored(d, dir)), NEW name
    PROVE  LET s == Stored(d, dir)
               i == fat16_find_index(Entries(d, dir), name)
           IN  /\ i # 0 => i \in 1 .. Len(Entries(d, dir)) /\ i \in 1 .. Len(s) /\ IsItem(s[i])
               /\ i = 0 => \A k \in 1 .. Len(s) : IsItem(s[k]) => Fold(name) \notin NamesOf(s, k)
<1>. DEFINE s == Stored(d, dir)
            es == Entries(d, dir)
            i == fat16_find_index(es, name)
            called == {k \in DOMAIN es : IsItem(es[k]) /\ Fold(name) \in NamesOf(es, k)}
<1>1. i = IF called = {} THEN 0 ELSE Min(called)
  BY DEF fat16_find_index
<1>2. /\ Len(es) \in 0 .. Len(s) /\ DOMAIN es = 1 .. Len(es)
      /\ \A k \in 1 .. Len(es) : es[k] = s[k]
  BY EntriesAre, Zenon
<1>3. /\ \A k \in 1 .. Len(s) : k \in 1 .. Len(es) \/ s[k] = End
      /\ \A k \in 1 .. Len(es) : NamesOf(es, k) = NamesOf(s, k)
  BY EntriesAll, Zenon
<1>4. Len(s) \in Nat
  BY StoredIs, Zenon
<1>. HIDE DEF s, es, i
<1>5. called \in SUBSET Nat
  BY <1>2, <1>4
<1>6. called # {} => Min(called) \in called
  <2>. HIDE DEF called
  <2>. QED
    BY <1>5, MinIn
<1>7. ASSUME i # 0 PROVE i \in 1 .. Len(es) /\ i \in 1 .. Len(s) /\ IsItem(s[i])
  <2>1. i \in called
    <3>. HIDE DEF called
    <3>. QED
      BY <1>1, <1>6, <1>7
  <2>2. i \in 1 .. Len(es) /\ IsItem(es[i])
    BY <1>2, <2>1
  <2>. QED
    BY <2>2, <1>2, <1>4
<1>8. ASSUME i = 0, NEW k \in 1 .. Len(s), IsItem(s[k]) PROVE Fold(name) \notin NamesOf(s, k)
  <2>1. called = {}
    <3>1. 0 \notin called
      BY <1>2
    <3>. HIDE DEF called
    <3>. QED
      BY <1>1, <1>6, <1>8, <3>1
  <2>2. k \in 1 .. Len(es)
    BY <1>3, <1>8, Kinds
  <2>. QED
    BY <1>2, <1>3, <1>8, <2>1, <2>2
<1>. QED
  BY <1>7, <1>8 DEF i, s, es

LEMMA NewNamesAre ==
    ASSUME NEW d, DiskShape(d), NEW dir, IsDir(d, dir), EndsOnce(Stored(d, dir)),
           NEW name \in Names, fat16_find_index(Entries(d, dir), name) = 0,
           ShortName(Entries(d, dir), name) # NoName
    PROVE  LET short == ShortName(Entries(d, dir), name)
           IN  short \in ShortNames /\ NewNames(Stored(d, dir), name, short)
<1>. DEFINE s == Stored(d, dir)
            es == Entries(d, dir)
            short == ShortName(es, name)
<1>1. \A k \in 1 .. Len(s) : IsItem(s[k]) => Fold(name) \notin NamesOf(s, k)
  BY FoundIs
<1>2. CASE name \in Fits
  <2>1. short = Fold(name) /\ short \in ShortNames
    BY <1>2 DEF ShortName, ShortNames
  <2>2. \A k \in 1 .. Len(s) : IsItem(s[k]) => short # s[k].short
    <3>. HIDE DEF short, s, es
    <3>. QED
      BY <1>1, <2>1 DEF NamesOf
  <2>. HIDE DEF short, s, es
  <2>3. NewNames(s, name, short)
    BY <1>1, <2>1, <2>2 DEF NewNames
  <2>. QED
    BY <2>1, <2>3 DEF s, es, short
<1>3. CASE name \notin Fits
  <2>. DEFINE taken(x) == \E i \in DOMAIN es : IsItem(es[i]) /\ es[i].short = x
              free == {i \in DOMAIN Aliases(name) : ~ taken(Aliases(name)[i])}
  <2>1. free # {} /\ short = Aliases(name)[Min(free)]
    BY <1>3 DEF ShortName
  <2>2. name \in Long /\ Aliases(name) \in Seq(Range(Aliases(name)))
    BY <1>3, FatAssumption DEF Names
  <2>3. free \in SUBSET Nat
    <3>1. DOMAIN Aliases(name) \subseteq Nat
      BY <2>2
    <3>. HIDE DEF taken
    <3>. QED
      BY <3>1
  <2>4. Min(free) \in free
    <3>. HIDE DEF free
    <3>. QED
      BY <2>1, <2>3, MinIn
  <2>5. Min(free) \in DOMAIN Aliases(name) /\ ~ taken(short)
    <3>. HIDE DEF taken, short, es
    <3>. QED
      BY <2>1, <2>4
  <2>6. short \in ShortNames
    <3>1. short \in Range(Aliases(name))
      <4>. HIDE DEF short, free, taken
      <4>. QED
        BY <2>1, <2>5, Zenon DEF Range
    <3>. HIDE DEF short
    <3>. QED
      BY <2>2, <3>1 DEF ShortNames
  <2>7. /\ DOMAIN es = 1 .. Len(es)
        /\ \A k \in 1 .. Len(es) : es[k] = s[k]
    BY EntriesAre, Zenon
  <2>8. \A k \in 1 .. Len(s) : k \in 1 .. Len(es) \/ s[k] = End
    BY EntriesAll, Zenon
  <2>9. \A k \in 1 .. Len(s) : IsItem(s[k]) => short # s[k].short
    <3>. HIDE DEF short, s, es
    <3>. QED
      BY <2>5, <2>7, <2>8, Kinds
  <2>. HIDE DEF short, s, es
  <2>10. NewNames(s, name, short)
    BY <1>1, <1>3, <2>9 DEF NewNames
  <2>. QED
    BY <2>6, <2>10 DEF s, es, short
<1>. QED
  BY <1>2, <1>3

-----------------------------------------------------------------------------
(* Writing directory items                                                 *)

(* e is d with the entries es at the places pos. *)
Wrote(d, e, pos, es) ==
    /\ DiskShape(e) /\ e.fat = d.fat /\ e.bytes = d.bytes /\ e.next_free = d.next_free
    /\ \A p \in Cells : p \notin Range(pos) => At(e, p) = At(d, p)
    /\ \A i \in 1 .. Len(pos) : At(e, pos[i]) = es[i]

LEMMA WriteIs ==
    ASSUME NEW d, DiskShape(d), NEW pos \in Seq(Cells),
           \A i, j \in 1 .. Len(pos) : pos[i] = pos[j] => i = j,
           NEW es, \A i \in 1 .. Len(pos) : es[i] \in Entry
    PROVE  Wrote(d, fat16_write_dir_entry(d, pos, es), pos, es)
<1>. DEFINE at(c, k) == {i \in DOMAIN pos : pos[i] = <<c, k>>}
            new(c, k) == IF at(c, k) = {} THEN d.items[c][k]
                         ELSE es[CHOOSE i \in at(c, k) : TRUE]
            items == [c \in DOMAIN d.items |-> [k \in DOMAIN d.items[c] |-> new(c, k)]]
            e == fat16_write_dir_entry(d, pos, es)
<1>1. e = [d EXCEPT !.items = items]
  BY DEF fat16_write_dir_entry
<1>2. /\ d = [fat |-> d.fat, items |-> d.items, bytes |-> d.bytes, next_free |-> d.next_free]
      /\ d.fat = [c \in Clusters |-> d.fat[c]]
      /\ DOMAIN d.items = Clusters \cup {ROOT}
      /\ \A c \in Clusters \cup {ROOT} : d.items[c] \in [Slots(c) -> Entry]
  BY DEF DiskShape
<1>3. DOMAIN pos = 1 .. Len(pos) /\ Len(pos) \in Nat
  OBVIOUS
<1>. HIDE DEF e, items
<1>4. /\ e = [fat |-> d.fat, items |-> items, bytes |-> d.bytes, next_free |-> d.next_free]
      /\ e.fat = d.fat /\ e.items = items /\ e.bytes = d.bytes /\ e.next_free = d.next_free
  BY <1>1, <1>2
<1>5. \A c \in Clusters \cup {ROOT} : \A k \in Slots(c) : new(c, k) \in Entry
  <2>1. SUFFICES ASSUME NEW c \in Clusters \cup {ROOT}, NEW k \in Slots(c)
                 PROVE  new(c, k) \in Entry
    OBVIOUS
  <2>2. d.items[c][k] \in Entry
    BY <1>2
  <2>3. at(c, k) # {} => (CHOOSE i \in at(c, k) : TRUE) \in 1 .. Len(pos)
    BY <1>3
  <2>. HIDE DEF at
  <2>. QED
    BY <2>2, <2>3
<1>6. \A c \in Clusters \cup {ROOT} : items[c] = [k \in Slots(c) |-> new(c, k)]
  <2>1. \A c \in Clusters \cup {ROOT} : DOMAIN d.items[c] = Slots(c)
    BY <1>2
  <2>. HIDE DEF new
  <2>. QED
    BY <1>2, <2>1 DEF items
<1>7. DiskShape(e)
  <2>1. e.items = [c \in Clusters \cup {ROOT} |-> e.items[c]]
    <3>. HIDE DEF new
    <3>1. DOMAIN items = Clusters \cup {ROOT} /\ items = [c \in DOMAIN items |-> items[c]]
      BY <1>2 DEF items
    <3>. QED
      BY <1>4, <3>1
  <2>2. \A c \in Clusters \cup {ROOT} : e.items[c] \in [Slots(c) -> Entry]
    <3>. HIDE DEF new
    <3>. QED
      BY <1>4, <1>5, <1>6, ZenonT(40)
  <2>3. e.fat = [c \in Clusters |-> e.fat[c]]
    BY <1>2, <1>4, Zenon
  <2>4. e = [fat |-> e.fat, items |-> e.items, bytes |-> e.bytes, next_free |-> e.next_free]
    BY <1>4, Zenon
  <2>. QED
    BY <2>1, <2>2, <2>3, <2>4, Zenon DEF DiskShape
<1>8. ASSUME NEW p \in Cells PROVE At(e, p) = new(p[1], p[2]) /\ p = <<p[1], p[2]>>
  <2>1. p[1] \in Clusters \cup {ROOT} /\ p[2] \in Slots(p[1]) /\ p = <<p[1], p[2]>>
    BY CellEntry, Zenon
  <2>. HIDE DEF new
  <2>. QED
    BY <2>1, <1>4, <1>6 DEF At
<1>9. ASSUME NEW p \in Cells, p \notin Range(pos) PROVE At(e, p) = At(d, p)
  <2>1. at(p[1], p[2]) = {}
    <3>1. \A i \in 1 .. Len(pos) : pos[i] \in Range(pos)
      BY InRange
    <3>2. p = <<p[1], p[2]>>
      BY <1>8, Zenon
    <3>3. \A i \in 1 .. Len(pos) : pos[i] # <<p[1], p[2]>>
      BY <1>9, <3>1, <3>2, Zenon
    <3>. HIDE DEF new
    <3>. QED
      BY <1>3, <3>3
  <2>. HIDE DEF at
  <2>. QED
    BY <2>1, <1>8 DEF At
<1>10. ASSUME NEW i \in 1 .. Len(pos) PROVE At(e, pos[i]) = es[i]
  <2>1. pos[i] \in Cells
    OBVIOUS
  <2>2. at(pos[i][1], pos[i][2]) = {i}
    <3>1. pos[i] = <<pos[i][1], pos[i][2]>>
      BY <1>8, <2>1, Zenon
    <3>. DEFINE c == pos[i][1]
                k == pos[i][2]
    <3>2. pos[i] = <<c, k>>
      BY <3>1, Zenon
    <3>. HIDE DEF c, k, new
    <3>3. \A j \in 1 .. Len(pos) : pos[j] = <<c, k>> <=> j = i
      BY <3>2, Zenon
    <3>4. at(c, k) = {i}
      BY <1>3, <3>3
    <3>. QED
      BY <3>4, Zenon DEF c, k
  <2>3. (CHOOSE j \in {i} : TRUE) = i
    OBVIOUS
  <2>. HIDE DEF at
  <2>. QED
    BY <1>8, <2>1, <2>2, <2>3
<1>. QED
  BY <1>4, <1>7, <1>9, <1>10 DEF Wrote, e

-----------------------------------------------------------------------------
(* The tree of files and directories                                       *)

(* The directories that paths lead through, the places of the items in     *)
(* them and the clusters each has                                          *)
Tops(d) == {ROOT} \cup {At(d, p).first : p \in {q \in Refs(d, ROOT) : At(d, q).kind = "dir"}}
AllRefs(d) == UNION {Refs(d, dir) : dir \in Tops(d)}
HasChain(d, first) == IsChain(d, first, Chain(d, first))
Own(d, p) == Range(Chain(d, At(d, p).first))

(***************************************************************************)
(* The disk is sound but for the clusters of X, which are in use and       *)
(* belong to no item: every item has a chain that ends, a directory at     *)
(* least one cluster, no cluster belongs to two items, and every other     *)
(* cluster in use to one, and the directories keep to their rules.         *)
(***************************************************************************)
Chained(d) ==
    \A p \in AllRefs(d) :
        HasChain(d, At(d, p).first) /\ (At(d, p).kind = "dir" => At(d, p).first \in Clusters)
Apart(d) == \A p, q \in AllRefs(d) : p # q => Own(d, p) \cap Own(d, q) = {}
Spare(d, X) ==
    /\ X \subseteq Clusters /\ \A c \in X : d.fat[c] # UNUSED
    /\ \A p \in AllRefs(d) : Own(d, p) \cap X = {}
Owned(d, X) ==
    \A c \in Clusters : d.fat[c] # UNUSED => c \in X \/ \E p \in AllRefs(d) : c \in Own(d, p)
DirsGood(d) == \A dir \in Tops(d) : GoodDir(Stored(d, dir))
Sound(d, X) ==
    DiskShape(d) /\ Chained(d) /\ Apart(d) /\ Spare(d, X) /\ Owned(d, X) /\ DirsGood(d)

LEMMA RefIs ==
    ASSUME NEW d, DiskShape(d), NEW dir, IsDir(d, dir), NEW p \in Refs(d, dir)
    PROVE  /\ p \in Cells /\ p \in Places(d, dir) /\ p[1] \in Area(d, dir)
           /\ IsItem(At(d, p)) /\ At(d, p) \in Items
<1>1. p \in Places(d, dir) /\ IsItem(At(d, p))
  BY DEF Refs
<1>2. p \in Cells
  BY <1>1, PlacesAreCells
<1>3. At(d, p) \in Entry
  BY <1>2, CellEntry
<1>4. p[1] \in Area(d, dir)
  BY <1>1, PlaceIs, Zenon
<1>. QED
  BY <1>1, <1>2, <1>3, <1>4, Kinds

LEMMA RootIsDir == ASSUME NEW d PROVE IsDir(d, ROOT) /\ ROOT \in Tops(d) /\ Area(d, ROOT) = {ROOT}
<1>1. IsDir(d, ROOT)
  BY DEF IsDir
<1>2. ROOT \in Tops(d)
  BY DEF Tops
<1>3. Area(d, ROOT) = {ROOT}
  BY DEF Area
<1>. QED
  BY <1>1, <1>2, <1>3

LEMMA RefsIn ==
    ASSUME NEW d, NEW dir \in Tops(d)
    PROVE  Refs(d, dir) \subseteq AllRefs(d)
  BY DEF AllRefs

(* The directories of a sound disk are the root and what an item in it     *)
(* stands for.                                                             *)
LEMMA TopIs ==
    ASSUME NEW d, DiskShape(d), Chained(d), NEW dir \in Tops(d)
    PROVE  /\ IsDir(d, dir)
           /\ dir # ROOT => \E p \in Refs(d, ROOT) :
                /\ p \in AllRefs(d) /\ At(d, p).kind = "dir" /\ At(d, p).first = dir
                /\ dir \in Clusters /\ Own(d, p) = Area(d, dir) /\ HasChain(d, dir)
<1>1. CASE dir = ROOT
  BY <1>1, RootIsDir
<1>2. CASE dir # ROOT
  <2>1. PICK p \in Refs(d, ROOT) : At(d, p).kind = "dir" /\ At(d, p).first = dir
    BY <1>2 DEF Tops
  <2>2. p \in AllRefs(d)
    BY RootIsDir, RefsIn
  <2>3. HasChain(d, dir) /\ dir \in Clusters
    BY <2>1, <2>2 DEF Chained
  <2>4. Own(d, p) = Area(d, dir)
    BY <1>2, <2>1 DEF Own, Area
  <2>5. IsDir(d, dir)
    BY <2>3 DEF IsDir, HasChain
  <2>. QED
    BY <2>1, <2>2, <2>3, <2>4, <2>5
<1>. QED
  BY <1>1, <1>2

(* An item is in one directory. *)
LEMMA AllRefIs ==
    ASSUME NEW d, DiskShape(d), Chained(d), NEW p \in AllRefs(d)
    PROVE  /\ p \in Cells /\ At(d, p) \in Items
           /\ \E dir \in Tops(d) : p \in Refs(d, dir) /\ IsDir(d, dir)
<1>1. PICK dir \in Tops(d) : p \in Refs(d, dir)
  BY DEF AllRefs
<1>2. IsDir(d, dir)
  BY TopIs
<1>. QED
  BY <1>1, <1>2, RefIs

LEMMA OwnIs ==
    ASSUME NEW d, Chained(d), NEW p \in AllRefs(d)
    PROVE  /\ Own(d, p) \subseteq Clusters /\ \A c \in Own(d, p) : d.fat[c] # UNUSED
           /\ At(d, p).first \in Clusters => At(d, p).first \in Own(d, p)
           /\ At(d, p).first \notin Clusters => Own(d, p) = {}
<1>. DEFINE first == At(d, p).first
            s == Chain(d, first)
<1>1. IsChain(d, first, s)
  BY DEF Chained, HasChain
<1>2. s \in Seq(Clusters)
  BY <1>1 DEF IsChain
<1>3. Own(d, p) = Range(s)
  BY DEF Own
<1>. HIDE DEF s, first
<1>4. Own(d, p) \subseteq Clusters
  BY <1>2, <1>3, InRange
<1>5. \A c \in Own(d, p) : d.fat[c] # UNUSED
  BY <1>1, <1>3, ChainUsed
<1>6. first \in Clusters => first \in Own(d, p)
  <2>1. SUFFICES ASSUME first \in Clusters PROVE first \in Own(d, p)
    OBVIOUS
  <2>2. s # <<>> /\ s[1] = first
    BY <1>1, <2>1 DEF IsChain
  <2>3. 1 \in 1 .. Len(s)
    BY <1>2, <2>2
  <2>. QED
    BY <1>2, <1>3, <2>2, <2>3, InRange
<1>7. first \notin Clusters => Own(d, p) = {}
  <2>1. SUFFICES ASSUME first \notin Clusters PROVE Own(d, p) = {}
    OBVIOUS
  <2>2. s = <<>>
    BY <1>1, <2>1 DEF IsChain
  <2>3. 1 .. Len(s) = {}
    BY <2>2
  <2>4. \A x : x \notin Range(s)
    BY <1>2, <2>3, InRange
  <2>. QED
    BY <1>3, <2>4
<1>. QED
  BY <1>4, <1>5, <1>6, <1>7 DEF first

(* Different directories have no cluster in common. *)
LEMMA AreasApart ==
    ASSUME NEW d, DiskShape(d), Chained(d), Apart(d),
           NEW x \in Tops(d), NEW y \in Tops(d), x # y
    PROVE  Area(d, x) \cap Area(d, y) = {}
<1>1. ASSUME NEW z \in Tops(d), z # ROOT PROVE ROOT \notin Area(d, z)
  <2>1. PICK p \in AllRefs(d) : Own(d, p) = Area(d, z)
    BY <1>1, TopIs
  <2>2. Own(d, p) \subseteq Clusters
    BY OwnIs
  <2>. QED
    BY <2>1, <2>2, Limits
<1>2. CASE x = ROOT
  BY <1>1, <1>2, RootIsDir
<1>3. CASE y = ROOT
  BY <1>1, <1>3, RootIsDir
<1>4. CASE x # ROOT /\ y # ROOT
  <2>1. PICK p \in AllRefs(d) : Own(d, p) = Area(d, x) /\ At(d, p).first = x
    BY <1>4, TopIs
  <2>2. PICK q \in AllRefs(d) : Own(d, q) = Area(d, y) /\ At(d, q).first = y
    BY <1>4, TopIs
  <2>. QED
    BY <2>1, <2>2 DEF Apart
<1>. QED
  BY <1>2, <1>3, <1>4

LEMMA PlacesApart ==
    ASSUME NEW d, DiskShape(d), Chained(d), Apart(d),
           NEW x \in Tops(d), NEW y \in Tops(d), x # y
    PROVE  Places(d, x) \cap Places(d, y) = {}
  BY AreasApart, PlaceIs

(* A cluster of a directory is the root or in use. *)
LEMMA AreaUsed ==
    ASSUME NEW d, DiskShape(d), Chained(d), NEW dir \in Tops(d), NEW c \in Area(d, dir)
    PROVE  c = ROOT \/ (c \in Clusters /\ d.fat[c] # UNUSED)
<1>1. CASE dir = ROOT
  BY <1>1, RootIsDir
<1>2. CASE dir # ROOT
  <2>1. PICK p \in AllRefs(d) : Own(d, p) = Area(d, dir)
    BY <1>2, TopIs
  <2>. QED
    BY <2>1, OwnIs
<1>. QED
  BY <1>1, <1>2

(* The places of a directory that grows are those it had, and behind them  *)
(* those of its new clusters.                                              *)
LEMMA PositionsGrow ==
    ASSUME NEW d, NEW e, NEW dir, dir # ROOT, IsDir(d, dir), IsDir(e, dir),
           Len(Chain(d, dir)) <= Len(Chain(e, dir)),
           \A i \in 1 .. Len(Chain(d, dir)) : Chain(e, dir)[i] = Chain(d, dir)[i]
    PROVE  LET m == Len(Positions(d, dir))
               n == Len(Positions(e, dir))
           IN  /\ m <= n /\ m \in Nat /\ n \in Nat
               /\ \A i \in 1 .. m : Positions(e, dir)[i] = Positions(d, dir)[i]
               /\ \A i \in m + 1 .. n : Positions(e, dir)[i][1] \notin Area(d, dir)
<1>. DEFINE s == Chain(d, dir)
            t == Chain(e, dir)
            P == PER_CLUSTER
            x == Positions(d, dir)
            y == Positions(e, dir)
<1>1. /\ s \in Seq(Clusters) /\ t \in Seq(Clusters) /\ Len(s) <= Len(t)
      /\ Len(s) \in Nat /\ Len(t) \in Nat
      /\ \A i \in 1 .. Len(s) : t[i] = s[i]
      /\ \A i, j \in 1 .. Len(t) : t[i] = t[j] => i = j
  BY DEF IsDir, IsChain
<1>2. P \in Nat \ {0}
  BY FatAssumption
<1>3. /\ x = [i \in 1 .. P * Len(s) |-> <<s[(i - 1) \div P + 1], (i - 1) % P>>]
      /\ y = [i \in 1 .. P * Len(t) |-> <<t[(i - 1) \div P + 1], (i - 1) % P>>]
  BY DEF Positions
<1>4. Len(x) = P * Len(s) /\ Len(y) = P * Len(t)
  BY PositionsAre, Zenon
<1>5. Area(d, dir) = Range(s)
  BY DEF Area
<1>. HIDE DEF s, t, P, x, y
<1>. DEFINE m == P * Len(s)
            n == P * Len(t)
<1>6. m \in Nat /\ n \in Nat /\ m <= n
  BY <1>1, <1>2, ProductGrows
<1>7. ASSUME NEW i \in 1 .. n
      PROVE  (i - 1) \div P \in 0 .. Len(t) - 1 /\ (i <= m => (i - 1) \div P \in 0 .. Len(s) - 1)
             /\ i - 1 = P * ((i - 1) \div P) + ((i - 1) % P) /\ (i - 1) % P \in 0 .. P - 1
  <2>1. i - 1 \in 0 .. P * Len(t) - 1 /\ i - 1 \in Nat
    BY <1>6
  <2>2. (i - 1) \div P \in 0 .. Len(t) - 1
    BY <1>1, <1>2, <2>1, DivModOf
  <2>3. i <= m => i - 1 \in 0 .. P * Len(s) - 1
    BY <1>6
  <2>4. i <= m => (i - 1) \div P \in 0 .. Len(s) - 1
    BY <1>1, <1>2, <2>3, DivModOf
  <2>5. i - 1 = P * ((i - 1) \div P) + ((i - 1) % P) /\ (i - 1) % P \in 0 .. P - 1
    BY <1>2, <2>1, DivModIs
  <2>. QED
    BY <2>2, <2>4, <2>5
<1>8. ASSUME NEW i \in 1 .. m PROVE y[i] = x[i]
  <2>1. i \in 1 .. n /\ i <= m
    BY <1>6
  <2>2. (i - 1) \div P + 1 \in 1 .. Len(s)
    BY <1>1, <1>7, <2>1
  <2>3. t[(i - 1) \div P + 1] = s[(i - 1) \div P + 1]
    BY <1>1, <2>2
  <2>. QED
    BY <1>3, <2>1, <2>3
<1>9. ASSUME NEW i \in m + 1 .. n PROVE y[i][1] \notin Range(s)
  <2>. DEFINE k == (i - 1) \div P + 1
              r == (i - 1) % P
  <2>1. i \in 1 .. n /\ i > m /\ i \in Int
    BY <1>6
  <2>2. k \in 1 .. Len(t) /\ i - 1 = P * (k - 1) + r /\ r \in 0 .. P - 1
    <3>1. (i - 1) \div P \in 0 .. Len(t) - 1
      BY <1>7, <2>1
    <3>2. i - 1 = P * ((i - 1) \div P) + r /\ r \in 0 .. P - 1
      BY <1>7, <2>1
    <3>3. k - 1 = (i - 1) \div P
      BY <3>1, <1>1
    <3>4. k \in 1 .. Len(t)
      BY <3>1, <1>1
    <3>. HIDE DEF k, r
    <3>. QED
      BY <3>2, <3>3, <3>4
  <2>3. y[i] = <<t[k], r>>
    BY <1>3, <2>1
  <2>. HIDE DEF k, r
  <2>4. k > Len(s)
    <3>1. SUFFICES ASSUME k <= Len(s) PROVE FALSE
      BY <1>1, <2>2
    <3>a. P \in Nat /\ k \in Int /\ Len(s) \in Int
      BY <1>1, <1>2, <2>2
    <3>2. P * k <= P * Len(s)
      BY <3>a, <3>1, ProductGrows
    <3>3. P * k = P * (k - 1) + P /\ P * k \in Int /\ P * (k - 1) \in Int
      BY <1>2, <2>2
    <3>. QED
      BY <1>2, <1>6, <2>1, <2>2, <3>2, <3>3
  <2>5. \A j \in 1 .. Len(s) : s[j] # t[k]
    <3>1. \A j \in 1 .. Len(s) : j \in 1 .. Len(t) /\ j # k
      BY <1>1, <2>2, <2>4
    <3>. QED
      BY <1>1, <2>2, <3>1
  <2>. QED
    BY <1>1, <2>3, <2>5, InRange
<1>. QED
  BY <1>4, <1>5, <1>6, <1>8, <1>9 DEF x, y

(***************************************************************************)
(* A chain grows by clusters that were free: that of an item, or one that  *)
(* is new.  Items and names stay, and a directory that grows gets end      *)
(* markers.                                                                *)
(***************************************************************************)
Base(d, s) == s = <<>> \/ \E r \in AllRefs(d) : s = Chain(d, At(d, r).first)
GrownChain(d, first, s, t) ==
    IF s # <<>> /\ Chain(d, first) = s THEN t ELSE Chain(d, first)

LEMMA GrowingChain ==
    ASSUME NEW d, NEW e, NEW X, Sound(d, X), NEW s, NEW t, Base(d, s), Grows(d, e, s, t),
           s \in Seq(Clusters), NEW p \in AllRefs(d)
    PROVE  LET first == At(d, p).first
           IN  Chain(e, first) = GrownChain(d, first, s, t) /\ HasChain(e, first)
<1>. DEFINE first == At(d, p).first
            u == Chain(d, first)
<1>1. /\ DiskShape(d) /\ Chained(d) /\ Apart(d)
      /\ Own(d, p) = Range(u)
  BY DEF Sound, Own
<1>2. IsChain(d, first, u)
  BY <1>1 DEF Chained, HasChain
<1>3. \A c \in Range(u) : d.fat[c] # UNUSED
  BY <1>1, OwnIs
<1>. HIDE DEF u
<1>4. CASE s # <<>> /\ u = s
  <2>1. s[1] = first /\ Len(s) >= 1
    BY <1>2, <1>4 DEF IsChain
  <2>2. t[1] = first /\ t # <<>>
    BY <1>4, <2>1 DEF Grows
  <2>3. IsChain(e, first, t)
    BY <2>2 DEF Grows
  <2>4. Chain(e, first) = t
    BY <2>3, ChainIs
  <2>. QED
    BY <1>4, <2>3, <2>4 DEF GrownChain, HasChain, u
<1>5. CASE ~ (s # <<>> /\ u = s)
  <2>1. ASSUME NEW c \in Range(u) PROVE c \in Clusters /\ c \notin Range(t)
    <3>1. c \in Clusters
      BY <1>1, OwnIs
    <3>2. c \notin Range(t) \ Range(s)
      BY <1>3 DEF Grows
    <3>3. c \notin Range(s)
      <4>1. CASE s = <<>>
        <5>1. \A x : x \in Range(s) <=> \E i \in 1 .. Len(s) : s[i] = x
          BY InRange, Zenon
        <5>2. 1 .. Len(s) = {}
          BY <4>1
        <5>. QED
          BY <5>1, <5>2
      <4>2. CASE s # <<>>
        <5>1. PICK r \in AllRefs(d) : s = Chain(d, At(d, r).first)
          BY <4>2 DEF Base
        <5>2. r # p
          BY <1>5, <4>2, <5>1 DEF u
        <5>3. Own(d, r) = Range(s)
          BY <5>1 DEF Own
        <5>. QED
          BY <1>1, <5>2, <5>3 DEF Apart
      <4>. QED
        BY <4>1, <4>2
    <3>. QED
      BY <3>1, <3>2, <3>3
  <2>2. \A c \in Range(u) : e.fat[c] = d.fat[c]
    BY <2>1 DEF Grows
  <2>3. IsChain(e, first, u) /\ Chain(e, first) = u
    BY <1>2, <2>2, ChainStays
  <2>. QED
    BY <1>5, <2>3 DEF GrownChain, HasChain, u
<1>. QED
  BY <1>4, <1>5

AreaGrows(d, e, dir) ==
    /\ \A c \in Area(d, dir) : c \in Area(e, dir) /\ e.items[c] = d.items[c]
    /\ \A c \in Area(e, dir) : c \notin Area(d, dir) =>
        c \in Clusters /\ d.fat[c] = UNUSED /\ e.items[c] = NoItems(c)

LEMMA GrowingArea ==
    ASSUME NEW d, NEW e, NEW X, Sound(d, X), NEW s, NEW t, Base(d, s), Grows(d, e, s, t),
           s \in Seq(Clusters), NEW dir \in Tops(d)
    PROVE  /\ IsDir(d, dir) /\ IsDir(e, dir)
           /\ dir # ROOT =>
                /\ Len(Chain(d, dir)) <= Len(Chain(e, dir))
                /\ \A i \in 1 .. Len(Chain(d, dir)) : Chain(e, dir)[i] = Chain(d, dir)[i]
           /\ AreaGrows(d, e, dir)
<1>1. DiskShape(d) /\ Chained(d) /\ Apart(d)
  BY DEF Sound
<1>2. IsDir(d, dir)
  BY <1>1, TopIs
<1>3. \A c \in Area(d, dir) : e.items[c] = d.items[c]
  <2>1. SUFFICES ASSUME NEW c \in Area(d, dir) PROVE e.items[c] = d.items[c]
    OBVIOUS
  <2>2. c \notin Range(t) \ Range(s) /\ c \in Clusters \cup {ROOT}
    <3>1. c = ROOT \/ (c \in Clusters /\ d.fat[c] # UNUSED)
      BY <1>1, AreaUsed
    <3>2. Range(t) \subseteq Clusters
      BY InRange DEF Grows
    <3>. QED
      BY <3>1, <3>2, Limits DEF Grows
  <2>. QED
    BY <2>2 DEF Grows
<1>4. CASE dir = ROOT
  <2>1. Area(d, dir) = {ROOT} /\ Area(e, dir) = {ROOT} /\ IsDir(e, dir)
    BY <1>4, RootIsDir
  <2>. QED
    BY <1>2, <1>3, <1>4, <2>1 DEF AreaGrows
<1>5. CASE dir # ROOT
  <2>. DEFINE u == Chain(d, dir)
              v == Chain(e, dir)
  <2>1. PICK p \in AllRefs(d) : At(d, p).first = dir /\ dir \in Clusters
    BY <1>1, <1>5, TopIs
  <2>2. v = GrownChain(d, dir, s, t) /\ IsChain(e, dir, v)
    BY <2>1, GrowingChain DEF HasChain
  <2>3. IsDir(e, dir)
    BY <2>1, <2>2 DEF IsDir
  <2>4. u \in Seq(Clusters) /\ v \in Seq(Clusters)
    BY <1>2, <1>5, <2>2 DEF IsDir, IsChain
  <2>5. Area(d, dir) = Range(u) /\ Area(e, dir) = Range(v)
    BY <1>5 DEF Area
  <2>6. v = u \/ (u = s /\ v = t)
    BY <2>2 DEF GrownChain
  <2>. HIDE DEF u, v
  <2>7. Len(u) <= Len(v) /\ \A i \in 1 .. Len(u) : v[i] = u[i]
    <3>1. Len(u) \in Nat
      BY <2>4
    <3>. QED
      BY <2>6, <3>1 DEF Grows
  <2>8. Range(u) \subseteq Range(v)
    <3>1. \A x : x \in Range(u) <=> \E i \in 1 .. Len(u) : u[i] = x
      BY <2>4, InRange, Zenon
    <3>2. \A x : x \in Range(v) <=> \E i \in 1 .. Len(v) : v[i] = x
      BY <2>4, InRange, Zenon
    <3>3. Len(u) \in Nat /\ Len(v) \in Nat
      BY <2>4
    <3>. QED
      BY <2>7, <3>1, <3>2, <3>3
  <2>9. \A c \in Range(v) : c \notin Range(u) =>
            c \in Clusters /\ d.fat[c] = UNUSED /\ e.items[c] = NoItems(c)
    <3>1. Range(v) \subseteq Clusters
      BY <2>4, InRange
    <3>. QED
      BY <2>6, <3>1 DEF Grows
  <2>. QED
    BY <1>2, <1>3, <2>3, <2>5, <2>7, <2>8, <2>9 DEF u, v, AreaGrows
<1>. QED
  BY <1>4, <1>5

Extends(d, e, dir) ==
    LET m == Len(Stored(d, dir))
        n == Len(Stored(e, dir))
    IN  /\ m <= n
        /\ \A k \in 1 .. m : Stored(e, dir)[k] = Stored(d, dir)[k]
                             /\ Positions(e, dir)[k] = Positions(d, dir)[k]
        /\ \A k \in m + 1 .. n : Stored(e, dir)[k] = End

LEMMA GrowingPositions ==
    ASSUME NEW d, NEW e, NEW X, Sound(d, X), NEW s, NEW t, Base(d, s), Grows(d, e, s, t),
           s \in Seq(Clusters), NEW dir \in Tops(d)
    PROVE  LET m == Len(Positions(d, dir))
               n == Len(Positions(e, dir))
           IN  /\ m <= n /\ m \in Nat /\ n \in Nat
               /\ \A i \in 1 .. m : Positions(e, dir)[i] = Positions(d, dir)[i]
               /\ \A i \in m + 1 .. n : Positions(e, dir)[i][1] \notin Area(d, dir)
<1>1. /\ IsDir(d, dir) /\ IsDir(e, dir)
      /\ dir # ROOT =>
                /\ Len(Chain(d, dir)) <= Len(Chain(e, dir))
                /\ \A i \in 1 .. Len(Chain(d, dir)) : Chain(e, dir)[i] = Chain(d, dir)[i]
  BY GrowingArea
<1>2. CASE dir = ROOT
  <2>1. Positions(e, dir) = Positions(d, dir)
    BY <1>2 DEF Positions
  <2>2. Len(Positions(d, dir)) \in Nat
    <3>1. Positions(d, dir) \in Seq(Places(d, dir))
      BY <1>1, PositionsAre, Zenon
    <3>. QED
      BY <3>1
  <2>. DEFINE x == Positions(d, dir)
  <2>3. Len(x) + 1 .. Len(x) = {}
    BY <2>2
  <2>. HIDE DEF x
  <2>4. \A i \in Len(x) + 1 .. Len(x) : x[i][1] \notin Area(d, dir)
    BY <2>3
  <2>. QED
    BY <2>1, <2>2, <2>4 DEF x
<1>3. CASE dir # ROOT
  BY <1>1, <1>3, PositionsGrow
<1>. QED
  BY <1>2, <1>3

LEMMA GrowingStored ==
    ASSUME NEW d, NEW e, NEW X, Sound(d, X), NEW s, NEW t, Base(d, s), Grows(d, e, s, t),
           s \in Seq(Clusters), NEW dir \in Tops(d)
    PROVE  /\ Extends(d, e, dir) /\ Refs(e, dir) = Refs(d, dir)
           /\ \A p \in Refs(d, dir) : At(e, p) = At(d, p)
           /\ GoodDir(Stored(e, dir))
<1>. DEFINE x == Positions(d, dir)
            y == Positions(e, dir)
            m == Len(x)
            n == Len(y)
<1>1. DiskShape(d) /\ DiskShape(e) /\ GoodDir(Stored(d, dir))
  BY DEF Sound, DirsGood, Grows
<1>2. /\ IsDir(d, dir) /\ IsDir(e, dir)
      /\ \A c \in Area(d, dir) : c \in Area(e, dir) /\ e.items[c] = d.items[c]
      /\ \A c \in Area(e, dir) : c \notin Area(d, dir) =>
                c \in Clusters /\ d.fat[c] = UNUSED /\ e.items[c] = NoItems(c)
  <2>1. IsDir(d, dir) /\ IsDir(e, dir) /\ AreaGrows(d, e, dir)
    BY GrowingArea
  <2>. QED
    BY <2>1 DEF AreaGrows
<1>3. /\ m <= n /\ m \in Nat /\ n \in Nat
      /\ \A i \in 1 .. m : y[i] = x[i]
      /\ \A i \in m + 1 .. n : y[i][1] \notin Area(d, dir)
  BY GrowingPositions
<1>4. /\ Stored(d, dir) \in Seq(Entry) /\ Len(Stored(d, dir)) = m
      /\ \A i \in 1 .. m : Stored(d, dir)[i] = At(d, x[i]) /\ x[i] \in Places(d, dir)
  <2>1. /\ Stored(d, dir) \in Seq(Entry) /\ Len(Stored(d, dir)) = m
        /\ \A i \in 1 .. Len(Stored(d, dir)) :
                Stored(d, dir)[i] = At(d, x[i]) /\ x[i] \in Places(d, dir)
    BY <1>1, <1>2, StoredIs, Zenon
  <2>. HIDE DEF m, x
  <2>. QED
    BY <2>1
<1>5. /\ Stored(e, dir) \in Seq(Entry) /\ Len(Stored(e, dir)) = n
      /\ \A i \in 1 .. n : Stored(e, dir)[i] = At(e, y[i]) /\ y[i] \in Places(e, dir)
  <2>1. /\ Stored(e, dir) \in Seq(Entry) /\ Len(Stored(e, dir)) = n
        /\ \A i \in 1 .. Len(Stored(e, dir)) :
                Stored(e, dir)[i] = At(e, y[i]) /\ y[i] \in Places(e, dir)
    BY <1>1, <1>2, StoredIs, Zenon
  <2>. HIDE DEF n, y
  <2>. QED
    BY <2>1
<1>6. ASSUME NEW p \in Places(d, dir) PROVE At(e, p) = At(d, p) /\ p \in Places(e, dir)
  <2>1. p = <<p[1], p[2]>> /\ p[1] \in Area(d, dir) /\ p[2] \in Slots(p[1])
    BY PlaceIs, Zenon
  <2>2. p \in Places(e, dir)
    BY <1>2, <2>1, PlaceIs, Zenon
  <2>. QED
    BY <1>2, <2>1, <2>2 DEF At
<1>7. ASSUME NEW p \in Places(e, dir), p[1] \notin Area(d, dir) PROVE At(e, p) = End
  <2>1. p = <<p[1], p[2]>> /\ p[1] \in Area(e, dir) /\ p[2] \in Slots(p[1])
    BY PlaceIs, Zenon
  <2>2. e.items[p[1]] = NoItems(p[1])
    BY <1>2, <1>7, <2>1
  <2>. QED
    BY <2>1, <2>2 DEF At, NoItems
<1>8. ASSUME NEW p \in Places(e, dir), p[1] \in Area(d, dir) PROVE p \in Places(d, dir)
  BY <1>8, PlaceIs, Zenon
<1>9. Refs(e, dir) = Refs(d, dir)
  BY <1>6, <1>7, <1>8, Kinds DEF Refs
<1>10. \A p \in Refs(d, dir) : At(e, p) = At(d, p)
  BY <1>6 DEF Refs
<1>. HIDE DEF x, y, m, n
<1>11. \A k \in 1 .. m : Stored(e, dir)[k] = Stored(d, dir)[k] /\ y[k] = x[k]
  <2>1. SUFFICES ASSUME NEW k \in 1 .. m PROVE Stored(e, dir)[k] = Stored(d, dir)[k] /\ y[k] = x[k]
    OBVIOUS
  <2>2. k \in 1 .. n
    BY <1>3
  <2>. QED
    BY <1>3, <1>4, <1>5, <1>6, <2>2
<1>12. \A k \in m + 1 .. n : Stored(e, dir)[k] = End
  <2>1. SUFFICES ASSUME NEW k \in m + 1 .. n PROVE Stored(e, dir)[k] = End
    OBVIOUS
  <2>2. k \in 1 .. n
    BY <1>3
  <2>. QED
    BY <1>3, <1>5, <1>7, <2>2
<1>13. Extends(d, e, dir)
  BY <1>3, <1>4, <1>5, <1>11, <1>12 DEF Extends, x, y
<1>14. GoodDir(Stored(e, dir))
  <2>. DEFINE u == Stored(d, dir)
              v == Stored(e, dir)
  <2>1. GoodDir(u) /\ v \in Seq(Entry) /\ Len(u) <= Len(v)
    BY <1>1, <1>3, <1>4, <1>5
  <2>2. \A k \in 1 .. Len(u) : v[k] = u[k]
    BY <1>4, <1>11
  <2>3. \A k \in Len(u) + 1 .. Len(v) : v[k] = End
    BY <1>4, <1>5, <1>12
  <2>. HIDE DEF u, v
  <2>4. GoodDir(v)
    BY <2>1, <2>2, <2>3, DirGrown
  <2>. QED
    BY <2>4 DEF v
<1>. QED
  BY <1>9, <1>10, <1>13, <1>14

(* The items stay, and the disk is sound. *)
LEMMA Growing ==
    ASSUME NEW d, NEW e, NEW X, Sound(d, X), NEW s, NEW t, Base(d, s), Grows(d, e, s, t),
           s \in Seq(Clusters)
    PROVE  /\ Tops(e) = Tops(d) /\ AllRefs(e) = AllRefs(d)
           /\ \A p \in AllRefs(d) : At(e, p) = At(d, p)
           /\ Sound(e, IF s = <<>> THEN X \cup Range(t) ELSE X)
<1>. DEFINE Y == IF s = <<>> THEN X \cup Range(t) ELSE X
<1>1. \A dir \in Tops(d) : /\ Refs(e, dir) = Refs(d, dir) /\ GoodDir(Stored(e, dir))
                           /\ \A p \in Refs(d, dir) : At(e, p) = At(d, p)
  BY GrowingStored
<1>2. Tops(e) = Tops(d)
  BY <1>1, RootIsDir DEF Tops
<1>3. AllRefs(e) = AllRefs(d)
  BY <1>1, <1>2 DEF AllRefs
<1>4. \A p \in AllRefs(d) : At(e, p) = At(d, p)
  BY <1>1 DEF AllRefs
<1>5. DiskShape(e) /\ DirsGood(e)
  BY <1>1, <1>2 DEF DirsGood, Grows
<1>6. \A p \in AllRefs(d) : /\ HasChain(e, At(e, p).first)
                            /\ Chain(e, At(e, p).first) = GrownChain(d, At(d, p).first, s, t)
  BY <1>4, GrowingChain
<1>7. Chained(e)
  BY <1>3, <1>4, <1>6 DEF Chained, Sound
<1>8. Range(t) \subseteq Clusters /\ \A c \in Range(t) : c \in Range(s) \/ d.fat[c] = UNUSED
  BY InRange DEF Grows
<1>9. Chained(d) /\ Apart(d) /\ Spare(d, X) /\ Owned(d, X)
  BY DEF Sound
<1>10. \A c : c \in Range(s) => c \in Range(t)
  <2>1. \A c : c \in Range(s) <=> \E i \in 1 .. Len(s) : s[i] = c
    BY InRange, Zenon
  <2>2. t \in Seq(Clusters)
    BY DEF Grows
  <2>3. \A c : c \in Range(t) <=> \E i \in 1 .. Len(t) : t[i] = c
    BY <2>2, InRange, Zenon
  <2>4. Len(s) \in Nat /\ Len(t) \in Nat
    BY <2>2
  <2>. QED
    BY <2>1, <2>3, <2>4 DEF Grows
<1>11. \A c \in Range(t) : e.fat[c] # UNUSED
  <2>1. SUFFICES ASSUME NEW c \in Range(t) PROVE e.fat[c] # UNUSED
    OBVIOUS
  <2>2. t \in Seq(Clusters)
    BY DEF Grows
  <2>3. t # <<>>
    <3>1. \A x : x \in Range(t) <=> \E i \in 1 .. Len(t) : t[i] = x
      BY <2>2, InRange, Zenon
    <3>2. PICK i \in 1 .. Len(t) : t[i] = c
      BY <3>1
    <3>. QED
      BY <3>2
  <2>4. IsChain(e, t[1], t)
    BY <2>3 DEF Grows
  <2>. QED
    BY <2>4, ChainUsed
<1>12. \A c \in Clusters : c \notin Range(t) => e.fat[c] = d.fat[c]
  BY DEF Grows
<1>13. ASSUME NEW p \in AllRefs(d)
       PROVE  /\ \A c \in Own(d, p) : c \in Clusters /\ d.fat[c] # UNUSED
              /\ Own(e, p) = IF s # <<>> /\ Chain(d, At(d, p).first) = s THEN Range(t) ELSE Own(d, p)
              /\ s # <<>> /\ Chain(d, At(d, p).first) = s => Own(d, p) = Range(s)
  BY <1>4, <1>6, <1>9, OwnIs DEF Own, GrownChain
<1>. DEFINE Grown(p) == s # <<>> /\ Chain(d, At(d, p).first) = s
<1>14. \A p, q \in AllRefs(d) : Grown(p) /\ Grown(q) => p = q
  <2>1. SUFFICES ASSUME NEW p \in AllRefs(d), NEW q \in AllRefs(d), Grown(p), Grown(q), p # q
                 PROVE  FALSE
    OBVIOUS
  <2>2. Range(s) \cap Range(s) = {}
    BY <1>9, <1>13, <2>1 DEF Apart
  <2>3. 1 \in 1 .. Len(s)
    BY <2>1
  <2>4. s[1] \in Range(s)
    BY <2>3, InRange
  <2>. QED
    BY <2>2, <2>4
<1>15. s = <<>> \/ \E r \in AllRefs(d) : Grown(r)
  BY DEF Base
<1>16. s = <<>> => Range(s) = {}
  <2>1. \A x : x \in Range(s) <=> \E i \in 1 .. Len(s) : s[i] = x
    BY InRange, Zenon
  <2>2. s = <<>> => 1 .. Len(s) = {}
    OBVIOUS
  <2>. QED
    BY <2>1, <2>2
<1>17. \A p \in AllRefs(d) : /\ Grown(p) => Own(e, p) = Range(t) /\ Own(d, p) = Range(s)
                             /\ ~ Grown(p) => Own(e, p) = Own(d, p)
                             /\ Grown(p) => s # <<>>
                             /\ \A c \in Own(d, p) : c \in Clusters /\ d.fat[c] # UNUSED
  BY <1>13
<1>. HIDE DEF Grown
<1>18. \A p \in AllRefs(d) : ~ Grown(p) => Own(e, p) \cap Range(t) = {}
  <2>1. SUFFICES ASSUME NEW p \in AllRefs(d), ~ Grown(p), NEW c \in Own(d, p), c \in Range(t)
                 PROVE  FALSE
    BY <1>17
  <2>2. c \in Range(s)
    BY <1>8, <1>17, <2>1
  <2>3. PICK r \in AllRefs(d) : Grown(r)
    BY <1>15, <1>16, <2>2
  <2>4. c \in Own(d, r) /\ r # p
    BY <1>17, <2>1, <2>2, <2>3
  <2>. QED
    BY <1>9, <2>1, <2>4 DEF Apart
<1>19. Apart(e)
  <2>1. SUFFICES ASSUME NEW p \in AllRefs(d), NEW q \in AllRefs(d), p # q
                 PROVE  Own(e, p) \cap Own(e, q) = {}
    BY <1>3 DEF Apart
  <2>2. Own(d, p) \cap Own(d, q) = {}
    BY <1>9, <2>1 DEF Apart
  <2>. QED
    BY <1>14, <1>17, <1>18, <2>1, <2>2
<1>20. Spare(e, Y)
  <2>1. X \subseteq Clusters /\ \A c \in X : d.fat[c] # UNUSED
    BY <1>9 DEF Spare
  <2>2. \A p \in AllRefs(d) : Own(d, p) \cap X = {}
    BY <1>9 DEF Spare
  <2>3. s # <<>> => X \cap Range(t) = {}
    <3>1. SUFFICES ASSUME s # <<>>, NEW c \in X, c \in Range(t) PROVE FALSE
      OBVIOUS
    <3>2. c \in Range(s)
      BY <1>8, <2>1, <3>1
    <3>3. PICK r \in AllRefs(d) : Grown(r)
      BY <1>15, <3>1
    <3>. QED
      BY <1>17, <2>2, <3>1, <3>2, <3>3
  <2>4. Y \subseteq Clusters
    BY <1>8, <2>1
  <2>5. \A c \in Y : e.fat[c] # UNUSED
    BY <1>11, <1>12, <2>1
  <2>6. \A p \in AllRefs(d) : Own(e, p) \cap Y = {}
    <3>1. SUFFICES ASSUME NEW p \in AllRefs(d) PROVE Own(e, p) \cap Y = {}
      OBVIOUS
    <3>2. CASE Grown(p)
      BY <1>17, <2>3, <3>2
    <3>3. CASE ~ Grown(p)
      BY <1>17, <1>18, <2>2, <3>3
    <3>. QED
      BY <3>2, <3>3
  <2>. QED
    BY <1>3, <2>4, <2>5, <2>6 DEF Spare
<1>21. Owned(e, Y)
  <2>1. SUFFICES ASSUME NEW c \in Clusters, e.fat[c] # UNUSED, c \notin Y
                 PROVE  \E p \in AllRefs(d) : c \in Own(e, p)
    BY <1>3 DEF Owned
  <2>2. CASE c \in Range(t)
    BY <1>15, <1>17, <2>1, <2>2
  <2>3. CASE c \notin Range(t)
    <3>1. d.fat[c] # UNUSED /\ c \notin X
      BY <1>12, <2>1, <2>3
    <3>2. PICK p \in AllRefs(d) : c \in Own(d, p)
      BY <1>9, <3>1 DEF Owned
    <3>3. ~ Grown(p)
      BY <1>10, <1>17, <2>3, <3>2
    <3>. QED
      BY <1>17, <3>2, <3>3
  <2>. QED
    BY <2>2, <2>3
<1>22. Sound(e, Y)
  BY <1>5, <1>7, <1>19, <1>20, <1>21 DEF Sound
<1>. QED
  BY <1>2, <1>3, <1>4, <1>22

(***************************************************************************)
(* Items change places: the clusters of those that go, G, and spare ones   *)
(* are what the new item at q may have, N; the rest of both is spare then. *)
(***************************************************************************)
Exchanges(d, e, gone, new) ==
    /\ gone \subseteq AllRefs(d)
    /\ AllRefs(e) = (AllRefs(d) \ gone) \cup new
    /\ new \cap AllRefs(d) \subseteq gone
    /\ \A p, q \in new : p = q
    /\ \A p \in AllRefs(d) \ gone : At(e, p) = At(d, p)
    /\ \A q \in new : /\ HasChain(d, At(e, q).first)
                      /\ At(e, q).kind = "dir" => At(e, q).first \in Clusters
OwnOf(d, ps) == UNION {Own(d, p) : p \in ps}

LEMMA Exchange ==
    ASSUME NEW d, NEW e, NEW X, Sound(d, X), DiskShape(e), e.fat = d.fat,
           NEW gone, NEW new, Exchanges(d, e, gone, new),
           \A q \in new : Own(e, q) \subseteq X \cup OwnOf(d, gone),
           DirsGood(e)
    PROVE  Sound(e, (X \cup OwnOf(d, gone)) \ OwnOf(e, new))
<1>. DEFINE G == OwnOf(d, gone)
            N == OwnOf(e, new)
            A == AllRefs(d)
<1>1. Chained(d) /\ Apart(d) /\ Spare(d, X) /\ Owned(d, X)
  BY DEF Sound
<1>2. /\ gone \subseteq A /\ AllRefs(e) = (A \ gone) \cup new
      /\ new \cap A \subseteq gone
      /\ \A p \in A \ gone : At(e, p) = At(d, p)
      /\ \A q \in new : /\ HasChain(d, At(e, q).first)
                        /\ At(e, q).kind = "dir" => At(e, q).first \in Clusters
  BY DEF Exchanges
<1>3. \A p, q \in new : p = q
  BY DEF Exchanges
<1>4. \A f : Chain(e, f) = Chain(d, f)
  BY ChainOfFat
<1>5. \A p \in A \ gone : Own(e, p) = Own(d, p)
  BY <1>2, <1>4 DEF Own
<1>6. \A c : c \in G <=> \E p \in gone : c \in Own(d, p)
  BY DEF OwnOf
<1>7. \A c : c \in N <=> \E q \in new : c \in Own(e, q)
  BY DEF OwnOf
<1>8. \A q \in new : \A c \in Own(e, q) : c \in X \/ c \in G
  BY DEF OwnOf
<1>9. \A p \in A : \A c \in Own(d, p) : c \in Clusters /\ d.fat[c] # UNUSED
  BY <1>1, OwnIs
<1>10. X \subseteq Clusters /\ (\A c \in X : d.fat[c] # UNUSED)
       /\ \A p \in A : Own(d, p) \cap X = {}
  BY <1>1 DEF Spare
<1>11. \A p, q \in A : p # q => Own(d, p) \cap Own(d, q) = {}
  BY <1>1 DEF Apart
<1>. HIDE DEF G, N, A
<1>12. Chained(e)
  <2>1. SUFFICES ASSUME NEW p \in AllRefs(e)
                 PROVE  /\ HasChain(e, At(e, p).first)
                        /\ At(e, p).kind = "dir" => At(e, p).first \in Clusters
    BY DEF Chained
  <2>2. \A f : HasChain(d, f) => HasChain(e, f)
    BY <1>4 DEF HasChain, IsChain
  <2>3. CASE p \in new
    BY <1>2, <2>2, <2>3
  <2>4. CASE p \in A \ gone
    <3>1. At(e, p) = At(d, p)
      BY <1>2, <2>4
    <3>2. HasChain(d, At(d, p).first) /\ (At(d, p).kind = "dir" => At(d, p).first \in Clusters)
      BY <1>1, <2>4 DEF Chained, A
    <3>. QED
      BY <2>2, <3>1, <3>2
  <2>. QED
    BY <1>2, <2>3, <2>4
<1>13. ASSUME NEW p \in A \ gone, NEW c \in Own(d, p) PROVE c \notin X /\ c \notin G
  BY <1>2, <1>6, <1>10, <1>11
<1>14. Apart(e)
  <2>1. SUFFICES ASSUME NEW p \in AllRefs(e), NEW q \in AllRefs(e), p # q,
                        NEW c \in Own(e, p), c \in Own(e, q)
                 PROVE  FALSE
    BY DEF Apart
  <2>2. CASE p \in new /\ q \in new
    BY <1>3, <2>1, <2>2
  <2>3. CASE p \in new /\ q \in A \ gone
    BY <1>5, <1>8, <1>13, <2>1, <2>3
  <2>4. CASE p \in A \ gone /\ q \in new
    BY <1>5, <1>8, <1>13, <2>1, <2>4
  <2>5. CASE p \in A \ gone /\ q \in A \ gone
    BY <1>5, <1>11, <2>1, <2>5
  <2>. QED
    BY <1>2, <2>1, <2>2, <2>3, <2>4, <2>5
<1>15. Spare(e, (X \cup G) \ N)
  <2>1. \A c \in G : c \in Clusters /\ d.fat[c] # UNUSED
    BY <1>2, <1>6, <1>9
  <2>2. (X \cup G) \ N \subseteq Clusters
    BY <1>10, <2>1
  <2>3. \A c \in (X \cup G) \ N : e.fat[c] # UNUSED
    BY <1>10, <2>1
  <2>4. ASSUME NEW p \in AllRefs(e), NEW c \in Own(e, p), c \in (X \cup G) \ N PROVE FALSE
    <3>1. CASE p \in new
      BY <1>7, <2>4, <3>1
    <3>2. CASE p \in A \ gone
      BY <1>5, <1>13, <2>4, <3>2
    <3>. QED
      BY <1>2, <3>1, <3>2
  <2>. QED
    BY <2>2, <2>3, <2>4 DEF Spare
<1>16. Owned(e, (X \cup G) \ N)
  <2>1. SUFFICES ASSUME NEW c \in Clusters, e.fat[c] # UNUSED, c \notin (X \cup G) \ N
                 PROVE  \E p \in AllRefs(e) : c \in Own(e, p)
    BY DEF Owned
  <2>2. CASE c \in N
    BY <1>2, <1>7, <2>2
  <2>3. CASE c \notin N
    <3>1. c \notin X /\ c \notin G
      BY <2>1, <2>3
    <3>2. PICK p \in A : c \in Own(d, p)
      BY <1>1, <2>1, <3>1 DEF Owned, A
    <3>3. p \in A \ gone
      BY <1>6, <3>1, <3>2
    <3>. QED
      BY <1>2, <1>5, <3>2, <3>3
  <2>. QED
    BY <2>2, <2>3
<1>. QED
  BY <1>12, <1>14, <1>15, <1>16 DEF Sound, G, N

(* What matters of a disk is the FAT and the items. *)
LEMMA SameTree ==
    ASSUME NEW d, NEW e, e.fat = d.fat, e.items = d.items
    PROVE  /\ \A f : Chain(e, f) = Chain(d, f)
           /\ \A p : At(e, p) = At(d, p) /\ Own(e, p) = Own(d, p)
           /\ \A dir : /\ Positions(e, dir) = Positions(d, dir) /\ Stored(e, dir) = Stored(d, dir)
                       /\ Refs(e, dir) = Refs(d, dir) /\ Area(e, dir) = Area(d, dir)
           /\ Tops(e) = Tops(d) /\ AllRefs(e) = AllRefs(d)
<1>1. \A f : Chain(e, f) = Chain(d, f)
  BY ChainOfFat
<1>2. \A p : At(e, p) = At(d, p)
  BY DEF At
<1>3. \A p : Own(e, p) = Own(d, p)
  BY <1>1, <1>2 DEF Own
<1>4. \A dir : Positions(e, dir) = Positions(d, dir) /\ Area(e, dir) = Area(d, dir)
  BY <1>1 DEF Positions, Area
<1>5. \A dir : Stored(e, dir) = Stored(d, dir)
  BY <1>2, <1>4 DEF Stored
<1>6. \A dir : Refs(e, dir) = Refs(d, dir)
  BY <1>2, <1>4 DEF Refs, Places
<1>7. Tops(e) = Tops(d)
  BY <1>2, <1>6 DEF Tops
<1>8. AllRefs(e) = AllRefs(d)
  BY <1>6, <1>7 DEF AllRefs
<1>. QED
  BY <1>1, <1>2, <1>3, <1>4, <1>5, <1>6, <1>7, <1>8

LEMMA SameSound ==
    ASSUME NEW d, NEW e, e.fat = d.fat, e.items = d.items, DiskShape(e), NEW X, Sound(d, X)
    PROVE  Sound(e, X)
<1>1. /\ \A f : Chain(e, f) = Chain(d, f)
      /\ \A p : At(e, p) = At(d, p) /\ Own(e, p) = Own(d, p)
      /\ Tops(e) = Tops(d) /\ AllRefs(e) = AllRefs(d)
      /\ \A dir : Stored(e, dir) = Stored(d, dir)
  BY SameTree
<1>2. \A f : HasChain(d, f) => HasChain(e, f)
  BY <1>1 DEF HasChain, IsChain
<1>3. Chained(e)
  BY <1>1, <1>2 DEF Chained, Sound
<1>4. Apart(e)
  BY <1>1 DEF Apart, Sound
<1>5. Spare(e, X)
  BY <1>1 DEF Spare, Sound
<1>6. Owned(e, X)
  BY <1>1 DEF Owned, Sound
<1>7. DirsGood(e)
  BY <1>1 DEF DirsGood, Sound
<1>. QED
  BY <1>3, <1>4, <1>5, <1>6, <1>7 DEF Sound

-----------------------------------------------------------------------------
(* Items that are written                                                  *)

(* Writing changes no chain *)
LEMMA SameFat ==
    ASSUME NEW d, NEW e, e.fat = d.fat
    PROVE  /\ \A f : Chain(e, f) = Chain(d, f) /\ (HasChain(d, f) <=> HasChain(e, f))
           /\ \A x : /\ Positions(e, x) = Positions(d, x) /\ Area(e, x) = Area(d, x)
                     /\ Places(e, x) = Places(d, x) /\ (IsDir(d, x) <=> IsDir(e, x))
<1>2. \A f : Chain(e, f) = Chain(d, f)
  BY ChainOfFat
<1>3. \A f : HasChain(d, f) <=> HasChain(e, f)
  BY <1>2 DEF HasChain, IsChain
<1>4. \A x : Positions(e, x) = Positions(d, x) /\ Area(e, x) = Area(d, x)
  BY <1>2 DEF Positions, Area
<1>5. \A x : Places(e, x) = Places(d, x)
  BY <1>4 DEF Places
<1>6. \A x : IsDir(d, x) <=> IsDir(e, x)
  BY <1>3 DEF IsDir, HasChain
<1>. QED
  BY <1>2, <1>3, <1>4, <1>5, <1>6

(* nor another directory. *)
LEMMA WroteElsewhere ==
    ASSUME NEW d, NEW e, NEW pos, NEW es, DiskShape(d), Wrote(d, e, pos, es),
           NEW x, IsDir(d, x), \A p \in Range(pos) : p \notin Places(d, x)
    PROVE  Stored(e, x) = Stored(d, x) /\ Refs(e, x) = Refs(d, x)
           /\ \A p \in Places(d, x) : At(e, p) = At(d, p)
<1>1. Positions(e, x) = Positions(d, x) /\ Places(e, x) = Places(d, x)
  BY SameFat DEF Wrote
<1>2. \A p \in Places(d, x) : At(e, p) = At(d, p)
  <2>1. Places(d, x) \subseteq Cells
    BY PlacesAreCells
  <2>. QED
    BY <2>1 DEF Wrote
<1>3. \A i \in DOMAIN Positions(d, x) : Positions(d, x)[i] \in Places(d, x)
  <2>1. Positions(d, x) \in Seq(Places(d, x))
    BY PositionsAre, Zenon
  <2>. QED
    BY <2>1
<1>4. Stored(e, x) = Stored(d, x)
  BY <1>1, <1>2, <1>3 DEF Stored
<1>5. Refs(e, x) = Refs(d, x)
  BY <1>1, <1>2 DEF Refs
<1>. QED
  BY <1>2, <1>4, <1>5

(* The items of a directory by their number in it *)
Numbered(d, dir, s, pos) ==
    /\ s \in Seq(Entry) /\ Len(s) \in Nat /\ Len(pos) = Len(s) /\ pos \in Seq(Places(d, dir))
    /\ \A k \in 1 .. Len(s) : /\ pos[k] \in Refs(d, dir) <=> IsItem(s[k])
                              /\ At(d, pos[k]) = s[k] /\ pos[k] \in Places(d, dir)
                              /\ pos[k] \in Cells /\ s[k] \in Entry
    /\ \A p \in Refs(d, dir) : \E k \in 1 .. Len(s) : pos[k] = p
    /\ \A i, j \in 1 .. Len(s) : pos[i] = pos[j] => i = j

LEMMA RefIndex ==
    ASSUME NEW d, DiskShape(d), NEW dir, IsDir(d, dir)
    PROVE  Numbered(d, dir, Stored(d, dir), Positions(d, dir))
<1>. DEFINE s == Stored(d, dir)
            pos == Positions(d, dir)
<1>1. /\ s \in Seq(Entry) /\ Len(s) = Len(pos) /\ Len(s) \in Nat
      /\ \A i \in 1 .. Len(s) : s[i] = At(d, pos[i]) /\ pos[i] \in Places(d, dir) /\ pos[i] \in Cells
  BY StoredIs, Zenon
<1>2. \A i, j \in 1 .. Len(pos) : pos[i] = pos[j] => i = j
  BY PositionsAre, Zenon
<1>3. \A p \in Refs(d, dir) : \E i \in 1 .. Len(s) : pos[i] = p /\ s[i] = At(d, p) /\ IsItem(s[i])
  BY RefsAre, Zenon
<1>a. pos \in Seq(Places(d, dir))
  BY PositionsAre, Zenon
<1>. HIDE DEF s, pos
<1>4. \A k \in 1 .. Len(s) : pos[k] \in Refs(d, dir) <=> IsItem(s[k])
  BY <1>1 DEF Refs
<1>5. \A k \in 1 .. Len(s) : s[k] \in Entry
  BY <1>1
<1>. QED
  BY <1>1, <1>2, <1>3, <1>4, <1>5, <1>a DEF s, pos, Numbered

-----------------------------------------------------------------------------
(* The names of items                                                      *)

(* What an item is called in its directory *)
NameIn(d, dir, p) ==
    fat16_get_item_name(Stored(d, dir),
        CHOOSE k \in 1 .. Len(Stored(d, dir)) : Positions(d, dir)[k] = p)
SameName(d, e, dir, k) ==
    /\ k \in 1 .. Len(Stored(e, dir)) /\ IsItem(Stored(e, dir)[k])
    /\ Positions(e, dir)[k] = Positions(d, dir)[k]
    /\ fat16_get_item_name(Stored(e, dir), k) = fat16_get_item_name(Stored(d, dir), k)

(* The items of d that e still has are where they were, and their names. *)
Follows(d, e) ==
    \A dir \in Tops(d) : \A p \in Refs(d, dir) \cap AllRefs(e) :
        dir \in Tops(e) /\ p \in Refs(e, dir) /\ NameIn(e, dir, p) = NameIn(d, dir, p)

LEMMA NameIs ==
    ASSUME NEW d, DiskShape(d), NEW dir, IsDir(d, dir), NEW k \in 1 .. Len(Stored(d, dir))
    PROVE  NameIn(d, dir, Positions(d, dir)[k]) = fat16_get_item_name(Stored(d, dir), k)
<1>. DEFINE s == Stored(d, dir)
            pos == Positions(d, dir)
            i == CHOOSE i \in 1 .. Len(s) : pos[i] = pos[k]
<1>1. \A m, n \in 1 .. Len(s) : pos[m] = pos[n] => m = n
  <2>1. Numbered(d, dir, s, pos)
    BY RefIndex
  <2>. HIDE DEF s, pos
  <2>. QED
    BY <2>1 DEF Numbered
<1>2. i \in 1 .. Len(s) /\ pos[i] = pos[k]
  <2>. HIDE DEF pos
  <2>. QED
    OBVIOUS
<1>3. i = k
  <2>. HIDE DEF i, s, pos
  <2>1. k \in 1 .. Len(s)
    BY DEF s
  <2>. QED
    BY <1>1, <1>2, <2>1
<1>4. NameIn(d, dir, pos[k]) = fat16_get_item_name(s, i)
  BY DEF NameIn
<1>. HIDE DEF i
<1>. QED
  BY <1>3, <1>4

LEMMA FollowsIs ==
    ASSUME NEW d, DiskShape(d), Chained(d), NEW e, DiskShape(e), Chained(e),
           \A x \in Tops(d) : x \notin Tops(e) => Refs(d, x) = {},
           \A x \in Tops(d) \cap Tops(e) : \A k \in 1 .. Len(Stored(d, x)) :
                IsItem(Stored(d, x)[k]) /\ Positions(d, x)[k] \in AllRefs(e) => SameName(d, e, x, k)
    PROVE  Follows(d, e)
<1>1. SUFFICES ASSUME NEW dir \in Tops(d), NEW p \in Refs(d, dir), p \in AllRefs(e)
               PROVE  dir \in Tops(e) /\ p \in Refs(e, dir) /\ NameIn(e, dir, p) = NameIn(d, dir, p)
  BY DEF Follows
<1>2. dir \in Tops(e) /\ IsDir(d, dir) /\ IsDir(e, dir)
  BY TopIs
<1>. DEFINE s == Stored(d, dir)
            t == Stored(e, dir)
<1>3. PICK k \in 1 .. Len(s) : Positions(d, dir)[k] = p /\ IsItem(s[k])
  <2>1. Numbered(d, dir, s, Positions(d, dir))
    BY <1>2, RefIndex
  <2>. HIDE DEF s
  <2>. QED
    BY <2>1 DEF Numbered
<1>4. SameName(d, e, dir, k)
  BY <1>1, <1>2, <1>3
<1>5. Positions(e, dir)[k] = p /\ k \in 1 .. Len(t) /\ IsItem(t[k])
      /\ fat16_get_item_name(t, k) = fat16_get_item_name(s, k)
  BY <1>3, <1>4 DEF SameName
<1>6. p \in Refs(e, dir)
  <2>1. Numbered(e, dir, t, Positions(e, dir))
    BY <1>2, RefIndex
  <2>. HIDE DEF t
  <2>. QED
    BY <1>5, <2>1 DEF Numbered
<1>7. NameIn(d, dir, p) = fat16_get_item_name(s, k)
  BY <1>2, <1>3, NameIs
<1>8. NameIn(e, dir, p) = fat16_get_item_name(t, k)
  BY <1>2, <1>5, NameIs
<1>. QED
  BY <1>2, <1>5, <1>6, <1>7, <1>8

LEMMA FollowsThen ==
    ASSUME NEW d, NEW e, NEW g, Follows(d, e), Follows(e, g),
           AllRefs(d) \cap AllRefs(g) \subseteq AllRefs(e)
    PROVE  Follows(d, g)
<1>1. SUFFICES ASSUME NEW dir \in Tops(d), NEW p \in Refs(d, dir), p \in AllRefs(g)
               PROVE  dir \in Tops(g) /\ p \in Refs(g, dir) /\ NameIn(g, dir, p) = NameIn(d, dir, p)
  BY DEF Follows
<1>2. p \in AllRefs(e)
  BY <1>1, RefsIn
<1>3. dir \in Tops(e) /\ p \in Refs(e, dir) /\ NameIn(e, dir, p) = NameIn(d, dir, p)
  BY <1>2 DEF Follows
<1>. QED
  BY <1>1, <1>3 DEF Follows

(* Directories that stay as they are *)
LEMMA FollowsSame ==
    ASSUME NEW d, DiskShape(d), Chained(d), NEW e, DiskShape(e), Chained(e), Tops(e) = Tops(d),
           \A x \in Tops(d) : Stored(e, x) = Stored(d, x) /\ Positions(e, x) = Positions(d, x)
    PROVE  Follows(d, e)
<1>1. \A x \in Tops(d) \cap Tops(e) : \A k \in 1 .. Len(Stored(d, x)) :
            IsItem(Stored(d, x)[k]) /\ Positions(d, x)[k] \in AllRefs(e) => SameName(d, e, x, k)
  BY DEF SameName
<1>. QED
  BY <1>1, FollowsIs

(* A longer list has the names that were there. *)
LEMMA NameInLonger ==
    ASSUME NEW s \in Seq(Entry), NEW t \in Seq(Entry), Len(s) <= Len(t),
           \A k \in 1 .. Len(s) : t[k] = s[k], NEW i \in 1 .. Len(s)
    PROVE  fat16_get_item_name(t, i) = fat16_get_item_name(s, i)
<1>1. i \in Nat \ {0} /\ Len(s) \in Nat /\ 0 \in 0 .. i - 1
  OBVIOUS
<1>2. \A k \in 0 + 1 .. i - 1 : s[k] = t[k]
  BY <1>1
<1>3. s[i].short = t[i].short
  OBVIOUS
<1>4. fat16_lfn_count(s, i) = fat16_lfn_count(t, i)
  BY <1>1, <1>2, <1>3, CountKept
<1>5. fat16_lfn_count(s, i) # 0 => s[i - 1] = t[i - 1]
  <2>1. fat16_lfn_count(s, i) \in 0 .. i - 1
    BY <1>1, CountIs, Zenon
  <2>2. fat16_lfn_count(s, i) # 0 => i - 1 \in 1 .. Len(s)
    BY <1>1, <2>1
  <2>. QED
    BY <2>2
<1>. QED
  BY <1>3, <1>4, <1>5, NameKept

LEMMA GrowingNames ==
    ASSUME NEW d, NEW e, NEW X, Sound(d, X), NEW s, NEW t, Base(d, s), Grows(d, e, s, t),
           s \in Seq(Clusters)
    PROVE  Follows(d, e)
<1>1. Tops(e) = Tops(d) /\ DiskShape(d) /\ Chained(d) /\ DiskShape(e) /\ Chained(e)
  <2>1. Tops(e) = Tops(d) /\ Sound(e, IF s = <<>> THEN X \cup Range(t) ELSE X)
    BY Growing, Zenon
  <2>. QED
    BY <2>1 DEF Sound
<1>2. ASSUME NEW x \in Tops(d), NEW k \in 1 .. Len(Stored(d, x)), IsItem(Stored(d, x)[k])
      PROVE  SameName(d, e, x, k)
  <2>. DEFINE u == Stored(d, x)
              v == Stored(e, x)
  <2>1. Extends(d, e, x)
    BY GrowingStored
  <2>2. IsDir(d, x) /\ IsDir(e, x)
    BY <1>1, TopIs
  <2>3. u \in Seq(Entry) /\ v \in Seq(Entry)
    BY <1>1, <2>2, StoredIs, Zenon
  <2>4. Len(u) <= Len(v) /\ \A i \in 1 .. Len(u) : v[i] = u[i] /\ Positions(e, x)[i] = Positions(d, x)[i]
    BY <2>1 DEF Extends
  <2>. HIDE DEF u, v
  <2>5. k \in 1 .. Len(u) /\ IsItem(u[k])
    BY <1>2 DEF u
  <2>6. fat16_get_item_name(v, k) = fat16_get_item_name(u, k)
    BY <2>3, <2>4, <2>5, NameInLonger
  <2>7. k \in 1 .. Len(v)
    BY <2>3, <2>4, <2>5
  <2>. QED
    BY <2>4, <2>5, <2>6, <2>7 DEF SameName, u, v
<1>. QED
  BY <1>1, <1>2, FollowsIs

(* Spare clusters are freed. *)
Frees(d, e, Y) ==
    /\ DiskShape(e) /\ e.items = d.items /\ e.bytes = d.bytes
    /\ \A c \in Clusters : e.fat[c] = IF c \in Y THEN UNUSED ELSE d.fat[c]
LEMMA Freeing ==
    ASSUME NEW d, NEW e, NEW X, NEW Y, Sound(d, X \cup Y), X \cap Y = {}, Frees(d, e, Y)
    PROVE  /\ Sound(e, X) /\ Tops(e) = Tops(d) /\ AllRefs(e) = AllRefs(d)
           /\ \A p \in AllRefs(d) : At(e, p) = At(d, p)
                                    /\ Chain(e, At(d, p).first) = Chain(d, At(d, p).first)
           /\ \A dir \in Tops(d) : Refs(e, dir) = Refs(d, dir)
           /\ Follows(d, e)
<1>1. DiskShape(d) /\ Chained(d) /\ Apart(d) /\ Spare(d, X \cup Y) /\ Owned(d, X \cup Y) /\ DirsGood(d)
  BY DEF Sound
<1>2. DiskShape(e) /\ \A p : At(e, p) = At(d, p)
  BY DEF At, Frees
<1>3. ASSUME NEW p \in AllRefs(d)
      PROVE  /\ HasChain(e, At(d, p).first) /\ Own(e, p) = Own(d, p)
             /\ Chain(e, At(d, p).first) = Chain(d, At(d, p).first)
  <2>. DEFINE f == At(d, p).first
              s == Chain(d, f)
  <2>1. IsChain(d, f, s)
    BY <1>1 DEF Chained, HasChain
  <2>2. \A c \in Range(s) : c \in Clusters /\ c \notin Y
    <3>1. Range(s) = Own(d, p)
      BY DEF Own
    <3>2. Own(d, p) \subseteq Clusters
      BY <1>1, OwnIs
    <3>3. Own(d, p) \cap (X \cup Y) = {}
      BY <1>1 DEF Spare
    <3>. QED
      BY <3>1, <3>2, <3>3
  <2>. HIDE DEF s
  <2>3. \A c \in Range(s) : e.fat[c] = d.fat[c]
    BY <2>2 DEF Frees
  <2>4. IsChain(e, f, s) /\ Chain(e, f) = s
    BY <2>1, <2>3, ChainStays
  <2>. QED
    BY <1>2, <2>4 DEF HasChain, Own, s
<1>4. ASSUME NEW dir \in Tops(d)
      PROVE  /\ Positions(e, dir) = Positions(d, dir) /\ Area(e, dir) = Area(d, dir)
             /\ Refs(e, dir) = Refs(d, dir) /\ Stored(e, dir) = Stored(d, dir)
  <2>1. dir # ROOT => Chain(e, dir) = Chain(d, dir)
    <3>1. SUFFICES ASSUME dir # ROOT PROVE Chain(e, dir) = Chain(d, dir)
      OBVIOUS
    <3>2. PICK p \in AllRefs(d) : At(d, p).first = dir
      BY <1>1, <3>1, TopIs
    <3>. QED
      BY <1>3, <3>2
  <2>2. Positions(e, dir) = Positions(d, dir)
    BY <2>1 DEF Positions
  <2>3. Area(e, dir) = Area(d, dir)
    BY <2>1 DEF Area
  <2>4. Stored(e, dir) = Stored(d, dir)
    BY <1>2, <2>2 DEF Stored
  <2>5. Refs(e, dir) = Refs(d, dir)
    BY <1>2, <2>3 DEF Refs, Places
  <2>. QED
    BY <2>2, <2>3, <2>4, <2>5
<1>5. Tops(e) = Tops(d)
  BY <1>2, <1>4, RootIsDir DEF Tops
<1>6. AllRefs(e) = AllRefs(d)
  BY <1>4, <1>5 DEF AllRefs
<1>7. Chained(e)
  BY <1>1, <1>2, <1>3, <1>6 DEF Chained
<1>8. Apart(e)
  BY <1>1, <1>3, <1>6 DEF Apart
<1>9. Spare(e, X)
  <2>1. X \cup Y \subseteq Clusters /\ \A c \in X \cup Y : d.fat[c] # UNUSED
    BY <1>1 DEF Spare
  <2>2. \A p \in AllRefs(d) : Own(d, p) \cap (X \cup Y) = {}
    BY <1>1 DEF Spare
  <2>3. \A c \in X : c \in Clusters /\ c \notin Y
    BY <2>1
  <2>4. \A c \in X : e.fat[c] # UNUSED
    BY <2>1, <2>3 DEF Frees
  <2>. QED
    BY <1>3, <1>6, <2>2, <2>3, <2>4 DEF Spare
<1>10. Owned(e, X)
  <2>1. SUFFICES ASSUME NEW c \in Clusters, e.fat[c] # UNUSED, c \notin X
                 PROVE  \E p \in AllRefs(d) : c \in Own(e, p)
    BY <1>6 DEF Owned
  <2>2. c \notin Y /\ e.fat[c] = d.fat[c]
    BY <2>1 DEF Frees
  <2>3. \E p \in AllRefs(d) : c \in Own(d, p)
    BY <1>1, <2>1, <2>2 DEF Owned
  <2>. QED
    BY <1>3, <2>3
<1>11. DirsGood(e)
  BY <1>1, <1>4, <1>5 DEF DirsGood
<1>12. Sound(e, X)
  BY <1>2, <1>7, <1>8, <1>9, <1>10, <1>11 DEF Sound
<1>13. Follows(d, e)
  BY <1>1, <1>2, <1>4, <1>5, <1>7, FollowsSame
<1>. QED
  BY <1>2, <1>3, <1>4, <1>5, <1>6, <1>12, <1>13

(***************************************************************************)
(* The entries a to b of a directory are written.                          *)
(***************************************************************************)
Windowed(d, e, dir, a, b, es) ==
    /\ DiskShape(e) /\ e.fat = d.fat /\ e.bytes = d.bytes
    /\ Rewritten(Stored(d, dir), Stored(e, dir), a, b)
    /\ \A k \in a .. b : Stored(e, dir)[k] = es[k - a + 1]
    /\ \A k \in 1 .. Len(Stored(d, dir)) : k \notin a .. b =>
            At(e, Positions(d, dir)[k]) = At(d, Positions(d, dir)[k])
    /\ \A x : IsDir(d, x) /\ Area(d, x) \cap Area(d, dir) = {} =>
            /\ Stored(e, x) = Stored(d, x) /\ Refs(e, x) = Refs(d, x)
            /\ \A p \in Refs(d, x) : At(e, p) = At(d, p)

Sliced(d, dir, a, b, pos) ==
    /\ pos \in Seq(Cells) /\ Len(pos) = b - a + 1
    /\ \A i \in 1 .. b - a + 1 : pos[i] = Positions(d, dir)[a + i - 1]
                                 /\ a + i - 1 \in 1 .. Len(Positions(d, dir))
    /\ \A i, j \in 1 .. Len(pos) : pos[i] = pos[j] => i = j
LEMMA Slice ==
    ASSUME NEW d, DiskShape(d), NEW dir, IsDir(d, dir),
           NEW a \in 1 .. Len(Stored(d, dir)), NEW b \in a .. Len(Stored(d, dir)),
           NEW pos, pos = SubSeq(Positions(d, dir), a, b)
    PROVE  Sliced(d, dir, a, b, pos)
<1>. DEFINE s == Stored(d, dir)
            q == Positions(d, dir)
<1>1. /\ s \in Seq(Entry) /\ Len(s) = Len(q) /\ Len(s) \in Nat
      /\ \A i \in 1 .. Len(s) : s[i] = At(d, q[i]) /\ q[i] \in Places(d, dir) /\ q[i] \in Cells
  BY StoredIs, Zenon
<1>2. \A i, j \in 1 .. Len(q) : q[i] = q[j] => i = j
  BY PositionsAre, Zenon
<1>3. q \in Seq(Places(d, dir))
  BY PositionsAre, Zenon
<1>4. /\ pos \in Seq(Cells) /\ Len(pos) = b - a + 1
      /\ \A i \in 1 .. b - a + 1 : pos[i] = q[a + i - 1] /\ a + i - 1 \in 1 .. Len(q)
  <2>. HIDE DEF q, s
  <2>0. a \in 1 .. Len(s) /\ b \in a .. Len(s)
    BY DEF s
  <2>1. pos = [i \in 1 .. b - a + 1 |-> q[a + i - 1]]
    <3>1. pos = SubSeq(q, a, b)
      BY DEF q
    <3>. QED
      BY <1>1, <1>3, <2>0, <3>1
  <2>2. b - a + 1 \in Nat
    BY <1>1, <2>0
  <2>3. \A i \in 1 .. b - a + 1 : a + i - 1 \in 1 .. Len(s)
    BY <1>1, <2>0
  <2>4. \A i \in 1 .. b - a + 1 : q[a + i - 1] \in Cells
    BY <1>1, <2>3
  <2>. DEFINE n == b - a + 1
              f == [i \in 1 .. n |-> q[a + i - 1]]
  <2>5. f \in Seq(Cells) /\ Len(f) = n /\ \A i \in 1 .. n : f[i] = q[a + i - 1]
    <3>1. n \in Nat /\ \A i \in 1 .. n : q[a + i - 1] \in Cells
      BY <2>2, <2>4
    <3>. HIDE DEF n
    <3>. QED
      BY <3>1
  <2>6. pos = f
    BY <2>1
  <2>. HIDE DEF f
  <2>. QED
    BY <1>1, <2>3, <2>5, <2>6
<1>5. \A i, j \in 1 .. Len(pos) : pos[i] = pos[j] => i = j
  <2>. HIDE DEF q, s
  <2>0. a \in 1 .. Len(s) /\ b \in a .. Len(s)
    BY DEF s
  <2>1. SUFFICES ASSUME NEW i \in 1 .. Len(pos), NEW j \in 1 .. Len(pos), pos[i] = pos[j]
                 PROVE  i = j
    OBVIOUS
  <2>2. i \in 1 .. b - a + 1 /\ j \in 1 .. b - a + 1
    BY <1>4
  <2>3. /\ pos[i] = q[a + i - 1] /\ a + i - 1 \in 1 .. Len(q)
        /\ pos[j] = q[a + j - 1] /\ a + j - 1 \in 1 .. Len(q)
    BY <1>4, <2>2
  <2>4. a + i - 1 = a + j - 1
    BY <1>2, <2>1, <2>3
  <2>. QED
    BY <1>1, <2>0, <2>2, <2>4
<1>. QED
  BY <1>4, <1>5, Zenon DEF Sliced

LEMMA Window ==
    ASSUME NEW d, DiskShape(d), NEW dir, IsDir(d, dir),
           NEW a \in 1 .. Len(Stored(d, dir)), NEW b \in a .. Len(Stored(d, dir)),
           NEW es, \A i \in 1 .. b - a + 1 : es[i] \in Entry,
           NEW pos, pos = SubSeq(Positions(d, dir), a, b)
    PROVE  Windowed(d, fat16_write_dir_entry(d, pos, es), dir, a, b, es)
<1>. DEFINE s == Stored(d, dir)
            q == Positions(d, dir)
            e == fat16_write_dir_entry(d, pos, es)
            t == Stored(e, dir)
<1>0. Sliced(d, dir, a, b, pos)
  BY Slice
<1>1. /\ s \in Seq(Entry) /\ Len(s) = Len(q) /\ Len(s) \in Nat
      /\ \A i \in 1 .. Len(s) : s[i] = At(d, q[i]) /\ q[i] \in Places(d, dir) /\ q[i] \in Cells
  BY StoredIs, Zenon
<1>2. \A i, j \in 1 .. Len(q) : q[i] = q[j] => i = j
  BY PositionsAre, Zenon
<1>3. q \in Seq(Places(d, dir))
  BY PositionsAre, Zenon
<1>4. /\ pos \in Seq(Cells) /\ Len(pos) = b - a + 1
      /\ \A i \in 1 .. b - a + 1 : pos[i] = q[a + i - 1] /\ a + i - 1 \in 1 .. Len(q)
  BY <1>0, Zenon DEF Sliced
<1>5. \A i, j \in 1 .. Len(pos) : pos[i] = pos[j] => i = j
  BY <1>0, Zenon DEF Sliced
<1>6. Wrote(d, e, pos, es)
  <2>1. \A i \in 1 .. Len(pos) : es[i] \in Entry
    BY <1>4
  <2>. QED
    BY <1>4, <1>5, <2>1, WriteIs
<1>. HIDE DEF e
<1>7. DiskShape(e) /\ e.fat = d.fat /\ e.bytes = d.bytes
  BY <1>6 DEF Wrote
<1>8. IsDir(e, dir) /\ Positions(e, dir) = q
  BY <1>7, SameFat
<1>9. /\ t \in Seq(Entry) /\ Len(t) = Len(q)
      /\ \A i \in 1 .. Len(t) : t[i] = At(e, Positions(e, dir)[i])
  BY <1>7, <1>8, StoredIs, Zenon
<1>10. \A x : x \in Range(pos) <=> \E i \in 1 .. Len(pos) : pos[i] = x
  BY <1>4, InRange, ZenonT(30)
<1>. HIDE DEF s, q, t
<1>a. a \in 1 .. Len(s) /\ b \in a .. Len(s)
  BY DEF s
<1>11. ASSUME NEW k \in 1 .. Len(s), k \notin a .. b PROVE t[k] = s[k] /\ At(e, q[k]) = At(d, q[k])
  <2>1. q[k] \notin Range(pos)
    <3>1. SUFFICES ASSUME NEW i \in 1 .. Len(pos), pos[i] = q[k] PROVE FALSE
      BY <1>10
    <3>2. i \in 1 .. b - a + 1
      BY <1>4
    <3>3. q[a + i - 1] = q[k] /\ a + i - 1 \in 1 .. Len(q) /\ k \in 1 .. Len(q)
      BY <1>1, <1>4, <3>1, <3>2
    <3>4. a + i - 1 = k
      BY <1>2, <3>3
    <3>. QED
      BY <1>1, <1>11, <1>a, <3>2, <3>4
  <2>2. At(e, q[k]) = At(d, q[k])
    BY <1>1, <1>6, <2>1 DEF Wrote
  <2>. QED
    BY <1>1, <1>8, <1>9, <2>2
<1>12. ASSUME NEW k \in a .. b PROVE t[k] = es[k - a + 1]
  <2>1. k - a + 1 \in 1 .. Len(pos) /\ a + (k - a + 1) - 1 = k /\ k \in 1 .. Len(s)
    BY <1>1, <1>4, <1>a
  <2>2. pos[k - a + 1] = q[k]
    BY <1>4, <2>1
  <2>3. At(e, q[k]) = es[k - a + 1]
    BY <1>6, <2>1, <2>2 DEF Wrote
  <2>. QED
    BY <1>1, <1>8, <1>9, <2>1, <2>3
<1>13. Rewritten(s, t, a, b)
  BY <1>1, <1>9, <1>11, <1>a DEF Rewritten
<1>14. ASSUME NEW x, IsDir(d, x), Area(d, x) \cap Area(d, dir) = {}
       PROVE  /\ Stored(e, x) = Stored(d, x) /\ Refs(e, x) = Refs(d, x)
              /\ \A p \in Refs(d, x) : At(e, p) = At(d, p)
  <2>1. \A p \in Range(pos) : p \in Places(d, dir)
    <3>1. SUFFICES ASSUME NEW i \in 1 .. Len(pos) PROVE pos[i] \in Places(d, dir)
      BY <1>10
    <3>2. i \in 1 .. b - a + 1
      BY <1>4
    <3>3. pos[i] = q[a + i - 1] /\ a + i - 1 \in 1 .. Len(q)
      BY <1>4, <3>2
    <3>. QED
      BY <1>1, <3>3
  <2>2. \A p \in Range(pos) : p \notin Places(d, x)
    BY <1>14, <2>1, PlaceIs, Zenon
  <2>3. Stored(e, x) = Stored(d, x) /\ Refs(e, x) = Refs(d, x)
        /\ \A p \in Places(d, x) : At(e, p) = At(d, p)
    BY <1>6, <1>14, <2>2, WroteElsewhere
  <2>. QED
    BY <2>3 DEF Refs
<1>. QED
  BY <1>7, <1>11, <1>12, <1>13, <1>14 DEF Windowed, s, q, t, e

(* One item of a directory changes at most, number k. *)
OneChanged(d, e, dir, p) ==
    /\ Refs(e, dir) = (Refs(d, dir) \ {p}) \cup {q \in {p} : IsItem(At(e, p))}
    /\ \A q \in Refs(d, dir) : q # p => At(e, q) = At(d, q)
    /\ \A x \in Tops(d) : x # dir =>
        /\ Refs(e, x) = Refs(d, x) /\ Stored(e, x) = Stored(d, x)
        /\ p \notin Refs(d, x)
        /\ \A q \in Refs(d, x) : At(e, q) = At(d, q)
ChangedAt(d, e, dir, k, p) ==
    /\ At(d, p) = Stored(d, dir)[k] /\ At(e, p) = Stored(e, dir)[k]
    /\ p \in Places(d, dir) /\ p \in Cells /\ OneChanged(d, e, dir, p)

LEMMA OneItem ==
    ASSUME NEW d, NEW X, Sound(d, X), NEW dir \in Tops(d), NEW a, NEW b, NEW es, NEW e,
           Windowed(d, e, dir, a, b, es), NEW k \in a .. b,
           \A j \in a .. b : j # k => ~ IsItem(Stored(d, dir)[j]) /\ ~ IsItem(Stored(e, dir)[j])
    PROVE  ChangedAt(d, e, dir, k, Positions(d, dir)[k])
<1>. DEFINE s == Stored(d, dir)
            t == Stored(e, dir)
            pos == Positions(d, dir)
            p == pos[k]
<1>1. DiskShape(d) /\ Chained(d) /\ Apart(d)
  BY DEF Sound
<1>2. IsDir(d, dir)
  BY <1>1, TopIs
<1>3. /\ DiskShape(e) /\ e.fat = d.fat /\ Rewritten(s, t, a, b)
      /\ \A j \in 1 .. Len(s) : j \notin a .. b => At(e, pos[j]) = At(d, pos[j])
  BY DEF Windowed
<1>4. IsDir(e, dir) /\ Positions(e, dir) = pos
  BY <1>2, <1>3, SameFat
<1>5. /\ Len(s) \in Nat
      /\ \A j \in 1 .. Len(s) : /\ pos[j] \in Refs(d, dir) <=> IsItem(s[j])
                                /\ At(d, pos[j]) = s[j] /\ pos[j] \in Places(d, dir)
                                /\ pos[j] \in Cells
      /\ \A q \in Refs(d, dir) : \E j \in 1 .. Len(s) : pos[j] = q
      /\ \A i, j \in 1 .. Len(s) : pos[i] = pos[j] => i = j
  <2>1. Numbered(d, dir, s, pos)
    BY <1>1, <1>2, RefIndex
  <2>. HIDE DEF s, pos
  <2>. QED
    BY <2>1 DEF Numbered
<1>6. /\ \A j \in 1 .. Len(t) : /\ Positions(e, dir)[j] \in Refs(e, dir) <=> IsItem(t[j])
                                /\ At(e, Positions(e, dir)[j]) = t[j]
      /\ \A q \in Refs(e, dir) : \E j \in 1 .. Len(t) : Positions(e, dir)[j] = q
  <2>1. Numbered(e, dir, t, Positions(e, dir))
    BY <1>3, <1>4, RefIndex
  <2>. HIDE DEF t
  <2>. QED
    BY <2>1 DEF Numbered
<1>7. \A j \in a .. b : j # k => ~ IsItem(s[j]) /\ ~ IsItem(t[j])
  OBVIOUS
<1>. HIDE DEF s, t, pos, p
<1>8. /\ Len(t) = Len(s) /\ a \in 1 .. Len(s) /\ b \in a .. Len(s)
      /\ \A j \in 1 .. Len(s) : j \notin a .. b => t[j] = s[j]
  BY <1>3 DEF Rewritten
<1>9. k \in 1 .. Len(s) /\ p = pos[k]
  BY <1>5, <1>8 DEF p
<1>10. At(d, p) = s[k] /\ At(e, p) = t[k] /\ p \in Places(d, dir) /\ p \in Cells
  BY <1>4, <1>5, <1>6, <1>8, <1>9
<1>11. ASSUME NEW j \in 1 .. Len(s), j # k
       PROVE  /\ IsItem(s[j]) <=> IsItem(t[j])
              /\ IsItem(s[j]) => At(e, pos[j]) = At(d, pos[j])
              /\ pos[j] # p
  BY <1>3, <1>5, <1>7, <1>8, <1>9, <1>11
<1>12. \A q : q \in Refs(e, dir) <=> (q \in Refs(d, dir) /\ q # p) \/ (q = p /\ IsItem(At(e, p)))
  <2>1. SUFFICES ASSUME NEW q
                 PROVE  q \in Refs(e, dir) <=> (q \in Refs(d, dir) /\ q # p)
                                               \/ (q = p /\ IsItem(At(e, p)))
    OBVIOUS
  <2>2. CASE \E j \in 1 .. Len(s) : pos[j] = q
    <3>1. PICK j \in 1 .. Len(s) : pos[j] = q
      BY <2>2
    <3>2. q \in Refs(e, dir) <=> IsItem(t[j])
      BY <1>4, <1>6, <1>8, <3>1
    <3>3. q \in Refs(d, dir) <=> IsItem(s[j])
      BY <1>5, <3>1
    <3>4. CASE j = k
      BY <1>9, <1>10, <3>1, <3>2, <3>4
    <3>5. CASE j # k
      BY <1>11, <3>1, <3>2, <3>3, <3>5
    <3>. QED
      BY <3>4, <3>5
  <2>3. CASE ~ \E j \in 1 .. Len(s) : pos[j] = q
    <3>1. q \notin Refs(e, dir)
      BY <1>4, <1>6, <1>8, <2>3
    <3>2. q \notin Refs(d, dir)
      BY <1>5, <2>3
    <3>3. q # p
      BY <1>9, <2>3
    <3>. QED
      BY <3>1, <3>2, <3>3
  <2>. QED
    BY <2>2, <2>3
<1>13. Refs(e, dir) = (Refs(d, dir) \ {p}) \cup {q \in {p} : IsItem(At(e, p))}
  BY <1>12
<1>14. ASSUME NEW q \in Refs(d, dir), q # p PROVE At(e, q) = At(d, q)
  <2>1. PICK j \in 1 .. Len(s) : pos[j] = q
    BY <1>5
  <2>2. j # k /\ IsItem(s[j])
    BY <1>5, <1>9, <1>14, <2>1
  <2>. QED
    BY <1>11, <2>1, <2>2
<1>15. ASSUME NEW x \in Tops(d), x # dir
       PROVE  /\ Refs(e, x) = Refs(d, x) /\ Stored(e, x) = Stored(d, x)
              /\ p \notin Refs(d, x)
              /\ \A q \in Refs(d, x) : At(e, q) = At(d, q)
  <2>1. Area(d, x) \cap Area(d, dir) = {}
    BY <1>1, <1>15, AreasApart
  <2>2. Places(d, x) \cap Places(d, dir) = {}
    BY <1>1, <1>15, PlacesApart
  <2>3. IsDir(d, x)
    BY <1>1, TopIs
  <2>4. p \notin Refs(d, x)
    BY <1>10, <2>2 DEF Refs
  <2>5. /\ Refs(e, x) = Refs(d, x) /\ Stored(e, x) = Stored(d, x)
        /\ \A q \in Refs(d, x) : At(e, q) = At(d, q)
    BY <2>1, <2>3 DEF Windowed
  <2>. QED
    BY <2>4, <2>5
<1>16. OneChanged(d, e, dir, p)
  BY <1>13, <1>14, <1>15 DEF OneChanged
<1>. QED
  BY <1>10, <1>16 DEF p, s, t, pos, ChangedAt

(* The names of all items but those in the window stay. *)
LEMMA WindowNames ==
    ASSUME NEW d, NEW X, Sound(d, X), NEW dir \in Tops(d), NEW a, NEW b, NEW es, NEW e,
           Windowed(d, e, dir, a, b, es),
           Stored(d, dir)[b].kind # "lfn", Stored(e, dir)[b].kind # "lfn",
           NEW x \in Tops(d), NEW k \in 1 .. Len(Stored(d, x)), IsItem(Stored(d, x)[k]),
           x = dir => k \notin a .. b
    PROVE  SameName(d, e, x, k)
<1>1. DiskShape(d) /\ Chained(d) /\ Apart(d)
  BY DEF Sound
<1>2. IsDir(d, dir) /\ IsDir(d, x)
  BY <1>1, TopIs
<1>3. e.fat = d.fat /\ Rewritten(Stored(d, dir), Stored(e, dir), a, b)
  BY DEF Windowed
<1>4. Positions(e, x) = Positions(d, x)
  BY <1>3, SameFat
<1>5. CASE x = dir
  <2>. DEFINE s == Stored(d, dir)
              t == Stored(e, dir)
  <2>1. s \in Seq(Entry)
    BY <1>1, <1>2, StoredIs, Zenon
  <2>2. Rewritten(s, t, a, b) /\ s[b].kind # "lfn" /\ t[b].kind # "lfn"
    BY <1>3
  <2>3. k \in 1 .. Len(s) /\ k \notin a .. b /\ IsItem(s[k])
    BY <1>5
  <2>. HIDE DEF s, t
  <2>4. fat16_get_item_name(t, k) = fat16_get_item_name(s, k)
    BY <2>1, <2>2, <2>3, RewrittenCounts
  <2>5. k \in 1 .. Len(t) /\ t[k] = s[k]
    BY <2>2, <2>3 DEF Rewritten
  <2>. QED
    BY <1>4, <1>5, <2>3, <2>4, <2>5 DEF SameName, s, t
<1>6. CASE x # dir
  <2>1. Area(d, x) \cap Area(d, dir) = {}
    BY <1>1, <1>6, AreasApart
  <2>2. Stored(e, x) = Stored(d, x)
    BY <1>2, <2>1 DEF Windowed
  <2>. QED
    BY <1>4, <2>2 DEF SameName
<1>. QED
  BY <1>5, <1>6

LEMMA OwnOfOne == ASSUME NEW d, NEW p PROVE OwnOf(d, {p}) = Own(d, p) /\ OwnOf(d, {}) = {}
  BY DEF OwnOf

LEMMA OnePosition ==
    ASSUME NEW S, NEW s \in Seq(S), NEW k \in 1 .. Len(s)
    PROVE  SubSeq(s, k, k) = <<s[k]>>
<1>1. k \in Int /\ k - k + 1 = 1
  OBVIOUS
<1>2. SubSeq(s, k, k) = [i \in 1 .. k - k + 1 |-> s[k + i - 1]]
  OBVIOUS
<1>3. \A i \in 1 .. 1 : i = 1 /\ k + i - 1 = k
  BY <1>1
<1>4. [i \in 1 .. k - k + 1 |-> s[k + i - 1]] = [i \in 1 .. 1 |-> s[k]]
  BY <1>1, <1>3
<1>5. [i \in 1 .. 1 |-> s[k]] = <<s[k]>>
  OBVIOUS
<1>. QED
  BY <1>2, <1>4, <1>5

(* The item of a file is written back: with another size, or with other    *)
(* clusters, which were spare or its own.                                  *)
LEMMA Replaced ==
    ASSUME NEW d, NEW X, Sound(d, X), NEW p \in AllRefs(d), At(d, p).kind = "file",
           NEW item \in Items, item.kind = "file", item.short = At(d, p).short,
           HasChain(d, item.first), Range(Chain(d, item.first)) \subseteq X \cup Own(d, p),
           NEW e, e = fat16_write_dir_entry(d, <<p>>, <<item>>)
    PROVE  /\ DiskShape(e) /\ e.fat = d.fat /\ e.bytes = d.bytes
           /\ Tops(e) = Tops(d) /\ AllRefs(e) = AllRefs(d)
           /\ At(e, p) = item /\ \A q \in AllRefs(d) : q # p => At(e, q) = At(d, q)
           /\ Sound(e, (X \cup Own(d, p)) \ Range(Chain(d, item.first)))
           /\ Follows(d, e)
<1>1. DiskShape(d) /\ Chained(d) /\ Apart(d) /\ DirsGood(d)
  BY DEF Sound
<1>2. PICK dir \in Tops(d) : p \in Refs(d, dir) /\ IsDir(d, dir)
  BY <1>1, AllRefIs
<1>. DEFINE s == Stored(d, dir)
            pos == Positions(d, dir)
            t == Stored(e, dir)
<1>a. Numbered(d, dir, s, pos)
  BY <1>1, <1>2, RefIndex
<1>3. PICK k \in 1 .. Len(s) : pos[k] = p
  BY <1>2, <1>a DEF Numbered
<1>4. Len(s) \in Nat /\ Len(s) = Len(pos) /\ pos \in Seq(Places(d, dir)) /\ At(d, p) = s[k]
      /\ s \in Seq(Entry)
  <2>. HIDE DEF s, pos
  <2>. QED
    BY <1>3, <1>a DEF Numbered
<1>5. Windowed(d, e, dir, k, k, <<item>>)
  <2>1. <<p>> = SubSeq(pos, k, k)
    <3>. HIDE DEF s, pos
    <3>. QED
      BY <1>3, <1>4, OnePosition
  <2>2. \A i \in 1 .. k - k + 1 : <<item>>[i] \in Entry
    BY <1>3, <1>4 DEF Entry
  <2>3. k \in k .. Len(s)
    BY <1>3, <1>4
  <2>. QED
    BY <1>1, <1>2, <1>3, <2>1, <2>2, <2>3, Window
<1>6. DiskShape(e) /\ e.fat = d.fat /\ e.bytes = d.bytes /\ Rewritten(s, t, k, k) /\ t[k] = item
  <2>1. /\ DiskShape(e) /\ e.fat = d.fat /\ e.bytes = d.bytes /\ Rewritten(s, t, k, k)
        /\ \A j \in k .. k : t[j] = <<item>>[j - k + 1]
    BY <1>5 DEF Windowed
  <2>2. k \in k .. k /\ k - k + 1 = 1 /\ <<item>>[1] = item
    BY <1>3, <1>4
  <2>. QED
    BY <2>1, <2>2
<1>7. /\ At(e, p) = item
      /\ Refs(e, dir) = (Refs(d, dir) \ {p}) \cup {q \in {p} : IsItem(At(e, p))}
      /\ \A q \in Refs(d, dir) : q # p => At(e, q) = At(d, q)
      /\ \A x \in Tops(d) : x # dir =>
            /\ Refs(e, x) = Refs(d, x) /\ Stored(e, x) = Stored(d, x)
            /\ p \notin Refs(d, x)
            /\ \A q \in Refs(d, x) : At(e, q) = At(d, q)
  <2>1. k \in k .. k /\ \A j \in k .. k : j # k => ~ IsItem(s[j]) /\ ~ IsItem(t[j])
    BY <1>3, <1>4
  <2>2. ChangedAt(d, e, dir, k, pos[k])
    BY <1>5, <2>1, OneItem
  <2>. HIDE DEF t, pos
  <2>. QED
    BY <1>3, <1>6, <2>2 DEF ChangedAt, OneChanged, t
<1>8. Refs(e, dir) = Refs(d, dir)
  BY <1>2, <1>7, Kinds
<1>9. \A x \in Tops(d) : Refs(e, x) = Refs(d, x)
  BY <1>7, <1>8
<1>10. \A q \in AllRefs(d) : q # p => At(e, q) = At(d, q)
  BY <1>7 DEF AllRefs
<1>11. Tops(e) = Tops(d)
  <2>1. Refs(e, ROOT) = Refs(d, ROOT) /\ Refs(d, ROOT) \subseteq AllRefs(d)
    BY <1>9, RootIsDir, RefsIn
  <2>2. \A q \in Refs(d, ROOT) : /\ At(e, q).kind = "dir" <=> At(d, q).kind = "dir"
                                 /\ At(d, q).kind = "dir" => At(e, q).first = At(d, q).first
    BY <1>7, <1>10, <2>1
  <2>. QED
    BY <2>1, <2>2 DEF Tops
<1>12. AllRefs(e) = AllRefs(d)
  BY <1>9, <1>11 DEF AllRefs
<1>13. DirsGood(e)
  <2>1. GoodDir(t)
    <3>1. GoodDir(s) /\ IsItem(s[k]) /\ t[k].short = s[k].short /\ IsItem(t[k])
      BY <1>1, <1>2, <1>4, <1>6, Kinds DEF DirsGood, Refs
    <3>. HIDE DEF s, t
    <3>. QED
      BY <1>6, <3>1, ItemReplaced
  <2>2. \A x \in Tops(d) : GoodDir(Stored(e, x))
    BY <1>1, <1>7, <2>1 DEF DirsGood
  <2>. QED
    BY <1>11, <2>2 DEF DirsGood
<1>14. Own(e, p) = Range(Chain(d, item.first))
  <2>1. Chain(e, item.first) = Chain(d, item.first)
    BY <1>6, SameFat
  <2>. QED
    BY <1>7, <2>1 DEF Own
<1>15. Exchanges(d, e, {p}, {p})
  <2>1. AllRefs(e) = (AllRefs(d) \ {p}) \cup {p}
    BY <1>12
  <2>2. ~ (At(e, p).kind = "dir")
    BY <1>7
  <2>. QED
    BY <1>7, <1>10, <2>1, <2>2 DEF Exchanges
<1>16. Sound(e, (X \cup OwnOf(d, {p})) \ OwnOf(e, {p}))
  <2>1. \A q \in {p} : Own(e, q) \subseteq X \cup OwnOf(d, {p})
    BY <1>14, OwnOfOne
  <2>. QED
    BY <1>6, <1>13, <1>15, <2>1, Exchange
<1>17. ASSUME NEW x \in Tops(d), NEW i \in 1 .. Len(Stored(d, x)), IsItem(Stored(d, x)[i])
       PROVE  SameName(d, e, x, i)
  <2>1. IsItem(s[k]) /\ s[k].short = t[k].short /\ IsItem(t[k])
    BY <1>2, <1>4, <1>6, Kinds DEF Refs
  <2>2. CASE x = dir /\ i = k
    <3>. HIDE DEF s, t
    <3>1. \A j \in 1 .. k - 1 : s[j] = t[j]
      <4>1. \A j \in 1 .. k - 1 : j \in 1 .. Len(s) /\ j \notin k .. k
        BY <1>3, <1>4
      <4>. QED
        BY <1>6, <4>1 DEF Rewritten
    <3>2. k \in Nat \ {0} /\ 0 \in 0 .. k - 1 /\ \A j \in 0 + 1 .. k - 1 : s[j] = t[j]
      BY <1>3, <1>4, <3>1
    <3>3. fat16_lfn_count(s, k) = fat16_lfn_count(t, k)
      BY <2>1, <3>2, CountKept
    <3>4. fat16_lfn_count(s, k) # 0 => s[k - 1] = t[k - 1]
      <4>1. fat16_lfn_count(s, k) \in 0 .. k - 1
        BY <3>2, CountIs, Zenon
      <4>2. fat16_lfn_count(s, k) # 0 => k - 1 \in 1 .. k - 1
        BY <3>2, <4>1
      <4>. QED
        BY <3>1, <4>2
    <3>5. fat16_get_item_name(t, k) = fat16_get_item_name(s, k)
      BY <2>1, <3>3, <3>4, NameKept
    <3>6. Positions(e, dir) = Positions(d, dir)
      BY <1>6, SameFat
    <3>7. k \in 1 .. Len(t)
      BY <1>3, <1>6 DEF Rewritten
    <3>. QED
      BY <2>1, <2>2, <3>5, <3>6, <3>7 DEF SameName, s, t
  <2>3. CASE ~ (x = dir /\ i = k)
    <3>1. s[k].kind # "lfn" /\ t[k].kind # "lfn"
      BY <2>1 DEF IsItem
    <3>2. x = dir => i \notin k .. k
      BY <1>3, <1>4, <2>3
    <3>. QED
      BY <1>5, <1>17, <3>1, <3>2, WindowNames
  <2>. QED
    BY <2>2, <2>3
<1>18. Sound(e, (X \cup Own(d, p)) \ Range(Chain(d, item.first)))
  BY <1>14, <1>16, OwnOfOne
<1>19. Follows(d, e)
  <2>1. DiskShape(e) /\ Chained(e)
    BY <1>18 DEF Sound
  <2>. QED
    BY <1>1, <1>11, <1>17, <2>1, FollowsIs
<1>. QED
  BY <1>6, <1>7, <1>10, <1>11, <1>12, <1>18, <1>19

(* An item is deleted, and the parts of its name.  Its clusters are left   *)
(* to be freed.                                                            *)
Erases(d, e, X, p, item) ==
    /\ DiskShape(e) /\ e.fat = d.fat /\ e.bytes = d.bytes
    /\ p \in AllRefs(d) /\ AllRefs(e) = AllRefs(d) \ {p}
    /\ \A q \in AllRefs(e) : At(e, q) = At(d, q)
    /\ At(d, p) = item
    /\ Follows(d, e) /\ \A x \in Tops(d) : x \notin Tops(e) => Refs(d, x) = {}
    /\ Sound(e, X \cup Own(d, p))
LEMMA Erased ==
    ASSUME NEW d, NEW X, Sound(d, X), NEW dir \in Tops(d),
           NEW k \in 1 .. Len(Stored(d, dir)), IsItem(Stored(d, dir)[k]),
           dir = ROOT /\ Stored(d, dir)[k].kind = "dir" => Refs(d, Stored(d, dir)[k].first) = {},
           NEW n, n = fat16_lfn_count(Stored(d, dir), k),
           NEW e, e = fat16_write_dir_entry(d, SubSeq(Positions(d, dir), k - n, k),
                                            [i \in 1 .. n + 1 |-> Deleted])
    PROVE  Erases(d, e, X, Positions(d, dir)[k], Stored(d, dir)[k])
<1>. DEFINE s == Stored(d, dir)
            pos == Positions(d, dir)
            t == Stored(e, dir)
            p == pos[k]
            es == [i \in 1 .. n + 1 |-> Deleted]
<1>1. DiskShape(d) /\ Chained(d) /\ Apart(d) /\ DirsGood(d)
  BY DEF Sound
<1>2. IsDir(d, dir)
  BY <1>1, TopIs
<1>3. s \in Seq(Entry) /\ GoodDir(s) /\ Len(s) \in Nat
  <2>1. s \in Seq(Entry) /\ Len(s) \in Nat
    BY <1>1, <1>2, StoredIs, Zenon
  <2>2. GoodDir(s)
    BY <1>1 DEF DirsGood
  <2>. QED
    BY <2>1, <2>2
<1>4. n \in 0 .. k - 1
  <2>1. k \in Nat \ {0}
    BY <1>3
  <2>. QED
    BY <2>1, CountIs, Zenon
<1>5. k - n \in 1 .. Len(s) /\ k \in k - n .. Len(s)
  BY <1>3, <1>4
<1>6. Windowed(d, e, dir, k - n, k, es)
  <2>1. \A i \in 1 .. k - (k - n) + 1 : es[i] \in Entry
    BY <1>3, <1>4 DEF Entry
  <2>. HIDE DEF es
  <2>2. e = fat16_write_dir_entry(d, SubSeq(pos, k - n, k), es)
    BY DEF es
  <2>. QED
    BY <1>1, <1>2, <1>5, <2>1, <2>2, Window
<1>7. /\ DiskShape(e) /\ e.fat = d.fat /\ e.bytes = d.bytes
      /\ Rewritten(s, t, k - n, k) /\ \A j \in k - n .. k : t[j] = Deleted
  <2>1. DiskShape(e) /\ e.fat = d.fat /\ e.bytes = d.bytes /\ Rewritten(s, t, k - n, k)
    BY <1>6 DEF Windowed
  <2>2. \A j \in k - n .. k : t[j] = es[j - (k - n) + 1]
    BY <1>6 DEF Windowed
  <2>3. \A j \in k - n .. k : j - (k - n) + 1 \in 1 .. n + 1
    BY <1>3, <1>4
  <2>. HIDE DEF t, s
  <2>4. \A j \in k - n .. k : t[j] = Deleted
    BY <2>2, <2>3
  <2>. QED
    BY <2>1, <2>4
<1>8. GoodDir(t) /\ \A j \in 1 .. Len(s) : IsItem(t[j]) <=> IsItem(s[j]) /\ j # k
  <2>1. /\ GoodDir(s) /\ k \in 1 .. Len(s) /\ IsItem(s[k])
        /\ Rewritten(s, t, k - fat16_lfn_count(s, k), k)
        /\ \A j \in k - fat16_lfn_count(s, k) .. k : t[j] = Deleted
    BY <1>3, <1>7
  <2>. HIDE DEF s, t
  <2>. QED
    BY <2>1, ItemErased
<1>9. \A j \in k - n .. k : j # k => ~ IsItem(s[j]) /\ ~ IsItem(t[j])
  <2>1. SUFFICES ASSUME NEW j \in k - n .. k, j # k PROVE ~ IsItem(s[j]) /\ ~ IsItem(t[j])
    OBVIOUS
  <2>2. ~ IsItem(t[j])
    BY <1>7, Kinds
  <2>3. Part(s, k, k - j)
    <3>1. k - j \in 1 .. n
      BY <1>3, <1>4, <2>1
    <3>2. k \in Nat \ {0}
      BY <1>3
    <3>3. \A m \in 1 .. n : Part(s, k, m)
      BY <3>2, CountIs, Zenon
    <3>. QED
      BY <3>1, <3>3
  <2>4. s[j].kind = "lfn"
    <3>1. k - (k - j) = j
      BY <1>3, <1>4
    <3>. QED
      BY <2>3, <3>1 DEF Part
  <2>. QED
    BY <2>2, <2>4 DEF IsItem
<1>10. /\ At(d, p) = s[k] /\ At(e, p) = t[k] /\ p \in Places(d, dir)
       /\ Refs(e, dir) = (Refs(d, dir) \ {p}) \cup {q \in {p} : IsItem(At(e, p))}
       /\ \A q \in Refs(d, dir) : q # p => At(e, q) = At(d, q)
       /\ \A x \in Tops(d) : x # dir =>
            /\ Refs(e, x) = Refs(d, x) /\ Stored(e, x) = Stored(d, x)
            /\ p \notin Refs(d, x)
            /\ \A q \in Refs(d, x) : At(e, q) = At(d, q)
  <2>1. k \in k - n .. k
    BY <1>3, <1>4
  <2>2. Windowed(d, e, dir, k - n, k, es) /\ \A j \in k - n .. k : j # k => ~ IsItem(s[j]) /\ ~ IsItem(t[j])
    BY <1>6, <1>9
  <2>. HIDE DEF es
  <2>3. ChangedAt(d, e, dir, k, p)
    BY <2>1, <2>2, OneItem
  <2>. HIDE DEF p
  <2>. QED
    BY <2>3 DEF ChangedAt, OneChanged
<1>. HIDE DEF es, pos, p, s, t
<1>11. IsItem(At(d, p)) /\ p \in Refs(d, dir) /\ ~ IsItem(At(e, p))
  <2>1. t[k] = Deleted
    BY <1>3, <1>4, <1>7
  <2>. QED
    BY <1>10, <2>1, Kinds DEF Refs, s
<1>12. Refs(e, dir) = Refs(d, dir) \ {p}
  BY <1>10, <1>11
<1>13. \A x \in Tops(d) : /\ Refs(e, x) = Refs(d, x) \ {p}
                          /\ \A q \in Refs(d, x) : q # p => At(e, q) = At(d, q)
                          /\ GoodDir(Stored(e, x))
  BY <1>1, <1>8, <1>10, <1>12 DEF DirsGood, s, t
<1>14. p \in AllRefs(d)
  BY <1>11, RefsIn
<1>15. Refs(e, ROOT) = Refs(d, ROOT) \ {p} /\ \A q \in Refs(d, ROOT) : q # p => At(e, q) = At(d, q)
  BY <1>13, RootIsDir
<1>16. Tops(e) \subseteq Tops(d)
  BY <1>15 DEF Tops
<1>17. ASSUME NEW x \in Tops(d), x \notin Tops(e) PROVE Refs(d, x) = {}
  <2>1. x # ROOT
    BY <1>17, RootIsDir
  <2>2. PICK q \in Refs(d, ROOT) : At(d, q).kind = "dir" /\ At(d, q).first = x
    BY <2>1 DEF Tops
  <2>3. q = p
    BY <1>15, <1>17, <2>2 DEF Tops
  <2>4. dir = ROOT
    BY <1>10, <2>2, <2>3, RootIsDir
  <2>. QED
    BY <1>10, <2>2, <2>3, <2>4 DEF s
<1>18. AllRefs(e) = AllRefs(d) \ {p}
  <2>1. \A q : q \in AllRefs(e) <=> \E x \in Tops(e) : q \in Refs(e, x)
    BY DEF AllRefs
  <2>2. \A q : q \in AllRefs(d) <=> \E x \in Tops(d) : q \in Refs(d, x)
    BY DEF AllRefs
  <2>3. ASSUME NEW q \in AllRefs(e) PROVE q \in AllRefs(d) /\ q # p
    <3>1. PICK x \in Tops(e) : q \in Refs(e, x)
      BY <2>1
    <3>2. x \in Tops(d) /\ q \in Refs(d, x) /\ q # p
      BY <1>13, <1>16, <3>1
    <3>. QED
      BY <2>2, <3>2
  <2>4. ASSUME NEW q \in AllRefs(d), q # p PROVE q \in AllRefs(e)
    <3>1. PICK x \in Tops(d) : q \in Refs(d, x)
      BY <2>2
    <3>2. x \in Tops(e)
      BY <1>17, <3>1
    <3>. QED
      BY <1>13, <2>1, <2>4, <3>1, <3>2
  <2>. QED
    BY <2>3, <2>4
<1>19. \A q \in AllRefs(e) : At(e, q) = At(d, q)
  <2>1. SUFFICES ASSUME NEW q \in AllRefs(d), q # p PROVE At(e, q) = At(d, q)
    BY <1>18
  <2>2. PICK x \in Tops(d) : q \in Refs(d, x)
    BY DEF AllRefs
  <2>. QED
    BY <1>13, <2>1, <2>2
<1>20. DirsGood(e)
  BY <1>13, <1>16 DEF DirsGood
<1>21. Exchanges(d, e, {p}, {})
  BY <1>14, <1>18, <1>19 DEF Exchanges
<1>22. Sound(e, (X \cup OwnOf(d, {p})) \ OwnOf(e, {}))
  <2>1. \A q \in {} : Own(e, q) \subseteq X \cup OwnOf(d, {p})
    OBVIOUS
  <2>. QED
    BY <1>7, <1>20, <1>21, <2>1, Exchange
<1>23. Sound(e, X \cup Own(d, p))
  <2>1. (X \cup OwnOf(d, {p})) \ OwnOf(e, {}) = X \cup Own(d, p)
    BY OwnOfOne
  <2>. QED
    BY <1>22, <2>1
<1>24. Follows(d, e)
  <2>1. ASSUME NEW x \in Tops(d), NEW i \in 1 .. Len(Stored(d, x)), IsItem(Stored(d, x)[i]),
               Positions(d, x)[i] \in AllRefs(e)
        PROVE  SameName(d, e, x, i)
    <3>1. s[k].kind # "lfn" /\ t[k].kind # "lfn"
      <4>1. t[k] = Deleted
        BY <1>3, <1>4, <1>7
      <4>. QED
        BY <4>1, Kinds DEF s, IsItem
    <3>2. x = dir => i # k
      BY <1>18, <2>1 DEF p, pos
    <3>3. x = dir => i \notin k - n .. k
      BY <1>9, <2>1, <3>2 DEF s
    <3>. QED
      BY <1>6, <2>1, <3>1, <3>3, WindowNames DEF s, t
  <2>2. DiskShape(e) /\ Chained(e)
    BY <1>23 DEF Sound
  <2>. QED
    BY <1>1, <1>17, <2>1, <2>2, FollowsIs
<1>. QED
  BY <1>7, <1>10, <1>14, <1>17, <1>18, <1>19, <1>23, <1>24 DEF p, pos, s, Erases

(* The entries that are written for a new item *)
LEMMA NewEntries ==
    ASSUME NEW name \in Names, NEW item \in Items
    PROVE  /\ PartsOf(name) \in Nat
           /\ Len(NewItems(name, item)) = PartsOf(name) + 1
           /\ NewItems(name, item)[PartsOf(name) + 1] = item
           /\ \A i \in 1 .. PartsOf(name) + 1 : NewItems(name, item)[i] \in Entry
           /\ \A i \in 1 .. PartsOf(name) : ~ IsItem(NewItems(name, item)[i])
<1>. DEFINE n == PartsOf(name)
<1>1. n \in Nat /\ (n # 0 => name \in Long)
  BY FatAssumption DEF Names, PartsOf
<1>2. NewItems(name, item) = [i \in 1 .. n + 1 |-> IF i = n + 1 THEN item
                                        ELSE Lfn(n + 1 - i, i = 1, item.short, name)]
  BY DEF NewItems, PartsOf
<1>. HIDE DEF n
<1>3. Len(NewItems(name, item)) = n + 1 /\ NewItems(name, item)[n + 1] = item
  BY <1>1, <1>2
<1>4. ASSUME NEW i \in 1 .. n
      PROVE  NewItems(name, item)[i] \in Entry /\ ~ IsItem(NewItems(name, item)[i])
  <2>. DEFINE last == i = 1
  <2>1. NewItems(name, item)[i] = Lfn(n + 1 - i, last, item.short, name)
    BY <1>1, <1>2
  <2>2. last \in BOOLEAN /\ n + 1 - i \in Nat \ {0} /\ item.short \in ShortNames /\ name \in Long
    BY <1>1, Kinds
  <2>. HIDE DEF last
  <2>3. Lfn(n + 1 - i, last, item.short, name) \in Lfns
    BY <2>2 DEF Lfn, Lfns
  <2>. QED
    BY <2>1, <2>3, Kinds DEF Entry
<1>5. ASSUME NEW i \in 1 .. n + 1 PROVE NewItems(name, item)[i] \in Entry
  <2>1. i \in 1 .. n \/ i = n + 1
    BY <1>1
  <2>. QED
    BY <1>3, <1>4, <2>1 DEF Entry
<1>. QED
  BY <1>1, <1>3, <1>4, <1>5 DEF n

(* A new item takes a free place; a new directory has no items.            *)
TakesPlace(d, e, X, dir, p, name, item) ==
    /\ DiskShape(e) /\ e.fat = d.fat /\ e.bytes = d.bytes
    /\ p \in Cells /\ p \notin AllRefs(d) /\ AllRefs(e) = AllRefs(d) \cup {p}
    /\ At(e, p) = item /\ \A q \in AllRefs(d) : At(e, q) = At(d, q)
    /\ Sound(e, X \ Range(Chain(d, item.first)))
    /\ Follows(d, e) /\ dir \in Tops(e) /\ p \in Refs(e, dir) /\ NameIn(e, dir, p) = Fold(name)

LEMMA Added ==
    ASSUME NEW d, NEW X, Sound(d, X), NEW dir \in Tops(d),
           NEW name \in Names, NEW item \in Items,
           NEW a \in 1 .. Len(Stored(d, dir)), NEW b \in a .. Len(Stored(d, dir)),
           FreePlace(Stored(d, dir), a, b, name),
           NewNames(Stored(d, dir), name, item.short),
           HasChain(d, item.first), Range(Chain(d, item.first)) \subseteq X,
           item.kind = "dir" => item.first \in Clusters,
           item.kind = "dir" /\ dir = ROOT =>
                Refs(d, item.first) = {} /\ GoodDir(Stored(d, item.first)),
           NEW e, e = fat16_write_dir_entry(d, SubSeq(Positions(d, dir), a, b),
                                            NewItems(name, item))
    PROVE  TakesPlace(d, e, X, dir, Positions(d, dir)[b], name, item)
<1>. DEFINE s == Stored(d, dir)
            pos == Positions(d, dir)
            t == Stored(e, dir)
            p == pos[b]
            es == NewItems(name, item)
            y == item.first
<1>1. DiskShape(d) /\ Chained(d) /\ Apart(d) /\ DirsGood(d) /\ Spare(d, X)
  BY DEF Sound
<1>2. IsDir(d, dir)
  BY <1>1, TopIs
<1>3. s \in Seq(Entry) /\ GoodDir(s) /\ Len(s) \in Nat
  <2>1. s \in Seq(Entry) /\ Len(s) \in Nat
    BY <1>1, <1>2, StoredIs, Zenon
  <2>2. GoodDir(s)
    BY <1>1 DEF DirsGood
  <2>. QED
    BY <2>1, <2>2
<1>4. b = a + PartsOf(name) /\ PartsOf(name) \in Nat
  BY NewEntries DEF FreePlace
<1>5. Windowed(d, e, dir, a, b, es)
  <2>1. \A i \in 1 .. b - a + 1 : es[i] \in Entry
    <3>1. b - a + 1 = PartsOf(name) + 1
      BY <1>3, <1>4
    <3>. QED
      BY <3>1, NewEntries
  <2>. HIDE DEF es
  <2>2. e = fat16_write_dir_entry(d, SubSeq(pos, a, b), es)
    BY DEF es
  <2>. QED
    BY <1>1, <1>2, <2>1, <2>2, Window
<1>6. /\ DiskShape(e) /\ e.fat = d.fat /\ e.bytes = d.bytes
      /\ Rewritten(s, t, a, b) /\ \A j \in a .. b : t[j] = es[j - a + 1]
  BY <1>5 DEF Windowed
<1>. HIDE DEF s, t, es, pos
<1>7. Adds(s, t, a, b, name, item)
  BY <1>6 DEF Adds, es, s
<1>8. /\ GoodDir(t) /\ t[b] = item
      /\ \A k \in 1 .. Len(s) : IsItem(t[k]) <=> IsItem(s[k]) \/ k = b
      /\ \A k \in a .. b : ~ IsItem(s[k])
      /\ fat16_get_item_name(t, b) = Fold(name)
  BY <1>3, <1>7, ItemAdded
<1>9. b \in a .. b /\ \A j \in a .. b : j # b => ~ IsItem(s[j]) /\ ~ IsItem(t[j])
  <2>1. b \in a .. b /\ \A j \in a .. b : j \in 1 .. Len(s)
    BY <1>3, <1>4 DEF s
  <2>. QED
    BY <1>8, <2>1
<1>10. ChangedAt(d, e, dir, b, p)
  BY <1>5, <1>9, OneItem DEF s, t, pos
<1>11. p \in Cells /\ p \in Places(d, dir) /\ At(e, p) = item /\ IsItem(At(e, p)) /\ ~ IsItem(At(d, p))
  BY <1>8, <1>9, <1>10, Kinds DEF ChangedAt, s, t
<1>12. \A x \in Tops(d) : x # dir => /\ Refs(e, x) = Refs(d, x) /\ Stored(e, x) = Stored(d, x)
                                     /\ p \notin Refs(d, x)
                                     /\ \A q \in Refs(d, x) : At(e, q) = At(d, q)
  BY <1>10 DEF ChangedAt, OneChanged
<1>13. Refs(e, dir) = Refs(d, dir) \cup {p} /\ p \notin Refs(d, dir)
       /\ \A q \in Refs(d, dir) : At(e, q) = At(d, q)
  <2>1. p \notin Refs(d, dir)
    BY <1>11 DEF Refs
  <2>. QED
    BY <1>10, <1>11, <2>1 DEF ChangedAt, OneChanged
<1>. HIDE DEF p
<1>14. p \notin AllRefs(d) /\ \A q \in AllRefs(d) : At(e, q) = At(d, q)
  <2>1. \A q : q \in AllRefs(d) <=> \E x \in Tops(d) : q \in Refs(d, x)
    BY DEF AllRefs
  <2>. QED
    BY <1>12, <1>13, <2>1
<1>15. /\ Chain(e, y) = Chain(d, y) /\ Range(Chain(d, y)) \subseteq X
       /\ item.kind = "dir" => y \in Clusters /\ IsDir(d, y) /\ Area(d, y) = Range(Chain(d, y)) /\ y # ROOT
  <2>1. Chain(e, y) = Chain(d, y)
    BY <1>6, SameFat
  <2>2. item.kind = "dir" => y \in Clusters /\ IsDir(d, y) /\ Area(d, y) = Range(Chain(d, y)) /\ y # ROOT
    BY Limits DEF IsDir, HasChain, Area
  <2>. QED
    BY <2>1, <2>2
<1>16. ASSUME NEW x \in Tops(d) PROVE Area(d, x) \cap X = {}
  <2>1. CASE x = ROOT
    <3>1. X \subseteq Clusters
      BY <1>1 DEF Spare
    <3>. QED
      BY <2>1, <3>1, RootIsDir, Limits
  <2>2. CASE x # ROOT
    <3>1. PICK r \in AllRefs(d) : Own(d, r) = Area(d, x)
      BY <1>1, <2>2, TopIs
    <3>. QED
      BY <1>1, <3>1 DEF Spare
  <2>. QED
    BY <2>1, <2>2
<1>a. item.kind = "dir" /\ dir = ROOT => AllRefs(e) = AllRefs(d) \cup {p} /\ DirsGood(e)
  <2>0. SUFFICES ASSUME item.kind = "dir" /\ dir = ROOT
                 PROVE  AllRefs(e) = AllRefs(d) \cup {p} /\ DirsGood(e)
    OBVIOUS
  <2>1. Area(d, y) \cap Area(d, dir) = {}
    BY <1>15, <1>16, <2>0
  <2>2. Refs(e, y) = Refs(d, y) /\ Stored(e, y) = Stored(d, y)
    BY <1>5, <1>15, <2>0, <2>1 DEF Windowed
  <2>3. Refs(e, y) = {} /\ GoodDir(Stored(e, y))
    BY <2>0, <2>2
  <2>4. Tops(e) = Tops(d) \cup {y}
    <3>1. Refs(e, ROOT) = Refs(d, ROOT) \cup {p}
      BY <1>13, <2>0
    <3>2. \A q \in Refs(d, ROOT) : At(e, q) = At(d, q)
      BY <1>13, <2>0
    <3>. QED
      BY <1>11, <2>0, <3>1, <3>2 DEF Tops
  <2>5. y \notin Tops(d)
    <3>1. SUFFICES ASSUME y \in Tops(d) PROVE FALSE
      OBVIOUS
    <3>2. Area(d, y) \cap X = {}
      BY <1>16, <3>1
    <3>3. Range(Chain(d, y)) = {}
      BY <1>15, <2>0, <3>2
    <3>4. Chain(d, y) \in Seq(Clusters) /\ Chain(d, y) # <<>>
      BY <1>15, <2>0 DEF HasChain, IsChain
    <3>5. 1 \in 1 .. Len(Chain(d, y))
      BY <3>4
    <3>6. Chain(d, y)[1] \in Range(Chain(d, y))
      BY <3>4, <3>5, InRange
    <3>. QED
      BY <3>3, <3>6
  <2>6. AllRefs(e) = AllRefs(d) \cup {p}
    <3>1. \A x \in Tops(d) : \A q : q \in Refs(e, x) <=> q \in Refs(d, x) \/ (x = dir /\ q = p)
      BY <1>12, <1>13
    <3>2. \A q : q \in AllRefs(d) <=> \E x \in Tops(d) : q \in Refs(d, x)
      BY DEF AllRefs
    <3>3. \A q : q \in AllRefs(e) <=> \E x \in Tops(e) : q \in Refs(e, x)
      BY DEF AllRefs
    <3>4. \A q : q \in AllRefs(e) <=> \E x \in Tops(d) : q \in Refs(e, x)
      BY <2>3, <2>4, <3>3
    <3>5. \A q : q \in AllRefs(e) <=> q \in AllRefs(d) \/ q = p
      BY <3>1, <3>2, <3>4
    <3>. QED
      BY <3>5
  <2>7. DirsGood(e)
    BY <1>1, <1>8, <1>12, <2>3, <2>4 DEF DirsGood, t
  <2>. QED
    BY <2>6, <2>7
<1>b. ~ (item.kind = "dir" /\ dir = ROOT) => AllRefs(e) = AllRefs(d) \cup {p} /\ DirsGood(e)
  <2>0. SUFFICES ASSUME ~ (item.kind = "dir" /\ dir = ROOT)
                 PROVE  AllRefs(e) = AllRefs(d) \cup {p} /\ DirsGood(e)
    OBVIOUS
  <2>1. Tops(e) = Tops(d)
    <3>1. CASE dir # ROOT
      <4>1. Refs(e, ROOT) = Refs(d, ROOT) /\ \A q \in Refs(d, ROOT) : At(e, q) = At(d, q)
        BY <1>12, <3>1, RootIsDir
      <4>. QED
        BY <4>1 DEF Tops
    <3>2. CASE dir = ROOT
      <4>1. Refs(e, ROOT) = Refs(d, ROOT) \cup {p} /\ \A q \in Refs(d, ROOT) : At(e, q) = At(d, q)
        BY <1>13, <3>2
      <4>2. ~ (At(e, p).kind = "dir")
        BY <1>11, <2>0, <3>2
      <4>. QED
        BY <4>1, <4>2 DEF Tops
    <3>. QED
      BY <3>1, <3>2
  <2>2. AllRefs(e) = AllRefs(d) \cup {p}
    <3>1. \A x \in Tops(d) : \A q : q \in Refs(e, x) <=> q \in Refs(d, x) \/ (x = dir /\ q = p)
      BY <1>12, <1>13
    <3>2. \A q : q \in AllRefs(d) <=> \E x \in Tops(d) : q \in Refs(d, x)
      BY DEF AllRefs
    <3>3. \A q : q \in AllRefs(e) <=> \E x \in Tops(d) : q \in Refs(e, x)
      BY <2>1 DEF AllRefs
    <3>4. \A q : q \in AllRefs(e) <=> q \in AllRefs(d) \/ q = p
      BY <3>1, <3>2, <3>3
    <3>. QED
      BY <3>4
  <2>3. DirsGood(e)
    BY <1>1, <1>8, <1>12, <2>1 DEF DirsGood, t
  <2>. QED
    BY <2>2, <2>3
<1>c. AllRefs(e) = AllRefs(d) \cup {p} /\ DirsGood(e)
  BY <1>a, <1>b
<1>d. Exchanges(d, e, {}, {p})
  <2>1. HasChain(d, At(e, p).first) /\ (At(e, p).kind = "dir" => At(e, p).first \in Clusters)
    BY <1>11
  <2>. QED
    BY <1>14, <1>c, <2>1 DEF Exchanges
<1>e. Own(e, p) = Range(Chain(d, y))
  BY <1>11, <1>15 DEF Own
<1>f. Sound(e, (X \cup OwnOf(d, {})) \ OwnOf(e, {p}))
  <2>1. \A q \in {p} : Own(e, q) \subseteq X \cup OwnOf(d, {})
    BY <1>15, <1>e
  <2>. QED
    BY <1>6, <1>c, <1>d, <2>1, Exchange
<1>g. Sound(e, X \ Range(Chain(d, y)))
  <2>1. (X \cup OwnOf(d, {})) \ OwnOf(e, {p}) = X \ Range(Chain(d, y))
    BY <1>e, OwnOfOne
  <2>. QED
    BY <1>f, <2>1
<1>h. Tops(d) \subseteq Tops(e) /\ dir \in Tops(e) /\ p \in Refs(e, dir)
  <2>1. \A q \in Refs(d, ROOT) : q \in Refs(e, ROOT) /\ At(e, q) = At(d, q)
    BY <1>12, <1>13, RootIsDir
  <2>. QED
    BY <1>13, <2>1 DEF Tops
<1>i. DiskShape(e) /\ Chained(e) /\ IsDir(e, dir)
  <2>1. DiskShape(e) /\ Chained(e)
    BY <1>g DEF Sound
  <2>. QED
    BY <1>h, <2>1, TopIs
<1>j. s[b].kind # "lfn" /\ t[b].kind # "lfn"
  <2>1. t[b].kind # "lfn"
    BY <1>8, Kinds
  <2>2. s[b] \in {Deleted, End}
    BY <1>9 DEF FreePlace, s
  <2>. QED
    BY <2>1, <2>2, Kinds
<1>k. Follows(d, e)
  <2>1. ASSUME NEW x \in Tops(d), NEW i \in 1 .. Len(Stored(d, x)), IsItem(Stored(d, x)[i])
        PROVE  SameName(d, e, x, i)
    <3>1. x = dir => i \notin a .. b
      BY <1>8, <2>1 DEF s
    <3>. QED
      BY <1>5, <1>j, <2>1, <3>1, WindowNames DEF s, t
  <2>. QED
    BY <1>1, <1>h, <1>i, <2>1, FollowsIs
<1>l. NameIn(e, dir, p) = Fold(name)
  <2>1. Positions(e, dir)[b] = p
    BY <1>6, SameFat DEF p, pos
  <2>2. b \in 1 .. Len(t)
    BY <1>3, <1>6, <1>9 DEF Rewritten, s
  <2>3. NameIn(e, dir, Positions(e, dir)[b]) = fat16_get_item_name(t, b)
    BY <1>i, <2>2, NameIs DEF t
  <2>. QED
    BY <1>8, <2>1, <2>3
<1>. QED
  BY <1>6, <1>11, <1>14, <1>c, <1>g, <1>h, <1>k, <1>l DEF p, pos, TakesPlace

-----------------------------------------------------------------------------
(* A free place for an item                                                *)

(* Names and bytes stay, and no cluster gets a byte that is none. *)
Plain(d) == \A c \in Clusters : \A o \in 0 .. CLUSTER - 1 : d.bytes[c][o] # ERROR
Intact(d, e) ==
    /\ Follows(d, e) /\ (Plain(d) => Plain(e))
    /\ \A p \in AllRefs(d) : At(d, p).kind = "file" =>
            \A c \in Own(d, p) : e.bytes[c] = d.bytes[c]

(* What stays when a directory grows *)
Keeps(d, e) ==
    /\ Tops(e) = Tops(d) /\ AllRefs(e) = AllRefs(d)
    /\ \A p \in AllRefs(d) :
        /\ At(e, p) = At(d, p)
        /\ At(d, p).kind = "file" => Chain(e, At(d, p).first) = Chain(d, At(d, p).first)
    /\ Intact(d, e)

LEMMA GrowingIntact ==
    ASSUME NEW d, NEW e, NEW X, Sound(d, X), NEW s, NEW t, Base(d, s), Grows(d, e, s, t),
           s \in Seq(Clusters)
    PROVE  Intact(d, e)
<1>1. Follows(d, e)
  BY GrowingNames
<1>. DEFINE new == Range(t) \ Range(s)
<1>2. /\ \A c \in new : d.fat[c] = UNUSED /\ e.bytes[c] = Zero
      /\ \A c \in Clusters \ new : e.bytes[c] = d.bytes[c]
  BY DEF Grows
<1>. HIDE DEF new
<1>3. ASSUME NEW p \in AllRefs(d), NEW c \in Own(d, p) PROVE e.bytes[c] = d.bytes[c]
  <2>1. c \in Clusters /\ d.fat[c] # UNUSED
    BY OwnIs DEF Sound
  <2>. QED
    BY <1>2, <2>1
<1>4. Plain(d) => Plain(e)
  <2>1. \A o \in 0 .. CLUSTER - 1 : Zero[o] # ERROR
    BY Limits DEF Zero
  <2>. QED
    BY <1>2, <2>1 DEF Plain
<1>. QED
  BY <1>1, <1>3, <1>4 DEF Intact

LEMMA SameBytes == ASSUME NEW d, NEW e, Follows(d, e), e.bytes = d.bytes PROVE Intact(d, e)
  BY DEF Intact, Plain

LEMMA KeepsSelf == ASSUME NEW d PROVE Keeps(d, d)
<1>1. Follows(d, d)
  BY DEF Follows
<1>. QED
  BY <1>1 DEF Keeps, Intact

LEMMA DirGrows ==
    ASSUME NEW d, NEW e, NEW X, Sound(d, X), NEW dir \in Tops(d), dir # ROOT, NEW t,
           Grows(d, e, Chain(d, dir), t)
    PROVE  /\ Sound(e, X) /\ Keeps(d, e) /\ Base(d, Chain(d, dir)) /\ Chain(d, dir) \in Seq(Clusters)
           /\ IsDir(e, dir) /\ Chain(e, dir) = t
<1>. DEFINE s == Chain(d, dir)
<1>1. DiskShape(d) /\ Chained(d) /\ Apart(d)
  BY DEF Sound
<1>2. PICK r \in AllRefs(d) : At(d, r).kind = "dir" /\ At(d, r).first = dir /\ dir \in Clusters
                              /\ HasChain(d, dir)
  BY <1>1, TopIs
<1>3. s \in Seq(Clusters) /\ s # <<>>
  BY <1>2 DEF HasChain, IsChain
<1>4. Base(d, s)
  BY <1>2 DEF Base
<1>5. Own(d, r) = Range(s)
  BY <1>2 DEF Own
<1>. HIDE DEF s
<1>6. Grows(d, e, s, t)
  BY DEF s
<1>7. /\ Tops(e) = Tops(d) /\ AllRefs(e) = AllRefs(d)
      /\ \A p \in AllRefs(d) : At(e, p) = At(d, p)
      /\ Sound(e, IF s = <<>> THEN X \cup Range(t) ELSE X)
  BY <1>3, <1>4, <1>6, Growing, Zenon
<1>8. Sound(e, X)
  BY <1>3, <1>7
<1>9. ASSUME NEW p \in AllRefs(d), At(d, p).kind = "file"
      PROVE  Chain(e, At(d, p).first) = Chain(d, At(d, p).first)
  <2>1. Chain(e, At(d, p).first) = GrownChain(d, At(d, p).first, s, t)
    BY <1>3, <1>4, <1>6, GrowingChain
  <2>2. Chain(d, At(d, p).first) # s
    <3>1. SUFFICES ASSUME Chain(d, At(d, p).first) = s PROVE FALSE
      OBVIOUS
    <3>2. Own(d, p) = Own(d, r) /\ p # r
      BY <1>2, <1>5, <1>9, <3>1 DEF Own
    <3>3. Range(s) = {}
      BY <1>1, <1>5, <3>2 DEF Apart
    <3>4. 1 \in 1 .. Len(s)
      BY <1>3
    <3>5. s[1] \in Range(s)
      BY <1>3, <3>4, InRange
    <3>. QED
      BY <3>3, <3>5
  <2>. QED
    BY <2>1, <2>2 DEF GrownChain
<1>10. Keeps(d, e)
  <2>1. Intact(d, e)
    BY <1>3, <1>4, <1>6, GrowingIntact
  <2>. QED
    BY <1>7, <1>9, <2>1 DEF Keeps
<1>11. Chain(e, dir) = t
  <2>1. Chain(e, dir) = GrownChain(d, dir, s, t)
    BY <1>2, <1>3, <1>4, <1>6, GrowingChain
  <2>. QED
    BY <1>3, <2>1 DEF GrownChain, s
<1>12. IsDir(e, dir)
  BY <1>3, <1>4, <1>6, GrowingArea
<1>. QED
  BY <1>3, <1>4, <1>8, <1>10, <1>11, <1>12 DEF s

(* The chain of spare clusters stays, with what is stored in them. *)
LEMMA SpareStays ==
    ASSUME NEW d, NEW e, NEW X, Sound(d, X), NEW s, NEW t, Base(d, s), Grows(d, e, s, t),
           s \in Seq(Clusters), s # <<>>, NEW y, HasChain(d, y), Range(Chain(d, y)) \subseteq X
    PROVE  /\ HasChain(e, y) /\ Chain(e, y) = Chain(d, y)
           /\ y \in Clusters => Refs(e, y) = Refs(d, y) /\ Stored(e, y) = Stored(d, y)
<1>. DEFINE u == Chain(d, y)
<1>1. Chained(d) /\ Spare(d, X) /\ IsChain(d, y, u) /\ DiskShape(d)
  BY DEF Sound, HasChain
<1>2. ASSUME NEW c \in Range(u) PROVE c \in Clusters /\ c \notin Range(t)
  <2>1. c \in X /\ c \in Clusters /\ d.fat[c] # UNUSED
    BY <1>1 DEF Spare
  <2>2. c \notin Range(t) \ Range(s)
    BY <2>1 DEF Grows
  <2>3. c \notin Range(s)
    <3>1. PICK r \in AllRefs(d) : s = Chain(d, At(d, r).first)
      BY DEF Base
    <3>2. Own(d, r) = Range(s)
      BY <3>1 DEF Own
    <3>. QED
      BY <1>1, <2>1, <3>2 DEF Spare
  <2>. QED
    BY <2>1, <2>2, <2>3
<1>. HIDE DEF u
<1>3. \A c \in Range(u) : e.fat[c] = d.fat[c] /\ e.items[c] = d.items[c]
  BY <1>2 DEF Grows
<1>4. IsChain(e, y, u) /\ Chain(e, y) = u
  BY <1>1, <1>3, ChainStays
<1>5. ASSUME y \in Clusters PROVE Refs(e, y) = Refs(d, y) /\ Stored(e, y) = Stored(d, y)
  <2>1. Area(d, y) = Range(u) /\ Area(e, y) = Range(u) /\ IsDir(d, y) /\ y # ROOT
    BY <1>1, <1>4, <1>5, Limits DEF Area, IsDir, u
  <2>2. Places(e, y) = Places(d, y)
    BY <2>1 DEF Places
  <2>3. \A p \in Places(d, y) : At(e, p) = At(d, p)
    <3>1. \A p \in Places(d, y) : p[1] \in Area(d, y)
      BY PlaceIs, Zenon
    <3>. QED
      BY <1>3, <2>1, <3>1 DEF At
  <2>4. Positions(e, y) = Positions(d, y)
    BY <1>4, <2>1 DEF Positions, u
  <2>5. \A i \in DOMAIN Positions(d, y) : Positions(d, y)[i] \in Places(d, y)
    <3>1. Positions(d, y) \in Seq(Places(d, y))
      BY <2>1, PositionsAre, Zenon
    <3>. QED
      BY <3>1
  <2>6. Stored(e, y) = Stored(d, y)
    BY <2>3, <2>4, <2>5 DEF Stored
  <2>. QED
    BY <2>2, <2>3, <2>6 DEF Refs
<1>. QED
  BY <1>4, <1>5 DEF HasChain, u

(* The entries are those before the first end marker, and nothing is       *)
(* behind it.                                                              *)
LEMMA EntriesEnd ==
    ASSUME NEW d, NEW X, Sound(d, X), NEW dir \in Tops(d)
    PROVE  LET s == Stored(d, dir)
               m == Len(Entries(d, dir))
           IN  /\ Len(s) \in Nat /\ m \in 0 .. Len(s)
               /\ \A k \in 1 .. m : Entries(d, dir)[k] = s[k] /\ s[k] # End
               /\ \A k \in m + 1 .. Len(s) : s[k] = End
<1>. DEFINE s == Stored(d, dir)
            m == Len(Entries(d, dir))
<1>1. DiskShape(d) /\ IsDir(d, dir) /\ EndsOnce(s)
  BY TopIs DEF Sound, DirsGood, GoodDir
<1>2. /\ m \in 0 .. Len(s)
      /\ \A k \in 1 .. m : Entries(d, dir)[k] = s[k] /\ s[k] # End
  BY <1>1, EntriesAre, Zenon
<1>3. \A k \in 1 .. Len(s) : k \in 1 .. m \/ s[k] = End
  BY <1>1, EntriesAll, Zenon
<1>4. Len(s) \in Nat
  BY <1>1, StoredIs, Zenon
<1>. HIDE DEF s, m
<1>5. \A k \in m + 1 .. Len(s) : s[k] = End
  BY <1>2, <1>3, <1>4
<1>. QED
  BY <1>2, <1>4, <1>5 DEF s, m

(* A place for count entries from slot *)
Room(s, slot, count) ==
    /\ slot \in 1 .. Len(s) /\ slot + count - 1 \in slot .. Len(s)
    /\ \A k \in 1 .. slot - 1 : s[k] # End
    /\ \A k \in slot .. slot + count - 1 : s[k] \in {Deleted, End}

LEMMA FreeSlot ==
    ASSUME NEW d, NEW X, Sound(d, X), NEW dir \in Tops(d), NEW count \in Nat \ {0},
           NEW r, r = fat16_find_free_slot(d, dir, Entries(d, dir), count)
    PROVE  /\ r.slot = ERROR \/ Room(Stored(r.disk, dir), r.slot, count)
           /\ \/ r.disk = d
              \/ dir # ROOT /\ \E t : Grows(d, r.disk, Chain(d, dir), t)
<1>. DEFINE s == Stored(d, dir)
            es == Entries(d, dir)
            m == Len(es)
            runs == {i \in 1 .. m - count + 1 : \A k \in i .. i + count - 1 : es[k] = Deleted}
            clusters == (m + count) \div PER_CLUSTER + 1
            c == fat16_cluster_at(d, dir, clusters)
<1>1. DiskShape(d) /\ IsDir(d, dir)
  BY TopIs DEF Sound
<1>2. /\ Len(s) \in Nat /\ m \in 0 .. Len(s)
      /\ \A k \in 1 .. m : es[k] = s[k] /\ s[k] # End
      /\ \A k \in m + 1 .. Len(s) : s[k] = End
  BY EntriesEnd, Zenon
<1>3. PER_CLUSTER \in Nat \ {0} /\ ROOT_ENTRIES \in Nat \ {0}
  BY FatAssumption
<1>4. CASE runs # {}
  <2>1. r.disk = d /\ r.slot = Min(runs)
    BY <1>4 DEF fat16_find_free_slot
  <2>. DEFINE i == Min(runs)
  <2>2. i \in runs
    <3>1. runs \in SUBSET Nat
      BY <1>2
    <3>. HIDE DEF runs
    <3>. QED
      BY <1>4, <3>1, MinIn
  <2>. HIDE DEF i
  <2>3. i \in 1 .. m - count + 1 /\ \A k \in i .. i + count - 1 : es[k] = Deleted
    BY <2>2
  <2>. HIDE DEF runs, es, m, s
  <2>4. i \in 1 .. Len(s) /\ i + count - 1 \in i .. Len(s)
    BY <1>2, <2>3
  <2>5. \A k \in 1 .. i - 1 : s[k] # End
    BY <1>2, <2>3
  <2>6. \A k \in i .. i + count - 1 : s[k] = Deleted
    <3>1. SUFFICES ASSUME NEW k \in i .. i + count - 1 PROVE s[k] = Deleted
      OBVIOUS
    <3>2. k \in 1 .. m
      BY <1>2, <2>3
    <3>. QED
      BY <1>2, <2>3, <3>2
  <2>7. Room(s, i, count)
    BY <2>4, <2>5, <2>6 DEF Room
  <2>. QED
    BY <2>1, <2>7 DEF i, s
<1>5. CASE runs = {} /\ dir = ROOT
  <2>1. r.disk = d /\ (r.slot = ERROR \/ (r.slot = m + 1 /\ m + count < ROOT_ENTRIES))
    BY <1>5 DEF fat16_find_free_slot
  <2>2. Len(s) = ROOT_ENTRIES
    <3>1. Len(s) = Len(Positions(d, dir)) /\ Len(Positions(d, dir)) = ROOT_ENTRIES
      <4>1. Len(s) = Len(Positions(d, dir))
        BY <1>1, StoredIs, Zenon
      <4>2. Len(Positions(d, dir)) = IF dir = ROOT THEN ROOT_ENTRIES
                                     ELSE PER_CLUSTER * Len(Chain(d, dir))
        BY <1>1, PositionsAre, Zenon
      <4>. QED
        BY <1>5, <4>1, <4>2
    <3>. QED
      BY <3>1
  <2>. HIDE DEF es, m, s, runs
  <2>3. m + count < ROOT_ENTRIES => Room(s, m + 1, count)
    <3>1. SUFFICES ASSUME m + count < ROOT_ENTRIES PROVE Room(s, m + 1, count)
      OBVIOUS
    <3>2. m + 1 \in 1 .. Len(s) /\ m + 1 + count - 1 \in m + 1 .. Len(s)
      BY <1>2, <2>2, <3>1
    <3>3. \A k \in 1 .. m + 1 - 1 : s[k] # End
      BY <1>2
    <3>4. \A k \in m + 1 .. m + 1 + count - 1 : s[k] = End
      BY <1>2, <3>2
    <3>. QED
      BY <3>2, <3>3, <3>4, <1>2 DEF Room
  <2>. QED
    BY <2>1, <2>3 DEF s
<1>6. CASE runs = {} /\ dir # ROOT
  <2>1. r.disk = c.disk /\ r.slot = IF Len(c.chain) < clusters THEN ERROR ELSE m + 1
    BY <1>6 DEF fat16_find_free_slot
  <2>2. IsChain(d, dir, Chain(d, dir)) /\ clusters \in Int
    <3>1. clusters \in Int
      <4>. HIDE DEF m
      <4>. QED
        BY <1>2, <1>3, QuotientGrows
    <3>. QED
      BY <1>1, <1>6, <3>1 DEF IsDir
  <2>3. Grows(d, c.disk, Chain(d, dir), c.chain)
    <3>. HIDE DEF clusters
    <3>. QED
      BY <1>1, <2>2, ClusterAt, Zenon
  <2>. DEFINE e == c.disk
              t == c.chain
              u == Stored(e, dir)
  <2>. HIDE DEF c
  <2>4. /\ Chain(e, dir) = t /\ IsDir(e, dir) /\ Base(d, Chain(d, dir))
        /\ Chain(d, dir) \in Seq(Clusters)
    BY <1>6, <2>3, DirGrows
  <2>5. Extends(d, e, dir)
    BY <2>3, <2>4, GrowingStored
  <2>6. DiskShape(e)
    BY <2>3 DEF Grows
  <2>7. Len(u) = PER_CLUSTER * Len(t)
    <3>1. Len(u) = Len(Positions(e, dir))
      BY <2>4, <2>6, StoredIs, Zenon
    <3>2. Len(Positions(e, dir)) = IF dir = ROOT THEN ROOT_ENTRIES
                                   ELSE PER_CLUSTER * Len(Chain(e, dir))
      BY <2>4, PositionsAre, Zenon
    <3>. QED
      BY <1>6, <2>4, <3>1, <3>2
  <2>8. t \in Seq(Clusters)
    BY <2>3 DEF Grows
  <2>9. /\ Len(s) <= Len(u)
        /\ \A k \in 1 .. Len(s) : u[k] = s[k]
        /\ \A k \in Len(s) + 1 .. Len(u) : u[k] = End
    BY <2>5 DEF Extends
  <2>10. Len(t) >= clusters => m + count <= Len(u)
    <3>1. SUFFICES ASSUME Len(t) >= clusters PROVE m + count <= Len(u)
      OBVIOUS
    <3>. DEFINE q == (m + count) \div PER_CLUSTER
                P == PER_CLUSTER
    <3>. HIDE DEF m, s, u, t
    <3>2. m + count \in Nat
      BY <1>2
    <3>3. (m + count) % P \in 0 .. P - 1 /\ m + count = P * q + ((m + count) % P)
      BY <1>3, <3>2, DivModIs
    <3>4. q \in Int
      BY <1>3, <3>2, QuotientGrows
    <3>5. q + 1 <= Len(t) /\ Len(t) \in Nat
      BY <3>1, <2>8
    <3>. HIDE DEF q, P
    <3>6. P * (q + 1) <= P * Len(t)
      BY <1>3, <3>4, <3>5, ProductGrows DEF P
    <3>7. P * (q + 1) = P * q + P /\ P * q \in Int /\ P * (q + 1) \in Int /\ P * Len(t) \in Int
      BY <1>3, <3>4, <3>5 DEF P
    <3>8. Len(u) = P * Len(t)
      BY <2>7 DEF P
    <3>9. P \in Nat
      BY <1>3 DEF P
    <3>. QED
      BY <3>2, <3>3, <3>6, <3>7, <3>8, <3>9
  <2>. HIDE DEF m, s, u, t, es, clusters
  <2>11. Len(t) >= clusters => Room(u, m + 1, count)
    <3>1. SUFFICES ASSUME m + count <= Len(u) PROVE Room(u, m + 1, count)
      BY <2>10
    <3>2. Len(u) \in Nat
      BY <1>3, <2>7, <2>8
    <3>3. m + 1 \in 1 .. Len(u) /\ m + 1 + count - 1 \in m + 1 .. Len(u)
      BY <1>2, <3>1, <3>2
    <3>4. \A k \in 1 .. m + 1 - 1 : u[k] # End
      BY <1>2, <2>9
    <3>5. \A k \in m + 1 .. Len(u) : u[k] = End
      <4>1. SUFFICES ASSUME NEW k \in m + 1 .. Len(u) PROVE u[k] = End
        OBVIOUS
      <4>2. k \in 1 .. Len(s) \/ k \in Len(s) + 1 .. Len(u)
        BY <1>2, <3>2
      <4>3. k \in 1 .. Len(s) => k \in m + 1 .. Len(s)
        BY <1>2
      <4>. QED
        BY <1>2, <2>9, <4>2, <4>3
    <3>. QED
      BY <3>2, <3>3, <3>4, <3>5, <1>2 DEF Room
  <2>12. Len(t) \in Int /\ clusters \in Int
    BY <2>2, <2>8
  <2>13. r.slot = ERROR \/ (Len(t) >= clusters /\ r.slot = m + 1)
    BY <2>1, <2>12 DEF t
  <2>14. r.slot = ERROR \/ Room(u, r.slot, count)
    BY <2>11, <2>13
  <2>. QED
    BY <1>6, <2>1, <2>3, <2>14 DEF u, e
<1>. QED
  BY <1>4, <1>5, <1>6

(* More room, the same entries *)
LEMMA SameEntries ==
    ASSUME NEW d, NEW e, NEW X, NEW Y, Sound(d, X), Sound(e, Y),
           NEW dir \in Tops(d), dir \in Tops(e), Extends(d, e, dir)
    PROVE  Entries(e, dir) = Entries(d, dir)
<1>. DEFINE s == Stored(d, dir)
            t == Stored(e, dir)
            x == Entries(d, dir)
            y == Entries(e, dir)
<1>1. /\ Len(s) \in Nat /\ Len(x) \in 0 .. Len(s)
      /\ \A k \in 1 .. Len(x) : x[k] = s[k] /\ s[k] # End
      /\ \A k \in Len(x) + 1 .. Len(s) : s[k] = End
  BY EntriesEnd, Zenon
<1>2. /\ Len(t) \in Nat /\ Len(y) \in 0 .. Len(t)
      /\ \A k \in 1 .. Len(y) : y[k] = t[k] /\ t[k] # End
      /\ \A k \in Len(y) + 1 .. Len(t) : t[k] = End
  BY EntriesEnd, Zenon
<1>3. x \in Seq(Entry) /\ y \in Seq(Entry)
  <2>1. DiskShape(d) /\ IsDir(d, dir) /\ DiskShape(e) /\ IsDir(e, dir)
    BY TopIs DEF Sound
  <2>2. x \in Seq(Entry)
    BY <2>1, EntriesAre, Zenon
  <2>3. y \in Seq(Entry)
    BY <2>1, EntriesAre, Zenon
  <2>. QED
    BY <2>2, <2>3
<1>4. /\ Len(s) <= Len(t)
      /\ \A k \in 1 .. Len(s) : t[k] = s[k]
      /\ \A k \in Len(s) + 1 .. Len(t) : t[k] = End
  BY DEF Extends
<1>. HIDE DEF s, t, x, y
<1>5. ~ (Len(x) < Len(y))
  <2>1. SUFFICES ASSUME Len(x) < Len(y) PROVE FALSE
    OBVIOUS
  <2>2. Len(y) \in 1 .. Len(t) /\ Len(y) \in 1 .. Len(y) /\ t[Len(y)] # End
    BY <1>1, <1>2, <2>1
  <2>3. CASE Len(y) \in 1 .. Len(s)
    BY <1>1, <1>4, <2>1, <2>2, <2>3
  <2>4. CASE Len(y) \notin 1 .. Len(s)
    BY <1>1, <1>4, <2>1, <2>2, <2>4
  <2>. QED
    BY <2>3, <2>4
<1>6. ~ (Len(y) < Len(x))
  <2>1. SUFFICES ASSUME Len(y) < Len(x) PROVE FALSE
    OBVIOUS
  <2>2. Len(x) \in 1 .. Len(x) /\ Len(x) \in 1 .. Len(s)
    BY <1>1, <1>2, <2>1
  <2>3. t[Len(x)] # End
    BY <1>1, <1>4, <2>2
  <2>4. Len(x) \in Len(y) + 1 .. Len(t)
    BY <1>1, <1>2, <1>4, <2>1
  <2>. QED
    BY <1>2, <2>3, <2>4
<1>7. Len(x) = Len(y)
  BY <1>1, <1>2, <1>5, <1>6
<1>8. \A k \in 1 .. Len(x) : x[k] = y[k]
  <2>1. \A k \in 1 .. Len(x) : k \in 1 .. Len(s)
    BY <1>1
  <2>. QED
    BY <1>1, <1>2, <1>4, <1>7, <2>1
<1>9. x = y
  BY <1>3, <1>7, <1>8
<1>. QED
  BY <1>9 DEF x, y

(***************************************************************************)
(* fat16_create_item adds an item, or none when there is no room or name   *)
(* for it.                                                                 *)
(***************************************************************************)
AddsItem(d, e, p, item) ==
    /\ p \in Cells /\ p \notin AllRefs(d) /\ AllRefs(e) = AllRefs(d) \cup {p}
    /\ At(e, p) = item
    /\ \A q \in AllRefs(d) :
        /\ At(e, q) = At(d, q)
        /\ At(d, q).kind = "file" => Chain(e, At(d, q).first) = Chain(d, At(d, q).first)
    /\ Intact(d, e)
IsNew(item, kind, first) ==
    item \in Items /\ item.kind = kind /\ item.first = first /\ item.size = 0
NewIn(d, dir, p, name) ==
    dir \in Tops(d) /\ p \in Refs(d, dir) /\ NameIn(d, dir, p) = Fold(name)

(* An item is added to a directory that has grown. *)
LEMMA KeepsThen ==
    ASSUME NEW d, NEW e, NEW g, Keeps(d, e), Intact(e, g), AllRefs(e) \subseteq AllRefs(g)
    PROVE  Intact(d, g)
<1>1. /\ AllRefs(e) = AllRefs(d) /\ \A p \in AllRefs(d) : At(e, p) = At(d, p)
      /\ \A p \in AllRefs(d) : At(d, p).kind = "file" => Own(e, p) = Own(d, p)
      /\ Intact(d, e)
  BY DEF Keeps, Own
<1>2. Follows(d, g)
  BY <1>1, FollowsThen DEF Intact
<1>3. \A p \in AllRefs(d) : At(d, p).kind = "file" =>
        \A c \in Own(d, p) : e.bytes[c] = d.bytes[c] /\ g.bytes[c] = e.bytes[c]
  BY <1>1 DEF Intact
<1>. QED
  BY <1>1, <1>2, <1>3 DEF Intact

LEMMA KeepsKeeps ==
    ASSUME NEW d, NEW e, NEW g, Keeps(d, e), Keeps(e, g)
    PROVE  Keeps(d, g)
<1>1. Intact(d, g)
  BY KeepsThen DEF Keeps
<1>. QED
  BY <1>1 DEF Keeps

LEMMA KeepsAdds ==
    ASSUME NEW d, NEW e, NEW g, Keeps(d, e), NEW p, NEW item, AddsItem(e, g, p, item)
    PROVE  AddsItem(d, g, p, item)
<1>1. Intact(d, g)
  BY KeepsThen DEF AddsItem
<1>. QED
  BY <1>1 DEF Keeps, AddsItem

(* What a call that makes an item may do to the disk *)
Makes(d, e, dir, name, kind, p, first) ==
    /\ AddsItem(d, e, p, At(e, p)) /\ IsNew(At(e, p), kind, first) /\ NewIn(e, dir, p, name)
    /\ Sound(e, {})

LEMMA SlotFree ==
    ASSUME NEW d, NEW X, Sound(d, X), NEW dir \in Tops(d), NEW count \in Nat \ {0},
           NEW r, r = fat16_find_free_slot(d, dir, Entries(d, dir), count),
           NEW y, HasChain(d, y), Range(Chain(d, y)) \subseteq X
    PROVE  /\ r.slot = ERROR \/ Room(Stored(r.disk, dir), r.slot, count)
           /\ Sound(r.disk, X) /\ Keeps(d, r.disk) /\ Entries(r.disk, dir) = Entries(d, dir)
           /\ HasChain(r.disk, y) /\ Chain(r.disk, y) = Chain(d, y)
           /\ y \in Clusters => Refs(r.disk, y) = Refs(d, y) /\ Stored(r.disk, y) = Stored(d, y)
<1>. DEFINE e == r.disk
<1>1. /\ r.slot = ERROR \/ Room(Stored(e, dir), r.slot, count)
      /\ \/ e = d
         \/ dir # ROOT /\ \E t : Grows(d, e, Chain(d, dir), t)
  BY FreeSlot
<1>. HIDE DEF e
<1>2. CASE e = d
  BY <1>1, <1>2, KeepsSelf DEF e
<1>3. CASE dir # ROOT /\ \E t : Grows(d, e, Chain(d, dir), t)
  <2>1. PICK t : Grows(d, e, Chain(d, dir), t)
    BY <1>3
  <2>2. /\ Sound(e, X) /\ Keeps(d, e) /\ Base(d, Chain(d, dir)) /\ Chain(d, dir) \in Seq(Clusters)
        /\ IsDir(e, dir) /\ Chain(e, dir) = t
    BY <1>3, <2>1, DirGrows
  <2>3. Extends(d, e, dir)
    BY <2>1, <2>2, GrowingStored
  <2>4. dir \in Tops(e)
    BY <2>2 DEF Keeps
  <2>5. Entries(e, dir) = Entries(d, dir)
    BY <2>2, <2>3, <2>4, SameEntries
  <2>6. Chain(d, dir) # <<>>
    <3>1. IsDir(d, dir)
      BY TopIs DEF Sound
    <3>. QED
      BY <1>3, <3>1 DEF IsDir, IsChain
  <2>7. /\ HasChain(e, y) /\ Chain(e, y) = Chain(d, y)
        /\ y \in Clusters => Refs(e, y) = Refs(d, y) /\ Stored(e, y) = Stored(d, y)
    BY <2>1, <2>2, <2>6, SpareStays
  <2>. QED
    BY <1>1, <2>2, <2>5, <2>7 DEF e
<1>. QED
  BY <1>1, <1>2, <1>3

LEMMA Created ==
    ASSUME NEW d, NEW X, Sound(d, X), NEW dir \in Tops(d), NEW name \in Names,
           fat16_find_index(Entries(d, dir), name) = 0,
           NEW kind \in {"file", "dir"}, NEW first \in Clusters \cup {0},
           HasChain(d, first), Range(Chain(d, first)) \subseteq X,
           kind = "dir" => /\ first \in Clusters /\ Refs(d, first) = {}
                           /\ GoodDir(Stored(d, first)),
           NEW r, r = fat16_create_item(d, dir, Entries(d, dir), name, kind, first)
    PROVE  \/ r.pos = NoPos /\ Sound(r.disk, X) /\ Keeps(d, r.disk)
              /\ Chain(r.disk, first) = Chain(d, first)
           \/ /\ r.pos # NoPos /\ Sound(r.disk, X \ Range(Chain(d, first)))
              /\ AddsItem(d, r.disk, r.pos, At(r.disk, r.pos))
              /\ IsNew(At(r.disk, r.pos), kind, first)
              /\ Chain(r.disk, first) = Chain(d, first)
              /\ NewIn(r.disk, dir, r.pos, name)
<1>. DEFINE es == Entries(d, dir)
            short == ShortName(es, name)
            item == Item(kind, short, first, 0)
            new == NewItems(name, item)
            count == PartsOf(name) + 1
            f == fat16_find_free_slot(d, dir, es, count)
            e == f.disk
            a == f.slot
            b == f.slot + count - 1
            pos == SubSeq(Positions(e, dir), a, b)
            z == fat16_write_dir_entry(e, pos, new)
<1>1. CASE short = NoName
  <2>1. r.disk = d /\ r.pos = NoPos
    BY <1>1 DEF fat16_create_item
  <2>. QED
    BY <2>1, KeepsSelf
<1>2. CASE short # NoName
  <2>1. DiskShape(d) /\ IsDir(d, dir) /\ EndsOnce(Stored(d, dir))
    BY TopIs DEF Sound, DirsGood, GoodDir
  <2>2. short \in ShortNames
    BY <1>2, <2>1, NewNamesAre, Zenon
  <2>3. item \in Items
    BY <2>2 DEF Item, Items
  <2>. HIDE DEF item
  <2>4. Len(new) = count /\ count \in Nat \ {0}
    BY <2>3, NewEntries
  <2>. HIDE DEF count
  <2>5. /\ r.disk = IF a = ERROR THEN e ELSE z
        /\ r.pos = IF a = ERROR THEN NoPos ELSE Last(pos)
    <3>. HIDE DEF short
    <3>1. r = fat16_create_item(d, dir, es, name, kind, first) /\ short = ShortName(es, name) /\ short # NoName
      BY <1>2 DEF short
    <3>2. new = NewItems(name, Item(kind, short, first, 0)) /\ Len(new) = count
      BY <2>4 DEF item
    <3>3. /\ r.disk = IF fat16_find_free_slot(d, dir, es, Len(new)).slot = ERROR
                      THEN fat16_find_free_slot(d, dir, es, Len(new)).disk
                      ELSE fat16_write_dir_entry(
                            fat16_find_free_slot(d, dir, es, Len(new)).disk,
                            SubSeq(Positions(fat16_find_free_slot(d, dir, es, Len(new)).disk, dir),
                                   fat16_find_free_slot(d, dir, es, Len(new)).slot,
                                   fat16_find_free_slot(d, dir, es, Len(new)).slot + Len(new) - 1),
                            new)
          /\ r.pos = IF fat16_find_free_slot(d, dir, es, Len(new)).slot = ERROR THEN NoPos
                     ELSE Last(SubSeq(Positions(fat16_find_free_slot(d, dir, es, Len(new)).disk, dir),
                                   fat16_find_free_slot(d, dir, es, Len(new)).slot,
                                   fat16_find_free_slot(d, dir, es, Len(new)).slot + Len(new) - 1))
      BY <3>1, <3>2 DEF fat16_create_item
    <3>. QED
      BY <3>2, <3>3
  <2>6. /\ a = ERROR \/ Room(Stored(e, dir), a, count)
        /\ Sound(e, X) /\ Keeps(d, e) /\ Entries(e, dir) = es
        /\ HasChain(e, first) /\ Chain(e, first) = Chain(d, first)
        /\ first \in Clusters => Refs(e, first) = Refs(d, first) /\ Stored(e, first) = Stored(d, first)
    <3>. DEFINE g == f
    <3>1. g = fat16_find_free_slot(d, dir, Entries(d, dir), count)
      OBVIOUS
    <3>. HIDE DEF g
    <3>2. /\ g.slot = ERROR \/ Room(Stored(g.disk, dir), g.slot, count)
          /\ Sound(g.disk, X) /\ Keeps(d, g.disk) /\ Entries(g.disk, dir) = Entries(d, dir)
          /\ HasChain(g.disk, first) /\ Chain(g.disk, first) = Chain(d, first)
          /\ first \in Clusters => Refs(g.disk, first) = Refs(d, first)
                                   /\ Stored(g.disk, first) = Stored(d, first)
      BY <2>4, <3>1, SlotFree
    <3>. QED
      BY <3>2 DEF g
  <2>7. CASE a = ERROR
    BY <2>5, <2>6, <2>7
  <2>8. CASE a # ERROR
    <3>1. Room(Stored(e, dir), a, count) /\ dir \in Tops(e)
      BY <2>6, <2>8 DEF Keeps
    <3>2. DiskShape(e) /\ IsDir(e, dir) /\ EndsOnce(Stored(e, dir))
      BY <2>6, <3>1, TopIs DEF Sound, DirsGood, GoodDir
    <3>3. NewNames(Stored(e, dir), name, short)
      <4>1. fat16_find_index(Entries(e, dir), name) = 0 /\ ShortName(Entries(e, dir), name) # NoName
        BY <1>2, <2>6
      <4>2. NewNames(Stored(e, dir), name, ShortName(Entries(e, dir), name))
        BY <3>2, <4>1, NewNamesAre, Zenon
      <4>. QED
        BY <2>6, <4>2
    <3>. HIDE DEF f, short, e
    <3>4. /\ a \in 1 .. Len(Stored(e, dir)) /\ b \in a .. Len(Stored(e, dir))
          /\ FreePlace(Stored(e, dir), a, b, name)
      <4>0. PartsOf(name) \in Nat
        BY <2>3, NewEntries
      <4>1. b = a + PartsOf(name)
        <5>1. a \in Nat
          BY <3>1 DEF Room
        <5>. QED
          BY <4>0, <5>1 DEF count
      <4>. HIDE DEF a, b
      <4>2. b = a + count - 1
        BY DEF a, b
      <4>. QED
        BY <3>1, <4>1, <4>2 DEF Room, FreePlace
    <3>5. item.first = first /\ item.kind = kind /\ item.short = short /\ item.size = 0
      BY DEF item, Item
    <3>6. /\ NewNames(Stored(e, dir), name, item.short)
          /\ HasChain(e, item.first) /\ Range(Chain(e, item.first)) \subseteq X
          /\ item.kind = "dir" => item.first \in Clusters
          /\ item.kind = "dir" /\ dir = ROOT =>
                Refs(e, item.first) = {} /\ GoodDir(Stored(e, item.first))
      BY <2>6, <3>3, <3>5
    <3>. DEFINE p == Positions(e, dir)[b]
    <3>7. /\ DiskShape(z) /\ z.fat = e.fat /\ z.bytes = e.bytes
          /\ Follows(e, z) /\ dir \in Tops(z) /\ p \in Refs(z, dir) /\ NameIn(z, dir, p) = Fold(name)
          /\ p \in Cells /\ p \notin AllRefs(e) /\ AllRefs(z) = AllRefs(e) \cup {p}
          /\ At(z, p) = item /\ \A q \in AllRefs(e) : At(z, q) = At(e, q)
          /\ Sound(z, X \ Range(Chain(e, item.first)))
      <4>. HIDE DEF a, b, z
      <4>1. z = fat16_write_dir_entry(e, SubSeq(Positions(e, dir), a, b), NewItems(name, item))
        BY DEF z
      <4>2. Sound(e, X)
        BY <2>6
      <4>. HIDE DEF new
      <4>3. TakesPlace(e, z, X, dir, p, name, item)
        BY <2>3, <3>1, <3>4, <3>6, <4>1, <4>2, Added
      <4>. HIDE DEF p
      <4>. QED
        BY <4>3 DEF TakesPlace
    <3>8. Last(pos) = p
      <4>1. Positions(e, dir) \in Seq(Places(e, dir)) /\ Len(Positions(e, dir)) = Len(Stored(e, dir))
        <5>1. Numbered(e, dir, Stored(e, dir), Positions(e, dir))
          BY <3>2, RefIndex
        <5>. QED
          BY <5>1 DEF Numbered
      <4>. DEFINE q == Positions(e, dir)
                  n == Len(Stored(e, dir))
      <4>2. q \in Seq(Places(e, dir)) /\ Len(q) = n /\ a \in 1 .. n /\ b \in a .. n
        BY <3>4, <4>1
      <4>. HIDE DEF a, b, q, n
      <4>3. n \in Nat /\ a \in Nat /\ b \in Nat
        BY <4>2
      <4>4. SubSeq(q, a, b) = [i \in 1 .. b - a + 1 |-> q[a + i - 1]]
        BY <4>2, <4>3
      <4>5. Len(SubSeq(q, a, b)) = b - a + 1 /\ b - a + 1 \in 1 .. b - a + 1 /\ a + (b - a + 1) - 1 = b
        BY <4>2, <4>3, <4>4
      <4>6. Last(SubSeq(q, a, b)) = q[b]
        BY <4>4, <4>5 DEF Last
      <4>. QED
        BY <4>6 DEF q
    <3>. HIDE DEF a, b, z, p, pos
    <3>9. r.disk = z /\ r.pos = p
      BY <2>5, <2>8, <3>8
    <3>10. p # NoPos
      <4>1. p[1] \in Clusters \cup {ROOT}
        BY <3>7 DEF Cells
      <4>. QED
        BY <4>1, Limits DEF NoPos
    <3>11. Chain(z, first) = Chain(d, first) /\ \A y : Chain(z, y) = Chain(e, y)
      BY <2>6, <3>7, SameFat
    <3>12. AddsItem(d, z, p, At(z, p))
      <4>1. AllRefs(e) \subseteq AllRefs(z)
        BY <3>7
      <4>2. Intact(e, z)
        BY <3>7, SameBytes
      <4>3. Intact(d, z)
        BY <2>6, <4>1, <4>2, KeepsThen
      <4>. QED
        BY <2>6, <3>7, <3>11, <4>3 DEF AddsItem, Keeps
    <3>13. IsNew(At(z, p), kind, first)
      BY <2>3, <3>5, <3>7 DEF IsNew
    <3>14. NewIn(z, dir, p, name)
      BY <3>7 DEF NewIn
    <3>. QED
      BY <2>6, <3>5, <3>7, <3>9, <3>10, <3>11, <3>12, <3>13, <3>14
  <2>. QED
    BY <2>7, <2>8
<1>. QED
  BY <1>1, <1>2

-----------------------------------------------------------------------------
(* The inductive invariant                                                 *)

(* A file has as many clusters as its size needs. *)
Sized(d) ==
    \A p \in AllRefs(d) : At(d, p).kind = "file" =>
        Len(Chain(d, At(d, p).first)) = (At(d, p).size + CLUSTER - 1) \div CLUSTER

(***************************************************************************)
(* A descriptor x stands for an item on the disk.  One that writes has the *)
(* item as it is there; one that reads knows the same clusters, or was     *)
(* opened when there were none.                                            *)
(***************************************************************************)
Knows(x, item) ==
    /\ item.kind = "file" /\ x.pos \in 0 .. x.item.size
    /\ x.mode # "r" => x.item = item
    /\ \/ x.item.first = 0 /\ x.item.size = 0
       \/ x.item.first = item.first /\ x.item.size <= item.size
Holds(d, x) ==
    x.mode # "closed" =>
        /\ x.at \in AllRefs(d) /\ x.item \in Items
        /\ x.mode # "r" => x.item.kind = "file"
        /\ x.item.kind = "file" => Knows(x, At(d, x.at))

Records == [mode : {"closed", "r", "w", "a"}, item : Items \cup {Deleted}, pos : Nat, at : Cells]
Writing(x) == x.mode \in {"w", "a"}
DescsGood(d, ds) ==
    /\ ds \in [Descs -> Records]
    /\ \A f \in Descs : Holds(d, ds[f])
    /\ \A f, g \in Descs : Writing(ds[f]) /\ Writing(ds[g]) /\ ds[f].at = ds[g].at => f = g

FatInv == Sound(disk, {}) /\ Sized(disk) /\ DescsGood(disk, descs)

(* What a descriptor holds stays while its item does. *)
LEMMA HoldsKept ==
    ASSUME NEW d, NEW e, NEW x, Holds(d, x),
           x.mode # "closed" => x.at \in AllRefs(e) /\ At(e, x.at) = At(d, x.at)
    PROVE  Holds(e, x)
  BY DEF Holds

LEMMA DescsKept ==
    ASSUME NEW d, NEW e, NEW ds, DescsGood(d, ds),
           \A f \in Descs : ds[f].mode # "closed" =>
                ds[f].at \in AllRefs(e) /\ At(e, ds[f].at) = At(d, ds[f].at)
    PROVE  DescsGood(e, ds)
<1>1. \A f \in Descs : Holds(e, ds[f])
  BY HoldsKept DEF DescsGood
<1>. QED
  BY <1>1 DEF DescsGood

(* A new descriptor *)
LEMMA DescOpened ==
    ASSUME NEW d, DescsGood(d, descs), NEW mode \in {"r", "w", "a"}, NEW item \in Items,
           NEW pos \in Nat, NEW at \in Cells, Opens(mode, item, pos, at),
           at \in AllRefs(d), item = At(d, at), pos <= item.size,
           mode # "r" => /\ item.kind = "file"
                         /\ \A f \in Descs : Writing(descs[f]) => descs[f].at # at
    PROVE  DescsGood(d, descs')
<1>1. CASE UNCHANGED descs
  BY <1>1
<1>. DEFINE x == [mode |-> mode, item |-> item, pos |-> pos, at |-> at]
<1>2. CASE \E f \in Descs : descs' = [descs EXCEPT ![f] = x]
  <2>1. PICK f \in Descs : descs' = [descs EXCEPT ![f] = x]
    BY <1>2
  <2>2. x \in Records /\ x.mode = mode /\ x.item = item /\ x.pos = pos /\ x.at = at
    BY DEF Records
  <2>. HIDE DEF x
  <2>3. item.size \in Nat
    BY Kinds
  <2>4. Holds(d, x)
    BY <2>2, <2>3 DEF Holds, Knows
  <2>5. descs \in [Descs -> Records]
    BY DEF DescsGood
  <2>6. descs' \in [Descs -> Records]
    BY <2>1, <2>2, <2>5
  <2>7. \A g \in Descs : descs'[g] = IF g = f THEN x ELSE descs[g]
    BY <2>1, <2>5
  <2>8. \A g \in Descs : Holds(d, descs'[g])
    BY <2>4, <2>7 DEF DescsGood
  <2>9. Writing(x) => \A g \in Descs : Writing(descs[g]) => descs[g].at # x.at
    BY <2>2 DEF Writing
  <2>10. \A g, h \in Descs : Writing(descs'[g]) /\ Writing(descs'[h]) /\ descs'[g].at = descs'[h].at => g = h
    <3>1. \A g, h \in Descs : Writing(descs[g]) /\ Writing(descs[h]) /\ descs[g].at = descs[h].at => g = h
      BY DEF DescsGood
    <3>. QED
      BY <2>7, <2>9, <3>1
  <2>. QED
    BY <2>6, <2>8, <2>10 DEF DescsGood
<1>. QED
  BY <1>1, <1>2 DEF Opens

(* Cells of the root are items of it. *)
LEMMA FirstCell == <<ROOT, 0>> \in Cells
<1>1. ROOT_ENTRIES \in Nat \ {0}
  BY FatAssumption
<1>2. 0 \in Slots(ROOT)
  BY <1>1 DEF Slots
<1>. QED
  BY <1>2 DEF Cells

-----------------------------------------------------------------------------
(* Paths                                                                   *)

LEMMA ParentTop ==
    ASSUME Sound(disk, {}), NEW path \in Paths, NEW dir \in Parents(path)
    PROVE  dir \in Tops(disk) /\ Last(path) \in Names
<1>1. Last(path) \in Names
  <2>1. CASE \E n \in Names : path = <<n>>
    BY <2>1 DEF Last
  <2>2. CASE \E m \in Dirs, n \in Names : path = <<m, n>>
    BY <2>2 DEF Last
  <2>. QED
    BY <2>1, <2>2 DEF Paths
<1>2. CASE Len(path) = 1
  BY <1>1, <1>2, RootIsDir DEF Parents
<1>3. CASE Len(path) # 1
  <2>1. PICK x \in Lookup(ROOT, path[1]) : x.index # 0 /\ FoundItem(x).kind = "dir" /\ dir = FoundItem(x).first
    BY <1>3 DEF Parents
  <2>. DEFINE s == Stored(disk, ROOT)
              k == fat16_find_index(Entries(disk, ROOT), path[1])
  <2>2. x.index = k /\ x.entries = Entries(disk, ROOT)
    BY DEF Lookup
  <2>3. DiskShape(disk) /\ IsDir(disk, ROOT) /\ EndsOnce(s)
    BY RootIsDir DEF Sound, DirsGood, GoodDir
  <2>4. k \in 1 .. Len(Entries(disk, ROOT)) /\ k \in 1 .. Len(s) /\ IsItem(s[k])
    BY <2>1, <2>2, <2>3, FoundIs, Zenon
  <2>5. Entries(disk, ROOT)[k] = s[k]
    BY <2>3, <2>4, EntriesAre, Zenon
  <2>6. Numbered(disk, ROOT, s, Positions(disk, ROOT))
    BY <2>3, RefIndex
  <2>. HIDE DEF s, k
  <2>7. FoundItem(x) = s[k]
    BY <2>2, <2>5 DEF FoundItem
  <2>8. Positions(disk, ROOT)[k] \in Refs(disk, ROOT) /\ At(disk, Positions(disk, ROOT)[k]) = s[k]
    BY <2>4, <2>6 DEF Numbered
  <2>9. dir \in Tops(disk)
    BY <2>1, <2>7, <2>8 DEF Tops
  <2>. QED
    BY <1>1, <2>9
<1>. QED
  BY <1>2, <1>3

(* An item that is found is one of its directory. *)
IsFound(d, x) ==
    /\ x.dir \in Tops(d) /\ x.entries = Entries(d, x.dir)
    /\ x.index \in 1 .. Len(Stored(d, x.dir)) /\ x.index \in 1 .. Len(x.entries)
    /\ Stored(d, x.dir)[x.index] = FoundItem(x) /\ IsItem(FoundItem(x)) /\ FoundItem(x) \in Items
    /\ FoundAt(x) = Positions(d, x.dir)[x.index]
    /\ FoundAt(x) \in Cells /\ FoundAt(x) \in Refs(d, x.dir) /\ FoundAt(x) \in AllRefs(d)
    /\ At(d, FoundAt(x)) = FoundItem(x)

LEMMA FoundFile ==
    ASSUME Sound(disk, {}), NEW path \in Paths, NEW x \in Found(path)
    PROVE  IsFound(disk, x)
<1>1. PICK dir \in Parents(path) : x \in Lookup(dir, Last(path)) /\ x.index # 0
  BY DEF Found, Lookups
<1>2. dir \in Tops(disk)
  BY ParentTop
<1>. DEFINE s == Stored(disk, dir)
            es == Entries(disk, dir)
            pos == Positions(disk, dir)
            k == fat16_find_index(es, Last(path))
<1>3. x.dir = dir /\ x.index = k /\ x.entries = es
  BY <1>1 DEF Lookup
<1>4. DiskShape(disk) /\ IsDir(disk, dir) /\ EndsOnce(s)
  BY <1>2, TopIs DEF Sound, DirsGood, GoodDir
<1>5. k \in 1 .. Len(es) /\ k \in 1 .. Len(s) /\ IsItem(s[k])
  BY <1>1, <1>3, <1>4, FoundIs, Zenon
<1>6. es[k] = s[k]
  BY <1>4, <1>5, EntriesAre, Zenon
<1>7. Numbered(disk, dir, s, pos)
  BY <1>4, RefIndex
<1>8. FoundAt(x) = pos[k]
  BY <1>3 DEF FoundAt, fat16_dir_entry_pos
<1>. HIDE DEF s, k, es, pos
<1>9. FoundItem(x) = s[k]
  BY <1>3, <1>6 DEF FoundItem
<1>10. pos[k] \in Refs(disk, dir) /\ At(disk, pos[k]) = s[k] /\ pos[k] \in Cells /\ s[k] \in Items
  BY <1>5, <1>7, Kinds DEF Numbered
<1>11. pos[k] \in AllRefs(disk)
  BY <1>2, <1>10, RefsIn
<1>. QED
  BY <1>2, <1>3, <1>5, <1>8, <1>9, <1>10, <1>11 DEF IsFound, s, es, pos

LEMMA MissingName ==
    ASSUME Sound(disk, {}), NEW path \in Paths, NEW x \in Missing(path)
    PROVE  /\ x.dir \in Tops(disk) /\ Last(path) \in Names
           /\ x.entries = Entries(disk, x.dir) /\ fat16_find_index(x.entries, Last(path)) = 0
<1>1. PICK dir \in Parents(path) : x \in Lookup(dir, Last(path)) /\ x.index = 0
  BY DEF Missing, Lookups
<1>2. dir \in Tops(disk) /\ Last(path) \in Names
  BY ParentTop
<1>. QED
  BY <1>1, <1>2 DEF Lookup

-----------------------------------------------------------------------------
(* Clusters given back                                                     *)

LEMMA FreeChainIs ==
    ASSUME NEW d, DiskShape(d), NEW first
    PROVE  Frees(d, fat16_free_chain(d, first), Range(Chain(d, first)))
<1>. DEFINE Y == Range(Chain(d, first))
            fat == [c \in Clusters |-> IF c \in Y THEN UNUSED ELSE d.fat[c]]
            e == fat16_free_chain(d, first)
<1>1. e = [d EXCEPT !.fat = fat]
  BY DEF fat16_free_chain
<1>2. d = [fat |-> d.fat, items |-> d.items, bytes |-> d.bytes, next_free |-> d.next_free]
  BY DEF DiskShape
<1>3. fat = [c \in Clusters |-> fat[c]] /\ \A c \in Clusters : fat[c] = IF c \in Y THEN UNUSED ELSE d.fat[c]
  OBVIOUS
<1>. HIDE DEF e, fat, Y
<1>4. /\ e = [fat |-> fat, items |-> d.items, bytes |-> d.bytes, next_free |-> d.next_free]
      /\ e.fat = fat /\ e.items = d.items /\ e.bytes = d.bytes /\ e.next_free = d.next_free
  BY <1>1, <1>2
<1>5. e = [fat |-> e.fat, items |-> e.items, bytes |-> e.bytes, next_free |-> e.next_free]
  BY <1>4, Zenon
<1>6. DiskShape(e)
  BY <1>3, <1>4, <1>5, Zenon DEF DiskShape
<1>. QED
  BY <1>3, <1>4, <1>6, Zenon DEF Frees, e, Y

(* The items that are written depend on the items alone, so that it does   *)
(* not matter whether a chain is freed before or after.                    *)
LEMMA WriteFreed ==
    ASSUME NEW d, DiskShape(d), NEW g, NEW Y, Frees(d, g, Y), NEW pos \in Seq(Cells),
           \A i, j \in 1 .. Len(pos) : pos[i] = pos[j] => i = j,
           NEW es, \A i \in 1 .. Len(pos) : es[i] \in Entry
    PROVE  Frees(fat16_write_dir_entry(d, pos, es), fat16_write_dir_entry(g, pos, es), Y)
<1>. DEFINE at(c, k) == {i \in DOMAIN pos : pos[i] = <<c, k>>}
            new(items) == [c \in DOMAIN items |-> [k \in DOMAIN items[c] |->
                IF at(c, k) = {} THEN items[c][k] ELSE es[CHOOSE i \in at(c, k) : TRUE]]]
            a == fat16_write_dir_entry(d, pos, es)
            b == fat16_write_dir_entry(g, pos, es)
<1>1. a = [d EXCEPT !.items = new(d.items)] /\ b = [g EXCEPT !.items = new(g.items)]
  BY DEF fat16_write_dir_entry
<1>2. DiskShape(g) /\ g.items = d.items /\ g.bytes = d.bytes
  BY DEF Frees
<1>3. Wrote(d, a, pos, es) /\ Wrote(g, b, pos, es)
  BY <1>2, WriteIs, Zenon
<1>. HIDE DEF new, a, b
<1>4. /\ d = [fat |-> d.fat, items |-> d.items, bytes |-> d.bytes, next_free |-> d.next_free]
      /\ g = [fat |-> g.fat, items |-> g.items, bytes |-> g.bytes, next_free |-> g.next_free]
  BY <1>2 DEF DiskShape
<1>5. a.items = new(d.items) /\ b.items = new(g.items)
  BY <1>1, <1>4
<1>6. DiskShape(b) /\ b.fat = g.fat /\ a.fat = d.fat /\ b.bytes = g.bytes /\ a.bytes = d.bytes
  BY <1>3 DEF Wrote
<1>7. \A c \in Clusters : g.fat[c] = IF c \in Y THEN UNUSED ELSE d.fat[c]
  BY DEF Frees
<1>. QED
  BY <1>2, <1>5, <1>6, <1>7, Zenon DEF Frees, a, b

-----------------------------------------------------------------------------
(* The empty disk                                                          *)

LEMMA NoItemsGood ==
    ASSUME NEW s \in Seq(Entry), \A k \in 1 .. Len(s) : s[k] \in {End, Deleted, Dot}, EndsOnce(s)
    PROVE  GoodDir(s)
<1>1. \A k \in 1 .. Len(s) : ~ IsItem(s[k]) /\ s[k].kind # "lfn"
  BY Kinds
<1>. QED
  BY <1>1 DEF GoodDir, PartsHeld, NamesDiffer

LEMMA InitGood == Init => FatInv
<1>. SUFFICES ASSUME Init PROVE FatInv
  OBVIOUS
<1>1. /\ disk.fat = [c \in Clusters |-> UNUSED]
      /\ disk.items = [c \in Clusters \cup {ROOT} |-> NoItems(c)]
      /\ disk = [fat |-> disk.fat, items |-> disk.items, bytes |-> disk.bytes,
                 next_free |-> disk.next_free]
  BY DEF Init
<1>2. \A c \in Clusters \cup {ROOT} : disk.items[c] \in [Slots(c) -> Entry]
  BY <1>1 DEF NoItems, Entry
<1>3. DiskShape(disk)
  <2>1. /\ disk.items = [c \in Clusters \cup {ROOT} |-> disk.items[c]]
        /\ disk.fat = [c \in Clusters |-> disk.fat[c]]
    BY <1>1
  <2>. QED
    BY <1>1, <1>2, <2>1 DEF DiskShape
<1>4. \A p \in Cells : At(disk, p) = End
  <2>1. ASSUME NEW p \in Cells PROVE At(disk, p) = End
    <3>1. p[1] \in Clusters \cup {ROOT} /\ p[2] \in Slots(p[1])
      BY <1>3, CellEntry, Zenon
    <3>. QED
      BY <1>1, <3>1 DEF At, NoItems
  <2>. QED
    BY <2>1
<1>5. IsDir(disk, ROOT) /\ Places(disk, ROOT) \subseteq Cells
  BY RootIsDir, PlacesAreCells, Zenon
<1>6. Refs(disk, ROOT) = {}
  BY <1>4, <1>5, Kinds DEF Refs
<1>7. Tops(disk) = {ROOT} /\ AllRefs(disk) = {}
  BY <1>6 DEF Tops, AllRefs
<1>8. GoodDir(Stored(disk, ROOT))
  <2>. DEFINE s == Stored(disk, ROOT)
  <2>1. s \in Seq(Entry) /\ \A i \in 1 .. Len(s) : s[i] = End
    BY <1>3, <1>4, <1>5, StoredIs, Zenon
  <2>. HIDE DEF s
  <2>2. EndsOnce(s)
    BY <2>1 DEF EndsOnce
  <2>3. GoodDir(s)
    BY <2>1, <2>2, NoItemsGood
  <2>. QED
    BY <2>3 DEF s
<1>9. Sound(disk, {})
  <2>1. \A c \in Clusters : disk.fat[c] = UNUSED
    BY <1>1
  <2>. QED
    BY <1>3, <1>7, <1>8, <2>1 DEF Sound, Chained, Apart, Spare, Owned, DirsGood
<1>10. Closed \in Records /\ Closed.mode = "closed"
  BY FirstCell DEF Closed, Records
<1>11. DescsGood(disk, descs)
  <2>1. descs = [f \in Descs |-> Closed]
    BY DEF Init
  <2>. QED
    BY <1>10, <2>1 DEF DescsGood, Holds, Writing
<1>12. Sized(disk)
  BY <1>7 DEF Sized
<1>. QED
  BY <1>9, <1>11, <1>12 DEF FatInv

-----------------------------------------------------------------------------
(* Opening                                                                 *)

(* What a disk with freed clusters has in common with the one before *)
SameItems(d, e) ==
    /\ Tops(e) = Tops(d) /\ AllRefs(e) = AllRefs(d)
    /\ Follows(d, e) /\ e.bytes = d.bytes
    /\ \A p \in AllRefs(d) : At(e, p) = At(d, p)
                             /\ Chain(e, At(d, p).first) = Chain(d, At(d, p).first)
LEMMA Freed ==
    ASSUME NEW d, NEW e, NEW X, NEW Y, Sound(d, X \cup Y), X \cap Y = {}, Frees(d, e, Y)
    PROVE  Sound(e, X) /\ SameItems(d, e)
<1>1. Sound(e, X) /\ Tops(e) = Tops(d) /\ AllRefs(e) = AllRefs(d) /\ Follows(d, e)
  BY Freeing
<1>2. \A p \in AllRefs(d) : At(e, p) = At(d, p)
                             /\ Chain(e, At(d, p).first) = Chain(d, At(d, p).first)
  BY Freeing
<1>. QED
  BY <1>1, <1>2 DEF SameItems, Frees

LEMMA NoChain == ASSUME NEW d PROVE HasChain(d, 0) /\ Chain(d, 0) = <<>>
<1>1. IsChain(d, 0, <<>>)
  BY Limits DEF IsChain
<1>2. Chain(d, 0) = <<>>
  BY <1>1, ChainIs
<1>. QED
  BY <1>1, <1>2 DEF HasChain

(* The number of clusters for a size *)
LEMMA ClustersFor ==
    ASSUME NEW c \in Nat \ {0}, NEW n \in Nat, NEW x \in Nat, x <= c * n, c * n < x + c
    PROVE  n = (x + c - 1) \div c
<1>. DEFINE k == x + c - 1 - c * n
<1>1. c * n \in Nat
  OBVIOUS
<1>2. k \in 0 .. c - 1 /\ x + c - 1 = c * n + k
  BY <1>1
<1>. HIDE DEF k
<1>. QED
  BY <1>2, DivMod

LEMMA SizeFits ==
    ASSUME NEW c \in Nat \ {0}, NEW n, NEW x \in Nat, n = (x + c - 1) \div c
    PROVE  n \in Nat /\ c * n \in Nat /\ x <= c * n /\ c * n < x + c
<1>. DEFINE y == x + c - 1
<1>1. y \in Nat /\ n = y \div c
  OBVIOUS
<1>. HIDE DEF y
<1>2. y % c \in 0 .. c - 1 /\ y = c * n + (y % c)
  BY <1>1, DivModIs
<1>3. n \in Nat
  BY <1>1
<1>4. c * n \in Nat
  BY <1>3
<1>. QED
  BY <1>2, <1>3, <1>4 DEF y

LEMMA SizedKept ==
    ASSUME NEW d, NEW e, Sized(d),
           \A p \in AllRefs(e) :
                /\ p \in AllRefs(d) /\ At(e, p) = At(d, p)
                /\ At(d, p).kind = "file" => Chain(e, At(d, p).first) = Chain(d, At(d, p).first)
    PROVE  Sized(e)
  BY DEF Sized

LEMMA Reading ==
    ASSUME FatInv, NEW path \in Paths, OpenRead(path)
    PROVE  FatInv'
<1>1. PICK x \in Found(path) : Opens("r", FoundItem(x), 0, FoundAt(x))
  BY DEF OpenRead
<1>2. IsFound(disk, x)
  BY FoundFile DEF FatInv
<1>3. 0 <= FoundItem(x).size
  BY <1>2, Kinds DEF IsFound
<1>4. DescsGood(disk, descs')
  <2>1. DescsGood(disk, descs) /\ "r" \in {"r", "w", "a"} /\ 0 \in Nat
    BY DEF FatInv
  <2>. QED
    BY <1>1, <1>2, <1>3, <2>1, DescOpened DEF IsFound
<1>. QED
  BY <1>4 DEF FatInv, OpenRead

(* A file that is cut loses its clusters. *)
Cut(item) == [item EXCEPT !.first = 0, !.size = 0]
Cuts(d, e, p) ==
    /\ Sound(e, {}) /\ Sized(e) /\ AllRefs(e) = AllRefs(d)
    /\ At(e, p) = Cut(At(d, p)) /\ \A q \in AllRefs(d) : q # p => At(e, q) = At(d, q)
    /\ Follows(d, e) /\ e.bytes = d.bytes
    /\ \A q \in AllRefs(d) : q # p => Chain(e, At(d, q).first) = Chain(d, At(d, q).first)
LEMMA CutFile ==
    ASSUME NEW d, Sound(d, {}), Sized(d), NEW p \in AllRefs(d), At(d, p).kind = "file",
           NEW e, e = fat16_write_dir_entry(fat16_free_chain(d, At(d, p).first),
                                            <<p>>, <<Cut(At(d, p))>>)
    PROVE  Cuts(d, e, p)
<1>. DEFINE item == At(d, p)
            new == Cut(item)
            Y == Own(d, p)
            g == fat16_free_chain(d, item.first)
            a == fat16_write_dir_entry(d, <<p>>, <<new>>)
<1>1. DiskShape(d) /\ Chained(d)
  BY DEF Sound
<1>2. p \in Cells /\ item \in Items
  BY <1>1, AllRefIs
<1>3. new \in Items /\ new.kind = "file" /\ new.short = item.short /\ new.first = 0 /\ new.size = 0
  BY <1>2 DEF Items, Cut
<1>4. Frees(d, g, Y)
  BY <1>1, FreeChainIs DEF Own
<1>. HIDE DEF item, new, g, a
<1>5. Frees(a, e, Y)
  <2>1. <<p>> \in Seq(Cells) /\ Len(<<p>>) = 1
    BY <1>2
  <2>2. \A i, j \in 1 .. Len(<<p>>) : <<p>>[i] = <<p>>[j] => i = j
    BY <2>1
  <2>3. \A i \in 1 .. Len(<<p>>) : <<new>>[i] \in Entry
    BY <1>3, <2>1 DEF Entry
  <2>4. e = fat16_write_dir_entry(g, <<p>>, <<new>>)
    BY DEF g, new, item
  <2>. HIDE DEF Y
  <2>5. \A i \in 1 .. Len(<<p>>) : <<p>>[i] = p
    BY <2>1
  <2>6. Frees(fat16_write_dir_entry(d, <<p>>, <<new>>), fat16_write_dir_entry(g, <<p>>, <<new>>), Y)
    BY <1>1, <1>4, <2>1, <2>2, <2>3, WriteFreed, Zenon
  <2>. QED
    BY <2>4, <2>6 DEF a
<1>6. /\ a.fat = d.fat /\ Tops(a) = Tops(d) /\ AllRefs(a) = AllRefs(d)
      /\ At(a, p) = new /\ \A q \in AllRefs(d) : q # p => At(a, q) = At(d, q)
      /\ Sound(a, {} \cup Y) /\ Follows(d, a) /\ a.bytes = d.bytes
  <2>1. HasChain(d, new.first) /\ Chain(d, new.first) = <<>> /\ Range(<<>>) = {}
    BY <1>3, NoChain DEF Range
  <2>2. Range(Chain(d, new.first)) \subseteq {} \cup Own(d, p)
    BY <2>1
  <2>3. Range(Chain(d, new.first)) = {}
    BY <2>1
  <2>6. a = fat16_write_dir_entry(d, <<p>>, <<new>>) /\ new.short = At(d, p).short
    BY <1>3 DEF a, item
  <2>4. /\ a.fat = d.fat /\ Tops(a) = Tops(d) /\ AllRefs(a) = AllRefs(d)
        /\ At(a, p) = new /\ \A q \in AllRefs(d) : q # p => At(a, q) = At(d, q)
        /\ Sound(a, ({} \cup Own(d, p)) \ Range(Chain(d, new.first)))
        /\ Follows(d, a) /\ a.bytes = d.bytes
    BY <1>3, <2>1, <2>2, <2>6, Replaced
  <2>5. ({} \cup Own(d, p)) \ Range(Chain(d, new.first)) = {} \cup Y
    BY <2>3
  <2>. QED
    BY <2>4, <2>5, Zenon
<1>. HIDE DEF Y
<1>7. /\ Sound(e, {}) /\ AllRefs(e) = AllRefs(a)
      /\ \A q \in AllRefs(a) : At(e, q) = At(a, q)
                    /\ Chain(e, At(a, q).first) = Chain(a, At(a, q).first)
      /\ Follows(a, e) /\ e.bytes = a.bytes
  <2>1. {} \cap Y = {}
    OBVIOUS
  <2>2. Sound(e, {}) /\ SameItems(a, e)
    BY <1>5, <1>6, <2>1, Freed, Zenon
  <2>. QED
    BY <2>2 DEF SameItems
<1>9. Follows(d, e)
  BY <1>6, <1>7, FollowsThen
<1>10. \A f : Chain(a, f) = Chain(d, f)
  BY <1>6, SameFat
<1>8. Sized(e)
  <2>1. \A f : Chain(a, f) = Chain(d, f)
    BY <1>10
  <2>2. CLUSTER \in Nat \ {0} /\ 0 = (0 + CLUSTER - 1) \div CLUSTER
    BY FatAssumption, ClustersFor
  <2>3. At(e, p) = new /\ Chain(e, new.first) = <<>>
    BY <1>3, <1>6, <1>7, NoChain
  <2>4. \A q \in AllRefs(e) : q # p =>
            q \in AllRefs(d) /\ At(e, q) = At(d, q) /\ Chain(e, At(d, q).first) = Chain(d, At(d, q).first)
    BY <1>6, <1>7, <2>1
  <2>5. Len(Chain(e, new.first)) = (new.size + CLUSTER - 1) \div CLUSTER
    BY <1>3, <2>2, <2>3
  <2>. QED
    BY <2>3, <2>4, <2>5 DEF Sized
<1>. QED
  BY <1>6, <1>7, <1>8, <1>9, <1>10 DEF Cuts, new, item

LEMMA OpeningFileIs ==
    ASSUME Careful, FatInv, NEW path \in Paths, NEW mode \in {"w", "a"}, OpenExisting(path, mode)
    PROVE  \E x \in Found(path) :
            LET at == FoundAt(x)
                item == FoundItem(x)
            IN  /\ item.kind = "file" /\ Writers(at) = {}
                /\ \/ /\ mode = "w" /\ Users(at) = {} /\ Cuts(disk, disk', at)
                      /\ Opens(mode, Cut(item), 0, at)
                   \/ /\ mode = "w" => item.first = 0
                      /\ disk' = disk
                      /\ Opens(mode, item, IF mode = "a" THEN item.size ELSE 0, at)
<1>1. Sound(disk, {}) /\ Sized(disk)
  BY DEF FatInv
<1>2. PICK x \in Found(path) :
        LET item == FoundItem(x)
            cut == mode = "w" /\ item.first # 0
            new == IF cut THEN [item EXCEPT !.first = 0, !.size = 0] ELSE item
        IN  /\ item.kind = "file"
            /\ Careful => Writers(FoundAt(x)) = {} /\ (cut => Users(FoundAt(x)) = {})
            /\ disk' = IF cut
                       THEN fat16_write_dir_entry(fat16_free_chain(disk, item.first),
                                                  <<FoundAt(x)>>, <<new>>)
                       ELSE disk
            /\ Opens(mode, new, IF mode = "a" THEN new.size ELSE 0, FoundAt(x))
  BY DEF OpenExisting
<1>. DEFINE item == FoundItem(x)
            at == FoundAt(x)
            cut == mode = "w" /\ item.first # 0
<1>3. at \in AllRefs(disk) /\ At(disk, at) = item
  BY <1>1, FoundFile DEF IsFound
<1>4. item.kind = "file" /\ Writers(at) = {} /\ (cut => Users(at) = {})
  BY <1>2
<1>5. CASE cut
  <2>1. disk' = fat16_write_dir_entry(fat16_free_chain(disk, item.first), <<at>>, <<Cut(item)>>)
    BY <1>2, <1>5 DEF Cut
  <2>2. Opens(mode, Cut(item), 0, at)
    <3>1. mode # "a" /\ Opens(mode, Cut(item), IF mode = "a" THEN Cut(item).size ELSE 0, at)
      BY <1>2, <1>5 DEF Cut
    <3>. QED
      BY <3>1
  <2>3. Cuts(disk, disk', at)
    <3>. HIDE DEF item, at
    <3>. QED
      BY <1>1, <1>3, <1>4, <2>1, CutFile
  <2>. QED
    BY <1>4, <1>5, <2>2, <2>3
<1>6. CASE ~ cut
  <2>1. disk' = disk /\ Opens(mode, item, IF mode = "a" THEN item.size ELSE 0, at)
    BY <1>2, <1>6
  <2>. QED
    BY <1>4, <1>6, <2>1
<1>. QED
  BY <1>5, <1>6

LEMMA OpeningFile ==
    ASSUME Careful, FatInv, NEW path \in Paths, NEW mode \in {"w", "a"}, OpenExisting(path, mode)
    PROVE  FatInv'
<1>1. Sound(disk, {}) /\ Sized(disk) /\ DescsGood(disk, descs)
  BY DEF FatInv
<1>2. PICK x \in Found(path) :
        LET at == FoundAt(x)
            item == FoundItem(x)
        IN  /\ item.kind = "file" /\ Writers(at) = {}
            /\ \/ /\ mode = "w" /\ Users(at) = {} /\ Cuts(disk, disk', at)
                  /\ Opens(mode, Cut(item), 0, at)
               \/ /\ mode = "w" => item.first = 0
                  /\ disk' = disk
                  /\ Opens(mode, item, IF mode = "a" THEN item.size ELSE 0, at)
  BY OpeningFileIs
<1>. DEFINE item == FoundItem(x)
            at == FoundAt(x)
<1>3. /\ at \in AllRefs(disk) /\ at \in Cells /\ At(disk, at) = item /\ item \in Items
      /\ item.size \in Nat
  BY <1>1, FoundFile, Kinds DEF IsFound
<1>4. item.kind = "file" /\ Writers(at) = {}
  BY <1>2
<1>5. \A f \in Descs : Writing(descs[f]) => descs[f].at # at
  BY <1>4 DEF Writers, Users, Writing
<1>6. mode \in {"r", "w", "a"}
  OBVIOUS
<1>7. CASE Users(at) = {} /\ Cuts(disk, disk', at) /\ Opens(mode, Cut(item), 0, at)
  <2>. HIDE DEF item, at
  <2>3. /\ Sound(disk', {}) /\ Sized(disk') /\ AllRefs(disk') = AllRefs(disk)
        /\ At(disk', at) = Cut(item)
        /\ \A q \in AllRefs(disk) : q # at => At(disk', q) = At(disk, q)
    BY <1>3, <1>7 DEF Cuts
  <2>4. \A f \in Descs : descs[f].mode # "closed" => descs[f].at # at
    BY <1>7 DEF Users
  <2>5. DescsGood(disk', descs)
    <3>1. \A f \in Descs : descs[f].mode # "closed" => descs[f].at \in AllRefs(disk)
      BY <1>1 DEF DescsGood, Holds
    <3>2. \A f \in Descs : descs[f].mode # "closed" =>
            descs[f].at \in AllRefs(disk') /\ At(disk', descs[f].at) = At(disk, descs[f].at)
      BY <2>3, <2>4, <3>1
    <3>. QED
      BY <1>1, <3>2, DescsKept
  <2>6. Cut(item) \in Items /\ Cut(item).kind = "file" /\ 0 <= Cut(item).size /\ 0 \in Nat
    <3>1. Cut(item) \in Items /\ Cut(item).kind = "file" /\ Cut(item).size = 0
      BY <1>3, <1>4 DEF Items, Cut
    <3>. QED
      BY <3>1
  <2>7. at \in AllRefs(disk') /\ Cut(item) = At(disk', at)
    BY <1>3, <2>3
  <2>8. DescsGood(disk', descs')
    BY <1>3, <1>5, <1>6, <1>7, <2>5, <2>6, <2>7, DescOpened
  <2>. QED
    BY <2>3, <2>8 DEF FatInv
<1>8. CASE disk' = disk /\ Opens(mode, item, IF mode = "a" THEN item.size ELSE 0, at)
  <2>1. (IF mode = "a" THEN item.size ELSE 0) \in Nat /\ (IF mode = "a" THEN item.size ELSE 0) <= item.size
    BY <1>3
  <2>. HIDE DEF item, at
  <2>2. DescsGood(disk, descs')
    BY <1>1, <1>3, <1>4, <1>5, <1>6, <1>8, <2>1, DescOpened
  <2>. QED
    BY <1>1, <1>8, <2>2 DEF FatInv
<1>. QED
  BY <1>2, <1>7, <1>8

(* What else there is stays good when an item is added. *)
LEMMA KeepsGood ==
    ASSUME NEW d, NEW e, NEW ds, Sized(d), DescsGood(d, ds), Keeps(d, e)
    PROVE  Sized(e) /\ DescsGood(e, ds)
<1>1. Sized(e)
  BY SizedKept DEF Keeps
<1>2. \A f \in Descs : ds[f].mode # "closed" => ds[f].at \in AllRefs(d)
  BY DEF DescsGood, Holds
<1>3. \A f \in Descs : ds[f].mode # "closed" =>
            ds[f].at \in AllRefs(e) /\ At(e, ds[f].at) = At(d, ds[f].at)
  BY <1>2 DEF Keeps
<1>. QED
  BY <1>1, <1>3, DescsKept

LEMMA AddsGood ==
    ASSUME NEW d, NEW e, NEW ds, Sized(d), DescsGood(d, ds), NEW p, NEW item,
           AddsItem(d, e, p, item), NEW kind, NEW first, IsNew(item, kind, first),
           kind = "file" => first = 0
    PROVE  /\ Sized(e) /\ DescsGood(e, ds)
           /\ \A f \in Descs : ds[f].mode # "closed" => ds[f].at # p
<1>1. \A f \in Descs : ds[f].mode # "closed" => ds[f].at \in AllRefs(d)
  BY DEF DescsGood, Holds
<1>2. \A f \in Descs : ds[f].mode # "closed" =>
            ds[f].at \in AllRefs(e) /\ At(e, ds[f].at) = At(d, ds[f].at)
  BY <1>1 DEF AddsItem
<1>3. DescsGood(e, ds)
  BY <1>2, DescsKept
<1>4. CLUSTER \in Nat \ {0} /\ 0 = (0 + CLUSTER - 1) \div CLUSTER
  BY FatAssumption, ClustersFor
<1>5. At(e, p) = item /\ item.size = 0 /\ item.kind = kind /\ item.first = first
  BY DEF AddsItem, IsNew
<1>6. kind = "file" => Chain(e, item.first) = <<>>
  BY <1>5, NoChain
<1>7. kind = "file" => Len(Chain(e, item.first)) = (item.size + CLUSTER - 1) \div CLUSTER
  BY <1>4, <1>5, <1>6
<1>8. \A q \in AllRefs(e) : q # p =>
            /\ q \in AllRefs(d) /\ At(e, q) = At(d, q)
            /\ At(d, q).kind = "file" => Chain(e, At(d, q).first) = Chain(d, At(d, q).first)
  BY DEF AddsItem
<1>9. Sized(e)
  BY <1>5, <1>7, <1>8 DEF Sized
<1>10. p \notin AllRefs(d)
  BY DEF AddsItem
<1>. QED
  BY <1>1, <1>3, <1>9, <1>10

LEMMA OpeningNewIs ==
    ASSUME FatInv, NEW path \in Paths, NEW mode \in {"w", "a"}, OpenNew(path, mode)
    PROVE  \E x \in Missing(path) :
            \/ Sound(disk', {}) /\ Keeps(disk, disk') /\ descs' = descs
            \/ \E p : /\ Makes(disk, disk', x.dir, Last(path), "file", p, 0)
                      /\ Opens(mode, At(disk', p), 0, p)
<1>1. Sound(disk, {})
  BY DEF FatInv
<1>2. PICK x \in Missing(path) :
        \E r \in {fat16_create_item(disk, x.dir, x.entries, Last(path), "file", 0)} :
            /\ disk' = r.disk
            /\ IF r.pos = NoPos THEN UNCHANGED descs
               ELSE Opens(mode, r.disk.items[r.pos[1]][r.pos[2]], 0, r.pos)
  BY DEF OpenNew
<1>. DEFINE name == Last(path)
            dir == x.dir
            es == Entries(disk, dir)
            r == fat16_create_item(disk, dir, es, name, "file", 0)
<1>3. dir \in Tops(disk) /\ name \in Names /\ x.entries = es /\ fat16_find_index(es, name) = 0
  BY <1>1, MissingName
<1>4. /\ disk' = r.disk
      /\ IF r.pos = NoPos THEN UNCHANGED descs ELSE Opens(mode, At(r.disk, r.pos), 0, r.pos)
  BY <1>2, <1>3 DEF At
<1>5. HasChain(disk, 0) /\ Range(Chain(disk, 0)) = {} /\ Range(Chain(disk, 0)) \subseteq {}
  BY NoChain DEF Range
<1>6. "file" \in {"file", "dir"} /\ 0 \in Clusters \cup {0} /\ "file" # "dir"
  OBVIOUS
<1>7. \/ r.pos = NoPos /\ Sound(r.disk, {}) /\ Keeps(disk, r.disk)
      \/ /\ r.pos # NoPos /\ Sound(r.disk, {} \ Range(Chain(disk, 0)))
         /\ AddsItem(disk, r.disk, r.pos, At(r.disk, r.pos))
         /\ IsNew(At(r.disk, r.pos), "file", 0) /\ NewIn(r.disk, dir, r.pos, name)
  <2>. HIDE DEF dir, name
  <2>. QED
    BY <1>1, <1>3, <1>5, <1>6, Created
<1>. HIDE DEF r
<1>8. CASE r.pos = NoPos
  BY <1>4, <1>7, <1>8
<1>9. CASE r.pos # NoPos
  <2>1. {} \ Range(Chain(disk, 0)) = {}
    OBVIOUS
  <2>2. Makes(disk, disk', dir, name, "file", r.pos, 0) /\ Opens(mode, At(disk', r.pos), 0, r.pos)
    BY <1>4, <1>7, <1>9, <2>1 DEF Makes
  <2>. QED
    BY <2>2
<1>. QED
  BY <1>8, <1>9

LEMMA OpeningNew ==
    ASSUME FatInv, NEW path \in Paths, NEW mode \in {"w", "a"}, OpenNew(path, mode)
    PROVE  FatInv'
<1>1. Sized(disk) /\ DescsGood(disk, descs)
  BY DEF FatInv
<1>2. CASE Sound(disk', {}) /\ Keeps(disk, disk') /\ descs' = descs
  <2>1. Sized(disk') /\ DescsGood(disk', descs)
    BY <1>1, <1>2, KeepsGood
  <2>. QED
    BY <1>2, <2>1 DEF FatInv
<1>3. ASSUME NEW dir, NEW name, NEW p, Makes(disk, disk', dir, name, "file", p, 0),
             Opens(mode, At(disk', p), 0, p)
      PROVE  FatInv'
  <2>. DEFINE item == At(disk', p)
  <2>1. AddsItem(disk, disk', p, item) /\ IsNew(item, "file", 0) /\ Sound(disk', {})
    BY <1>3 DEF Makes
  <2>2. Opens(mode, item, 0, p) /\ item = At(disk', p)
    BY <1>3
  <2>. HIDE DEF item
  <2>3. /\ Sized(disk') /\ DescsGood(disk', descs)
        /\ \A f \in Descs : descs[f].mode # "closed" => descs[f].at # p
    BY <1>1, <2>1, AddsGood
  <2>4. /\ p \in Cells /\ p \in AllRefs(disk')
        /\ item \in Items /\ item.kind = "file" /\ item.size = 0
    BY <2>1 DEF AddsItem, IsNew
  <2>5. 0 <= item.size /\ 0 \in Nat
    BY <2>4
  <2>6. \A f \in Descs : Writing(descs[f]) => descs[f].at # p
    BY <2>3 DEF Writing
  <2>7. mode \in {"r", "w", "a"}
    OBVIOUS
  <2>8. DescsGood(disk', descs')
    BY <2>2, <2>3, <2>4, <2>5, <2>6, <2>7, DescOpened
  <2>. QED
    BY <2>1, <2>3, <2>8 DEF FatInv
<1>. QED
  BY <1>2, <1>3, OpeningNewIs

-----------------------------------------------------------------------------
(* Reading, seeking and closing                                            *)

LEMMA DescChanged ==
    ASSUME NEW d, DescsGood(d, descs), NEW f \in Descs, NEW x \in Records,
           descs' = [descs EXCEPT ![f] = x], Holds(d, x),
           Writing(x) => Writing(descs[f]) /\ x.at = descs[f].at
    PROVE  DescsGood(d, descs')
<1>1. descs \in [Descs -> Records]
  BY DEF DescsGood
<1>2. descs' \in [Descs -> Records] /\ \A g \in Descs : descs'[g] = IF g = f THEN x ELSE descs[g]
  BY <1>1
<1>3. \A g \in Descs : Holds(d, descs'[g])
  BY <1>2 DEF DescsGood
<1>4. \A g, h \in Descs : Writing(descs[g]) /\ Writing(descs[h]) /\ descs[g].at = descs[h].at => g = h
  BY DEF DescsGood
<1>5. \A g, h \in Descs : Writing(descs'[g]) /\ Writing(descs'[h]) /\ descs'[g].at = descs'[h].at => g = h
  BY <1>2, <1>4
<1>. QED
  BY <1>2, <1>3, <1>5 DEF DescsGood

LEMMA DescMoved ==
    ASSUME FatInv, NEW f \in Descs, OpenFile(f), NEW k \in 0 .. descs[f].item.size,
           descs' = [descs EXCEPT ![f].pos = k], disk' = disk
    PROVE  FatInv'
<1>1. Sound(disk, {}) /\ Sized(disk) /\ DescsGood(disk, descs)
  BY DEF FatInv
<1>. DEFINE x == [descs[f] EXCEPT !.pos = k]
<1>2. descs' = [descs EXCEPT ![f] = x]
  OBVIOUS
<1>3. descs[f] \in Records /\ descs[f].item.kind = "file" /\ descs[f].mode # "closed"
  BY <1>1 DEF DescsGood, OpenFile
<1>4. Holds(disk, descs[f]) /\ descs[f].item \in Items
  BY <1>1, <1>3 DEF DescsGood, Holds
<1>5. descs[f].item.size \in Nat
  BY <1>4, Kinds
<1>6. /\ x \in Records /\ x.mode = descs[f].mode /\ x.item = descs[f].item
      /\ x.at = descs[f].at /\ x.pos = k
  BY <1>3, <1>5 DEF Records
<1>. HIDE DEF x
<1>7. Holds(disk, x)
  BY <1>4, <1>6 DEF Holds, Knows
<1>8. DescsGood(disk, descs')
  BY <1>1, <1>2, <1>6, <1>7, DescChanged DEF Writing
<1>. QED
  BY <1>1, <1>8 DEF FatInv

LEMMA OpenPos ==
    ASSUME FatInv, NEW f \in Descs, OpenFile(f)
    PROVE  /\ descs[f].item \in Items /\ descs[f].item.size \in Nat
           /\ descs[f].pos \in 0 .. descs[f].item.size
<1>1. Holds(disk, descs[f]) /\ descs[f].item.kind = "file" /\ descs[f].mode # "closed"
  BY DEF FatInv, DescsGood, OpenFile
<1>. QED
  BY <1>1, Kinds DEF Holds, Knows

LEMMA Moving ==
    ASSUME FatInv, NEW f \in Descs, fat16_read(f) \/ fat16_seek(f)
    PROVE  FatInv'
<1>1. OpenFile(f) /\ disk' = disk
  BY DEF fat16_read, fat16_seek
<1>2. descs[f].item.size \in Nat /\ descs[f].pos \in 0 .. descs[f].item.size
  BY <1>1, OpenPos
<1>3. \E k \in 0 .. descs[f].item.size : descs' = [descs EXCEPT ![f].pos = k]
  <2>1. CASE fat16_seek(f)
    BY <2>1 DEF fat16_seek
  <2>2. CASE fat16_read(f)
    <3>1. PICK n \in ReadLens :
            descs' = [descs EXCEPT ![f].pos = @ + Min({n, descs[f].item.size - descs[f].pos})]
      BY <2>2 DEF fat16_read
    <3>. DEFINE rest == descs[f].item.size - descs[f].pos
    <3>2. n \in Nat /\ rest \in Nat
      BY <1>2, FatAssumption
    <3>3. {n, rest} \in SUBSET Nat /\ {n, rest} # {} /\ rest \in {n, rest}
      BY <3>2
    <3>. HIDE DEF rest
    <3>4. Min({n, rest}) \in {n, rest} /\ Min({n, rest}) <= rest
      BY <3>3, MinIn
    <3>5. Min({n, rest}) \in Nat
      BY <3>2, <3>4
    <3>. DEFINE m == Min({n, rest})
    <3>6. descs' = [descs EXCEPT ![f].pos = @ + m]
      BY <3>1 DEF rest
    <3>. HIDE DEF m
    <3>7. m \in Nat /\ m <= rest
      BY <3>4, <3>5 DEF m
    <3>8. descs[f].pos + m \in 0 .. descs[f].item.size
      BY <1>2, <3>7 DEF rest
    <3>9. descs' = [descs EXCEPT ![f].pos = descs[f].pos + m]
      <4>1. descs \in [Descs -> Records]
        BY DEF FatInv, DescsGood
      <4>. QED
        BY <3>6, <4>1
    <3>. QED
      BY <3>8, <3>9
  <2>. QED
    BY <2>1, <2>2
<1>. QED
  BY <1>1, <1>3, DescMoved

LEMMA Closing ==
    ASSUME FatInv, NEW f \in Descs, fat16_close(f)
    PROVE  FatInv'
<1>1. descs' = [descs EXCEPT ![f] = Closed] /\ disk' = disk
  BY DEF fat16_close
<1>2. Closed \in Records /\ Closed.mode = "closed"
  BY FirstCell DEF Closed, Records
<1>3. Holds(disk, Closed) /\ ~ Writing(Closed)
  BY <1>2 DEF Holds, Writing
<1>4. DescsGood(disk, descs')
  BY <1>1, <1>2, <1>3, DescChanged DEF FatInv
<1>. QED
  BY <1>1, <1>4 DEF FatInv

-----------------------------------------------------------------------------
(* Removing                                                                *)

Drops(d, e, p) ==
    /\ p \in AllRefs(d) /\ AllRefs(e) = AllRefs(d) \ {p}
    /\ \A q \in AllRefs(e) : At(e, q) = At(d, q) /\ Chain(e, At(d, q).first) = Chain(d, At(d, q).first)
    /\ Follows(d, e) /\ e.bytes = d.bytes

LEMMA ItemRemoved ==
    ASSUME NEW d, Sound(d, {}), NEW dir \in Tops(d),
           NEW k \in 1 .. Len(Stored(d, dir)), IsItem(Stored(d, dir)[k]),
           dir = ROOT /\ Stored(d, dir)[k].kind = "dir" => Refs(d, Stored(d, dir)[k].first) = {},
           NEW n, n = fat16_lfn_count(Stored(d, dir), k),
           NEW e, e = fat16_write_dir_entry(fat16_free_chain(d, Stored(d, dir)[k].first),
                                            SubSeq(Positions(d, dir), k - n, k),
                                            [i \in 1 .. n + 1 |-> Deleted])
    PROVE  Sound(e, {}) /\ Drops(d, e, Positions(d, dir)[k])
<1>. DEFINE s == Stored(d, dir)
            p == Positions(d, dir)[k]
            pos == SubSeq(Positions(d, dir), k - n, k)
            es == [i \in 1 .. n + 1 |-> Deleted]
            g == fat16_free_chain(d, s[k].first)
            a == fat16_write_dir_entry(d, pos, es)
            Y == Own(d, p)
<1>1. DiskShape(d) /\ IsDir(d, dir)
  BY TopIs DEF Sound
<1>2. Len(s) \in Nat
  BY <1>1, StoredIs, Zenon
<1>3. n \in 0 .. k - 1
  <2>1. k \in Nat \ {0}
    BY <1>2
  <2>. QED
    BY <2>1, CountIs, Zenon
<1>4. k - n \in 1 .. Len(s) /\ k \in k - n .. Len(s) /\ k - (k - n) + 1 = n + 1
  BY <1>2, <1>3
<1>5. Sliced(d, dir, k - n, k, pos)
  BY <1>1, <1>4, Slice
<1>6. /\ a.fat = d.fat /\ p \in AllRefs(d) /\ AllRefs(a) = AllRefs(d) \ {p}
      /\ \A q \in AllRefs(a) : At(a, q) = At(d, q)
      /\ At(d, p) = s[k] /\ Sound(a, {} \cup Y) /\ Follows(d, a) /\ a.bytes = d.bytes
  <2>1. a = fat16_write_dir_entry(d, SubSeq(Positions(d, dir), k - n, k), [i \in 1 .. n + 1 |-> Deleted])
    OBVIOUS
  <2>. HIDE DEF a
  <2>2. Erases(d, a, {}, p, s[k])
    BY <2>1, Erased
  <2>. QED
    BY <2>2 DEF Erases
<1>7. Frees(d, g, Y)
  BY <1>1, <1>6, FreeChainIs DEF Own
<1>. HIDE DEF s, Y, g, p
<1>8. Frees(a, e, Y)
  <2>1. pos \in Seq(Cells) /\ \A i, j \in 1 .. Len(pos) : pos[i] = pos[j] => i = j
    BY <1>5 DEF Sliced
  <2>2. \A i \in 1 .. Len(pos) : es[i] \in Entry
    <3>1. Len(pos) = n + 1
      BY <1>4, <1>5, Zenon DEF Sliced
    <3>2. \A i \in 1 .. n + 1 : es[i] = Deleted
      OBVIOUS
    <3>. HIDE DEF es, pos
    <3>. QED
      BY <3>1, <3>2, Zenon DEF Entry
  <2>3. e = fat16_write_dir_entry(g, pos, es)
    BY DEF g, s
  <2>. HIDE DEF es, pos, a
  <2>4. Frees(fat16_write_dir_entry(d, pos, es), fat16_write_dir_entry(g, pos, es), Y)
    BY <1>1, <1>7, <2>1, <2>2, WriteFreed, Zenon
  <2>. QED
    BY <2>3, <2>4 DEF a
<1>. HIDE DEF a, es, pos
<1>9. Sound(e, {}) /\ SameItems(a, e)
  <2>1. {} \cap Y = {} /\ Sound(a, {} \cup Y)
    BY <1>6
  <2>. QED
    BY <1>8, <2>1, Freed, Zenon
<1>10. \A f : Chain(a, f) = Chain(d, f)
  BY <1>6, SameFat
<1>11. Drops(d, e, p)
  <2>1. Follows(d, e)
    BY <1>6, <1>9, FollowsThen DEF SameItems
  <2>. QED
    BY <1>6, <1>9, <1>10, <2>1 DEF Drops, SameItems
<1>. QED
  BY <1>9, <1>11 DEF p

LEMMA NoneListed ==
    ASSUME NEW d, Sound(d, {}), NEW dir \in Tops(d),
           fat16_directory_is_empty(Entries(d, dir))
    PROVE  Refs(d, dir) = {}
<1>. DEFINE s == Stored(d, dir)
            es == Entries(d, dir)
<1>1. DiskShape(d) /\ IsDir(d, dir)
  BY TopIs DEF Sound
<1>2. Numbered(d, dir, s, Positions(d, dir))
  BY <1>1, RefIndex
<1>3. /\ Len(s) \in Nat /\ Len(es) \in 0 .. Len(s)
      /\ \A k \in 1 .. Len(es) : es[k] = s[k]
      /\ \A k \in Len(es) + 1 .. Len(s) : s[k] = End
  BY EntriesEnd, Zenon
<1>4. DOMAIN es = 1 .. Len(es)
  BY <1>1, EntriesAre, Zenon
<1>5. \A k \in 1 .. Len(es) : ~ IsItem(es[k])
  BY <1>4 DEF fat16_directory_is_empty
<1>. HIDE DEF s, es
<1>6. \A k \in 1 .. Len(s) : k \in 1 .. Len(es) \/ k \in Len(es) + 1 .. Len(s)
  BY <1>3
<1>7. \A k \in 1 .. Len(s) : ~ IsItem(s[k])
  BY <1>3, <1>5, <1>6, Kinds
<1>8. \A p \in Refs(d, dir) : \E k \in 1 .. Len(s) : IsItem(s[k])
  BY <1>2 DEF Numbered
<1>. QED
  BY <1>7, <1>8

LEMMA RemovingIs ==
    ASSUME Careful, FatInv, NEW path \in Paths, fat16_remove(path)
    PROVE  \E x \in Found(path) :
            /\ Users(FoundAt(x)) = {} /\ Sound(disk', {}) /\ Drops(disk, disk', FoundAt(x))
            /\ x.dir = ROOT /\ FoundItem(x).kind = "dir" => Refs(disk, FoundItem(x).first) = {}
<1>1. Sound(disk, {})
  BY DEF FatInv
<1>2. PICK x \in Found(path) :
        LET item == FoundItem(x)
            parts == fat16_lfn_count(x.entries, x.index)
            gone == SubSeq(Positions(disk, x.dir), x.index - parts, x.index)
        IN  /\ item.kind = "dir" => fat16_directory_is_empty(Entries(disk, item.first))
            /\ Careful => Users(FoundAt(x)) = {}
            /\ disk' = fat16_write_dir_entry(fat16_free_chain(disk, item.first),
                                             gone, [k \in 1 .. parts + 1 |-> Deleted])
  BY DEF fat16_remove
<1>. DEFINE item == FoundItem(x)
            dir == x.dir
            k == x.index
            n == fat16_lfn_count(x.entries, k)
            p == FoundAt(x)
<1>3. IsFound(disk, x)
  BY <1>1, FoundFile
<1>4. /\ dir \in Tops(disk) /\ x.entries = Entries(disk, dir) /\ k \in 1 .. Len(Stored(disk, dir))
      /\ k \in 1 .. Len(Entries(disk, dir)) /\ item = Stored(disk, dir)[k] /\ IsItem(item)
      /\ p = Positions(disk, dir)[k] /\ p \in Refs(disk, dir) /\ At(disk, p) = item
  BY <1>3 DEF IsFound
<1>5. /\ item.kind = "dir" => fat16_directory_is_empty(Entries(disk, item.first))
      /\ Users(p) = {}
      /\ disk' = fat16_write_dir_entry(fat16_free_chain(disk, item.first),
                                       SubSeq(Positions(disk, dir), k - n, k),
                                       [i \in 1 .. n + 1 |-> Deleted])
  BY <1>2
<1>. HIDE DEF item, dir, p, k
<1>7. n = fat16_lfn_count(Stored(disk, dir), k)
  <2>1. DiskShape(disk) /\ IsDir(disk, dir) /\ EndsOnce(Stored(disk, dir))
    BY <1>1, <1>4, TopIs DEF Sound, DirsGood, GoodDir
  <2>2. fat16_lfn_count(Entries(disk, dir), k) = fat16_lfn_count(Stored(disk, dir), k)
    BY <1>4, <2>1, EntriesAll, Zenon
  <2>. QED
    BY <1>4, <2>2
<1>8. dir = ROOT /\ item.kind = "dir" => Refs(disk, item.first) = {}
  <2>1. SUFFICES ASSUME dir = ROOT, item.kind = "dir" PROVE Refs(disk, item.first) = {}
    OBVIOUS
  <2>2. item.first \in Tops(disk)
    BY <1>4, <2>1 DEF Tops
  <2>. QED
    BY <1>1, <1>5, <2>1, <2>2, NoneListed
<1>. HIDE DEF n
<1>9. Sound(disk', {}) /\ Drops(disk, disk', p)
  <2>1. Sound(disk', {}) /\ Drops(disk, disk', Positions(disk, dir)[k])
    BY <1>1, <1>4, <1>5, <1>7, <1>8, ItemRemoved
  <2>. QED
    BY <1>4, <2>1
<1>. QED
  BY <1>5, <1>8, <1>9 DEF item, dir, p

LEMMA Removing ==
    ASSUME Careful, FatInv, NEW path \in Paths, fat16_remove(path)
    PROVE  FatInv'
<1>1. Sized(disk) /\ DescsGood(disk, descs) /\ descs' = descs
  BY DEF FatInv, fat16_remove
<1>2. PICK p : Users(p) = {} /\ Sound(disk', {}) /\ Drops(disk, disk', p)
  BY RemovingIs
<1>3. Sized(disk')
  BY <1>1, <1>2, SizedKept DEF Drops
<1>4. DescsGood(disk', descs)
  <2>1. \A f \in Descs : descs[f].mode # "closed" => descs[f].at \in AllRefs(disk) /\ descs[f].at # p
    BY <1>1, <1>2 DEF DescsGood, Holds, Users
  <2>2. \A f \in Descs : descs[f].mode # "closed" =>
            descs[f].at \in AllRefs(disk') /\ At(disk', descs[f].at) = At(disk, descs[f].at)
    BY <1>2, <2>1 DEF Drops
  <2>. QED
    BY <1>1, <2>2, DescsKept
<1>. QED
  BY <1>1, <1>2, <1>3, <1>4 DEF FatInv

-----------------------------------------------------------------------------
(* New directories                                                         *)

(* One cluster is taken from the disk. *)
LEMMA OneCluster ==
    ASSUME NEW d, Sound(d, {}), NEW r, r = fat16_cluster_at(d, 0, 1), r.chain # <<>>,
           NEW c, c = Head(r.chain)
    PROVE  /\ c \in Clusters /\ Sound(r.disk, {c}) /\ Keeps(d, r.disk)
           /\ Chain(r.disk, c) = <<c>> /\ HasChain(r.disk, c)
           /\ r.disk.items[c] = NoItems(c)
           /\ \A dir \in Tops(d) : Extends(d, r.disk, dir)
<1>. DEFINE e == r.disk
            t == r.chain
<1>1. DiskShape(d) /\ IsChain(d, 0, <<>>)
  BY NoChain DEF Sound, HasChain
<1>2. Grows(d, e, <<>>, t) /\ Len(t) <= 1
  <2>1. 1 \in Int
    OBVIOUS
  <2>2. Grows(d, e, <<>>, t) /\ (t = <<>> \/ Len(t) <= 1)
    BY <1>1, <2>1, ClusterAt
  <2>. QED
    BY <2>2
<1>. HIDE DEF e, t
<1>3. t \in Seq(Clusters) /\ t # <<>>
  BY <1>2 DEF Grows, t
<1>4. t = <<c>> /\ c \in Clusters /\ t[1] = c /\ Range(t) = {c}
  <2>3. Len(t) = 1
    <3>1. Len(t) \in Nat /\ Len(t) # 0
      BY <1>3, EmptySeq
    <3>2. Len(t) <= 1
      BY <1>2
    <3>. DEFINE n == Len(t)
    <3>3. n \in Nat /\ n # 0 /\ n <= 1
      BY <3>1, <3>2
    <3>. HIDE DEF n
    <3>4. n = 1
      BY <3>3
    <3>. QED
      BY <3>4 DEF n
  <2>4. t[1] = c
    <3>1. c = Head(t)
      BY DEF t
    <3>. QED
      BY <1>3, <3>1
  <2>1. Len(t) = 1 /\ t[1] = c
    BY <2>3, <2>4
  <2>2. t = <<c>>
    BY <1>3, <2>1
  <2>. QED
    BY <1>3, <2>1, <2>2 DEF Range
<1>5. Base(d, <<>>) /\ <<>> \in Seq(Clusters) /\ Range(<<>>) = {}
  BY DEF Base, Range
<1>6. /\ Tops(e) = Tops(d) /\ AllRefs(e) = AllRefs(d)
      /\ \A p \in AllRefs(d) : At(e, p) = At(d, p)
      /\ Sound(e, {c})
  <2>1. /\ Tops(e) = Tops(d) /\ AllRefs(e) = AllRefs(d)
        /\ \A p \in AllRefs(d) : At(e, p) = At(d, p)
        /\ Sound(e, IF <<>> = <<>> THEN {} \cup Range(t) ELSE {})
    BY <1>2, <1>5, Growing
  <2>2. (IF <<>> = <<>> THEN {} \cup Range(t) ELSE {}) = {c}
    BY <1>4
  <2>. QED
    BY <2>1, <2>2, Zenon
<1>7. IsChain(e, c, t) /\ Chain(e, c) = t
  <2>1. IsChain(e, c, t)
    BY <1>2, <1>3, <1>4 DEF Grows
  <2>. QED
    BY <2>1, ChainIs
<1>8. Keeps(d, e)
  <2>1. ASSUME NEW p \in AllRefs(d) PROVE Chain(e, At(d, p).first) = Chain(d, At(d, p).first)
    <3>1. Chain(e, At(d, p).first) = GrownChain(d, At(d, p).first, <<>>, t)
      BY <1>2, <1>5, GrowingChain, ZenonT(30)
    <3>. QED
      BY <3>1 DEF GrownChain
  <2>2. Intact(d, e)
    BY <1>2, <1>5, GrowingIntact
  <2>. QED
    BY <1>6, <2>1, <2>2 DEF Keeps
<1>9. \A dir \in Tops(d) : Extends(d, e, dir)
  BY <1>2, <1>5, GrowingStored
<1>10. e.items[c] = NoItems(c)
  <2>1. c \in Range(t) \ Range(<<>>)
    BY <1>4, <1>5
  <2>. QED
    BY <1>2, <2>1 DEF Grows
<1>. QED
  BY <1>4, <1>6, <1>7, <1>8, <1>9, <1>10 DEF e, HasChain

(* The entries of a directory of one cluster *)
LEMMA OneClusterPositions ==
    ASSUME NEW d, NEW c \in Clusters, Chain(d, c) = <<c>>
    PROVE  /\ Len(Positions(d, c)) = PER_CLUSTER
           /\ \A i \in 1 .. PER_CLUSTER : Positions(d, c)[i] = <<c, i - 1>>
<1>. DEFINE n == PER_CLUSTER
<1>1. n \in Nat \ {0} /\ c # ROOT
  BY FatAssumption, Limits
<1>2. Positions(d, c) = [i \in 1 .. n * Len(<<c>>) |-> <<<<c>>[(i - 1) \div n + 1], (i - 1) % n>>]
  BY <1>1 DEF Positions
<1>. HIDE DEF n
<1>3. Len(<<c>>) = 1 /\ <<c>>[1] = c /\ n * 1 = n
  BY <1>1
<1>4. Positions(d, c) = [i \in 1 .. n |-> <<<<c>>[(i - 1) \div n + 1], (i - 1) % n>>]
  BY <1>2, <1>3
<1>5. \A i \in 1 .. n : (i - 1) \div n = 0 /\ (i - 1) % n = i - 1
  <2>1. SUFFICES ASSUME NEW i \in 1 .. n PROVE (i - 1) \div n = 0 /\ (i - 1) % n = i - 1
    OBVIOUS
  <2>2. i - 1 \in 0 .. n - 1 /\ n * 0 + (i - 1) = i - 1 /\ 0 \in Nat
    BY <1>1
  <2>3. (n * 0 + (i - 1)) \div n = 0 /\ (n * 0 + (i - 1)) % n = i - 1
    BY <1>1, <2>2, DivMod
  <2>. QED
    BY <2>2, <2>3
<1>6. \A i \in 1 .. n : Positions(d, c)[i] = <<c, i - 1>>
  <2>1. SUFFICES ASSUME NEW i \in 1 .. n PROVE Positions(d, c)[i] = <<c, i - 1>>
    OBVIOUS
  <2>2. Positions(d, c)[i] = <<<<c>>[(i - 1) \div n + 1], (i - 1) % n>>
    BY <1>4
  <2>3. (i - 1) \div n = 0 /\ (i - 1) % n = i - 1
    BY <1>5
  <2>4. (i - 1) \div n + 1 = 1
    BY <2>3
  <2>. QED
    BY <1>3, <2>2, <2>3, <2>4, Zenon
<1>7. Len(Positions(d, c)) = n
  BY <1>1, <1>4
<1>. QED
  BY <1>6, <1>7 DEF n

(* Its cluster gets the entries . and .. before it is listed. *)
LEMMA Dotted ==
    ASSUME NEW e, NEW c \in Clusters, Sound(e, {c}), Chain(e, c) = <<c>>, HasChain(e, c),
           e.items[c] = NoItems(c), NEW w, w = WithDots(e, c)
    PROVE  /\ Sound(w, {c}) /\ Keeps(e, w)
           /\ HasChain(w, c) /\ Chain(w, c) = <<c>> /\ Refs(w, c) = {} /\ GoodDir(Stored(w, c))
           /\ \A dir \in Tops(e) : /\ Stored(w, dir) = Stored(e, dir)
                                   /\ Positions(w, dir) = Positions(e, dir)
<1>. DEFINE pos == <<<<c, 0>>, <<c, 1>>>>
            es == <<Dot, Dot>>
<1>1. DiskShape(e) /\ Chained(e) /\ Apart(e) /\ DirsGood(e) /\ Spare(e, {c})
  BY DEF Sound
<1>2. PER_CLUSTER \in Nat /\ 2 <= PER_CLUSTER /\ c # ROOT
  BY FatAssumption, Limits
<1>3. pos[1] = <<c, 0>> /\ pos[2] = <<c, 1>> /\ Len(pos) = 2 /\ Range(pos) = {<<c, 0>>, <<c, 1>>}
  <2>1. Range(pos) = {pos[1], pos[2]}
    BY DEF Range
  <2>. QED
    BY <2>1
<1>4. <<c, 0>> \in Cells /\ <<c, 1>> \in Cells
  <2>1. 0 \in Slots(c) /\ 1 \in Slots(c)
    BY <1>2 DEF Slots
  <2>. QED
    BY <2>1 DEF Cells
<1>5. Wrote(e, w, pos, es)
  <2>1. pos \in Seq(Cells)
    BY <1>4
  <2>2. \A i, j \in 1 .. Len(pos) : pos[i] = pos[j] => i = j
    <3>1. <<c, 0>> # <<c, 1>>
      OBVIOUS
    <3>. HIDE DEF pos
    <3>. QED
      BY <1>3, <3>1
  <2>3. \A i \in 1 .. Len(pos) : es[i] \in Entry
    <3>1. es[1] = Dot /\ es[2] = Dot /\ Dot \in Entry
      BY DEF Entry
    <3>. HIDE DEF pos, es
    <3>. QED
      BY <1>3, <3>1
  <2>4. w = fat16_write_dir_entry(e, pos, es)
    BY DEF WithDots
  <2>. HIDE DEF pos, es
  <2>. QED
    BY <1>1, <2>1, <2>2, <2>3, <2>4, WriteIs
<1>. HIDE DEF pos
<1>6. DiskShape(w) /\ w.fat = e.fat
  BY <1>5 DEF Wrote
<1>7. /\ At(w, <<c, 0>>) = Dot /\ At(w, <<c, 1>>) = Dot
      /\ \A p \in Cells : p # <<c, 0>> /\ p # <<c, 1>> => At(w, p) = At(e, p)
  BY <1>3, <1>5 DEF Wrote
<1>8. ASSUME NEW dir \in Tops(e)
      PROVE  /\ IsDir(e, dir) /\ c \notin Area(e, dir)
             /\ Stored(w, dir) = Stored(e, dir) /\ Refs(w, dir) = Refs(e, dir)
             /\ \A p \in Places(e, dir) : At(w, p) = At(e, p)
  <2>1. IsDir(e, dir)
    BY <1>1, TopIs
  <2>2. c \notin Area(e, dir)
    <3>1. CASE dir = ROOT
      BY <1>2, <3>1, RootIsDir
    <3>2. CASE dir # ROOT
      BY <1>1, <3>2, TopIs DEF Spare
    <3>. QED
      BY <3>1, <3>2
  <2>3. \A p \in Range(pos) : p \notin Places(e, dir)
    BY <1>3, <2>2 DEF Places
  <2>. QED
    BY <1>1, <1>5, <2>1, <2>2, <2>3, WroteElsewhere
<1>9. /\ \A f : Chain(w, f) = Chain(e, f)
      /\ \A x : Positions(w, x) = Positions(e, x)
      /\ HasChain(w, c) /\ IsDir(w, c)
  <2>1. IsDir(e, c)
    BY DEF IsDir, HasChain
  <2>. QED
    BY <1>6, <2>1, SameFat
<1>10. \A dir \in Tops(e) : \A p \in Refs(e, dir) : At(w, p) = At(e, p)
  BY <1>8 DEF Refs
<1>11. Tops(w) = Tops(e)
  <2>1. ROOT \in Tops(e)
    BY RootIsDir
  <2>2. Refs(w, ROOT) = Refs(e, ROOT) /\ \A p \in Refs(e, ROOT) : At(w, p) = At(e, p)
    BY <1>8, <1>10, <2>1
  <2>. QED
    BY <2>2 DEF Tops
<1>12. AllRefs(w) = AllRefs(e)
  BY <1>8, <1>11 DEF AllRefs
<1>13. \A p \in AllRefs(e) : At(w, p) = At(e, p)
  BY <1>10 DEF AllRefs
<1>15. DirsGood(w)
  BY <1>1, <1>8, <1>11 DEF DirsGood
<1>16. Sound(w, {c})
  <2>1. Exchanges(e, w, {}, {})
    BY <1>12, <1>13 DEF Exchanges
  <2>2. \A q \in {} : Own(w, q) \subseteq {c} \cup OwnOf(e, {})
    OBVIOUS
  <2>3. Sound(w, ({c} \cup OwnOf(e, {})) \ OwnOf(w, {}))
    BY <1>6, <1>15, <2>1, <2>2, Exchange
  <2>4. ({c} \cup OwnOf(e, {})) \ OwnOf(w, {}) = {c}
    BY OwnOfOne
  <2>. QED
    BY <2>3, <2>4
<1>14. Keeps(e, w)
  <2>1. Chained(w)
    BY <1>16 DEF Sound
  <2>2. Follows(e, w)
    BY <1>1, <1>6, <1>8, <1>9, <1>11, <2>1, FollowsSame
  <2>3. Intact(e, w)
    BY <1>5, <2>2, SameBytes DEF Wrote
  <2>. QED
    BY <1>9, <1>11, <1>12, <1>13, <2>3 DEF Keeps
<1>. DEFINE s == Stored(w, c)
<1>17. /\ s \in Seq(Entry) /\ Len(s) = PER_CLUSTER
       /\ \A i \in 1 .. PER_CLUSTER : s[i] = At(w, <<c, i - 1>>) /\ <<c, i - 1>> \in Cells
  <2>1. Len(Positions(w, c)) = PER_CLUSTER /\ \A i \in 1 .. PER_CLUSTER : Positions(w, c)[i] = <<c, i - 1>>
    BY <1>9, OneClusterPositions
  <2>2. s \in Seq(Entry) /\ Len(s) = Len(Positions(w, c))
    BY <1>6, <1>9, StoredIs, Zenon
  <2>3. \A i \in 1 .. Len(s) : s[i] = At(w, Positions(w, c)[i]) /\ Positions(w, c)[i] \in Cells
    BY <1>6, <1>9, StoredIs, Zenon
  <2>. HIDE DEF s
  <2>. QED
    BY <2>1, <2>2, <2>3
<1>18. \A i \in 1 .. PER_CLUSTER : s[i] = IF i \in 1 .. 2 THEN Dot ELSE End
  <2>1. SUFFICES ASSUME NEW i \in 1 .. PER_CLUSTER PROVE s[i] = IF i \in 1 .. 2 THEN Dot ELSE End
    OBVIOUS
  <2>2. s[i] = At(w, <<c, i - 1>>) /\ <<c, i - 1>> \in Cells
    BY <1>17
  <2>3. CASE i = 1
    BY <1>7, <2>2, <2>3
  <2>4. CASE i = 2
    BY <1>7, <2>2, <2>4
  <2>5. CASE i # 1 /\ i # 2
    <3>1. i - 1 # 0 /\ i - 1 # 1 /\ i \notin 1 .. 2
      BY <2>5
    <3>2. At(w, <<c, i - 1>>) = At(e, <<c, i - 1>>)
      BY <1>7, <2>2, <3>1
    <3>3. i - 1 \in Slots(c)
      BY <1>2 DEF Slots
    <3>4. e.items[c][i - 1] = End
      BY <3>3 DEF NoItems
    <3>. QED
      BY <2>2, <3>1, <3>2, <3>4 DEF At
  <2>. QED
    BY <2>3, <2>4, <2>5
<1>. HIDE DEF s
<1>19. EndsOnce(s)
  <2>1. \A i \in 1 .. PER_CLUSTER : s[i] = End => i \notin 1 .. 2
    BY <1>18, Kinds
  <2>2. \A i, j \in 1 .. PER_CLUSTER : s[i] = End /\ i < j => j \notin 1 .. 2
    BY <1>2, <2>1
  <2>. QED
    BY <1>17, <1>18, <2>2 DEF EndsOnce
<1>20. GoodDir(s)
  <2>1. \A i \in 1 .. Len(s) : s[i] \in {End, Deleted, Dot}
    BY <1>17, <1>18
  <2>. QED
    BY <1>17, <1>19, <2>1, NoItemsGood
<1>21. Refs(w, c) = {}
  <2>1. \A i \in 1 .. Len(s) : ~ IsItem(s[i])
    BY <1>17, <1>18, Kinds
  <2>2. Numbered(w, c, s, Positions(w, c))
    BY <1>6, <1>9, RefIndex DEF s
  <2>. QED
    BY <2>1, <2>2 DEF Numbered
<1>. QED
  BY <1>8, <1>9, <1>14, <1>16, <1>20, <1>21 DEF s

(* A directory that could not be listed gives its cluster back. *)
LEMMA GivenBack ==
    ASSUME NEW d, NEW c \in Clusters, Sound(d, {c}), Chain(d, c) = <<c>>,
           NEW e, e = fat16_free_chain(d, c)
    PROVE  Sound(e, {}) /\ Keeps(d, e)
<1>1. Range(<<c>>) = {c}
  BY DEF Range
<1>2. Frees(d, e, {c})
  <2>1. DiskShape(d)
    BY DEF Sound
  <2>2. Frees(d, e, Range(Chain(d, c)))
    BY <2>1, FreeChainIs
  <2>. QED
    BY <1>1, <2>2
<1>3. Sound(d, {} \cup {c}) /\ {} \cap {c} = {}
  <2>1. {} \cup {c} = {c}
    OBVIOUS
  <2>. QED
    BY <2>1, Zenon
<1>4. Sound(e, {}) /\ SameItems(d, e)
  BY <1>2, <1>3, Freed, Zenon
<1>5. Intact(d, e)
  BY <1>4, SameBytes DEF SameItems
<1>. QED
  BY <1>4, <1>5 DEF SameItems, Keeps

LEMMA MakingDirIs ==
    ASSUME FatInv, NEW path \in Paths, fat16_mkdir(path)
    PROVE  \E x \in Missing(path) :
            \/ Sound(disk', {}) /\ Keeps(disk, disk')
            \/ \E p, c : Makes(disk, disk', x.dir, Last(path), "dir", p, c)
<1>1. Sound(disk, {})
  BY DEF FatInv
<1>. DEFINE new == fat16_cluster_at(disk, 0, 1)
<1>2. PICK x \in Missing(path) :
        /\ new.chain # <<>>
        /\ \E c \in {Head(new.chain)} :
           \E r \in {fat16_create_item(WithDots(new.disk, c), x.dir, x.entries,
                                       Last(path), "dir", c)} :
            disk' = IF r.pos = NoPos THEN fat16_free_chain(r.disk, c) ELSE r.disk
  BY DEF fat16_mkdir
<1>. DEFINE dir == x.dir
            name == Last(path)
            e == new.disk
            c == Head(new.chain)
            w == WithDots(e, c)
            es == Entries(disk, dir)
            r == fat16_create_item(w, dir, Entries(w, dir), name, "dir", c)
<1>3. dir \in Tops(disk) /\ name \in Names /\ x.entries = es /\ fat16_find_index(es, name) = 0
  BY <1>1, MissingName
<1>4. /\ c \in Clusters /\ Sound(e, {c}) /\ Keeps(disk, e)
      /\ Chain(e, c) = <<c>> /\ HasChain(e, c) /\ e.items[c] = NoItems(c)
      /\ Extends(disk, e, dir)
  <2>1. new = fat16_cluster_at(disk, 0, 1) /\ new.chain # <<>> /\ c = Head(new.chain)
    BY <1>2
  <2>. HIDE DEF new, c, dir
  <2>. QED
    BY <1>1, <1>3, <2>1, OneCluster
<1>5. w = WithDots(e, c) /\ disk' = (LET q == fat16_create_item(w, dir, es, name, "dir", c) IN
                IF q.pos = NoPos THEN fat16_free_chain(q.disk, c) ELSE q.disk)
  BY <1>2, <1>3
<1>. HIDE DEF c, e, w, dir, name, new
<1>6. /\ Sound(w, {c}) /\ Keeps(e, w)
      /\ HasChain(w, c) /\ Chain(w, c) = <<c>> /\ Refs(w, c) = {} /\ GoodDir(Stored(w, c))
      /\ \A y \in Tops(e) : Stored(w, y) = Stored(e, y) /\ Positions(w, y) = Positions(e, y)
  BY <1>4, <1>5, Dotted
<1>7. dir \in Tops(e) /\ dir \in Tops(w)
  BY <1>3, <1>4, <1>6 DEF Keeps
<1>8. Entries(w, dir) = es
  <2>1. Extends(disk, w, dir)
    BY <1>4, <1>6, <1>7 DEF Extends
  <2>. QED
    BY <1>1, <1>3, <1>6, <1>7, <2>1, SameEntries
<1>9. disk' = IF r.pos = NoPos THEN fat16_free_chain(r.disk, c) ELSE r.disk
  BY <1>5, <1>8
<1>10. Keeps(disk, w)
  BY <1>4, <1>6, KeepsKeeps
<1>11. \/ r.pos = NoPos /\ Sound(r.disk, {c}) /\ Keeps(w, r.disk) /\ Chain(r.disk, c) = <<c>>
       \/ /\ r.pos # NoPos /\ Sound(r.disk, {c} \ Range(<<c>>))
          /\ AddsItem(w, r.disk, r.pos, At(r.disk, r.pos))
          /\ IsNew(At(r.disk, r.pos), "dir", c) /\ NewIn(r.disk, dir, r.pos, name)
  <2>1. Range(Chain(w, c)) \subseteq {c} /\ Chain(w, c) = <<c>>
    BY <1>6 DEF Range
  <2>2. "dir" \in {"file", "dir"} /\ c \in Clusters \cup {0} /\ fat16_find_index(Entries(w, dir), name) = 0
    BY <1>3, <1>4, <1>8
  <2>3. \/ r.pos = NoPos /\ Sound(r.disk, {c}) /\ Keeps(w, r.disk)
           /\ Chain(r.disk, c) = Chain(w, c)
        \/ /\ r.pos # NoPos /\ Sound(r.disk, {c} \ Range(Chain(w, c)))
           /\ AddsItem(w, r.disk, r.pos, At(r.disk, r.pos))
           /\ IsNew(At(r.disk, r.pos), "dir", c)
           /\ Chain(r.disk, c) = Chain(w, c)
           /\ NewIn(r.disk, dir, r.pos, name)
    BY <1>3, <1>4, <1>6, <1>7, <2>1, <2>2, Created
  <2>. HIDE DEF r
  <2>. QED
    BY <2>1, <2>3
<1>. HIDE DEF r
<1>12. CASE r.pos = NoPos
  <2>1. Sound(r.disk, {c}) /\ Chain(r.disk, c) = <<c>> /\ disk' = fat16_free_chain(r.disk, c)
        /\ Keeps(w, r.disk)
    BY <1>9, <1>11, <1>12
  <2>2. Sound(disk', {}) /\ Keeps(r.disk, disk')
    BY <1>4, <2>1, GivenBack
  <2>3. Keeps(disk, disk')
    BY <1>10, <2>1, <2>2, KeepsKeeps
  <2>. QED
    BY <2>2, <2>3
<1>13. CASE r.pos # NoPos
  <2>1. {c} \ Range(<<c>>) = {}
    BY DEF Range
  <2>2. AddsItem(disk, r.disk, r.pos, At(r.disk, r.pos))
    BY <1>10, <1>11, <1>13, KeepsAdds
  <2>3. Makes(disk, disk', dir, name, "dir", r.pos, c)
    BY <1>9, <1>11, <1>13, <2>1, <2>2 DEF Makes
  <2>. QED
    BY <2>3 DEF dir, name
<1>. QED
  BY <1>12, <1>13

LEMMA MakingDir ==
    ASSUME FatInv, NEW path \in Paths, fat16_mkdir(path)
    PROVE  FatInv'
<1>1. Sized(disk) /\ DescsGood(disk, descs) /\ descs' = descs
  BY DEF FatInv, fat16_mkdir
<1>2. CASE Sound(disk', {}) /\ Keeps(disk, disk')
  BY <1>1, <1>2, KeepsGood DEF FatInv
<1>3. ASSUME NEW dir, NEW name, NEW p, NEW c, Makes(disk, disk', dir, name, "dir", p, c)
      PROVE  FatInv'
  <2>. DEFINE item == At(disk', p)
  <2>1. AddsItem(disk, disk', p, item) /\ IsNew(item, "dir", c) /\ Sound(disk', {})
    BY <1>3 DEF Makes
  <2>. HIDE DEF item
  <2>2. Sized(disk') /\ DescsGood(disk', descs)
    BY <1>1, <2>1, AddsGood
  <2>. QED
    BY <1>1, <2>1, <2>2 DEF FatInv
<1>. QED
  BY <1>2, <1>3, MakingDirIs

-----------------------------------------------------------------------------
(* Writing                                                                 *)

LEMMA MaxOfTwo == ASSUME NEW a \in Nat, NEW b \in Nat PROVE Max({a, b}) = IF a <= b THEN b ELSE a
<1>. DEFINE n == a + b
            S == {a, b}
<1>1. n \in Nat /\ S \in SUBSET (0 .. n) /\ S # {} /\ a \in S /\ b \in S
  OBVIOUS
<1>2. \A x \in S : x = a \/ x = b
  OBVIOUS
<1>. HIDE DEF n, S
<1>3. Max(S) \in S /\ \A y \in S : Max(S) >= y
  BY <1>1, MaxIn, Zenon
<1>4. Max(S) >= a /\ Max(S) >= b /\ (Max(S) = a \/ Max(S) = b)
  BY <1>1, <1>2, <1>3
<1>5. Max(S) = IF a <= b THEN b ELSE a
  BY <1>4
<1>. QED
  BY <1>5 DEF S

LEMMA MinOfTwo == ASSUME NEW a \in Nat, NEW b \in Nat PROVE Min({a, b}) = IF a <= b THEN a ELSE b
<1>. DEFINE S == {a, b}
<1>1. S \in SUBSET Nat /\ S # {} /\ a \in S /\ b \in S
  OBVIOUS
<1>2. \A x \in S : x = a \/ x = b
  OBVIOUS
<1>. HIDE DEF S
<1>3. Min(S) \in S /\ \A y \in S : Min(S) <= y
  BY <1>1, MinIn, Zenon
<1>4. Min(S) <= a /\ Min(S) <= b /\ (Min(S) = a \/ Min(S) = b)
  BY <1>1, <1>2, <1>3
<1>5. Min(S) = IF a <= b THEN a ELSE b
  BY <1>4
<1>. QED
  BY <1>5 DEF S

(* The position and the size after len bytes at pos, in a file of size     *)
(* bytes and n clusters that now has m                                     *)
EndOf(pos, len, m) == Max({pos, Min({pos + len, m * CLUSTER})})
SizeAfter(pos, len, size, m) == Max({size, EndOf(pos, len, m)})
WriteFits(pos, len, size, n, m) ==
    /\ pos \in Nat /\ len \in Nat /\ size \in Nat /\ n \in Nat /\ m \in Nat /\ n <= m
    /\ n = (size + CLUSTER - 1) \div CLUSTER /\ pos <= size
    /\ m = n \/ m <= (pos + len - 1) \div CLUSTER + 1
WriteEnds(pos, len, size, m) ==
    /\ EndOf(pos, len, m) \in 0 .. SizeAfter(pos, len, size, m)
    /\ SizeAfter(pos, len, size, m) \in Nat /\ size <= SizeAfter(pos, len, size, m)
    /\ m = (SizeAfter(pos, len, size, m) + CLUSTER - 1) \div CLUSTER
LEMMA WrittenSize ==
    ASSUME NEW pos, NEW len, NEW size, NEW n, NEW m, WriteFits(pos, len, size, n, m)
    PROVE  WriteEnds(pos, len, size, m)
<1>0. /\ pos \in Nat /\ len \in Nat /\ size \in Nat /\ n \in Nat /\ m \in Nat /\ n <= m
      /\ n = (size + CLUSTER - 1) \div CLUSTER /\ pos <= size
      /\ m = n \/ m <= (pos + len - 1) \div CLUSTER + 1
  BY DEF WriteFits
<1>. USE <1>0
<1>. SUFFICES ASSUME NEW end, end = EndOf(pos, len, m), NEW new, new = Max({size, end})
              PROVE  /\ end \in 0 .. new /\ new \in Nat /\ size <= new
                     /\ m = (new + CLUSTER - 1) \div CLUSTER
  BY DEF WriteEnds, SizeAfter
<1>. DEFINE c == CLUSTER
            q == (pos + len - 1) \div c
<1>1. c \in Nat \ {0}
  BY FatAssumption
<1>. HIDE DEF c
<1>2. c * n \in Nat /\ size <= c * n /\ c * n < size + c
  BY <1>1, SizeFits DEF c
<1>3. c * m \in Nat /\ m * c = c * m /\ c * n <= c * m
  <2>1. c * n <= c * m
    BY <1>1, ProductGrows
  <2>. QED
    BY <1>1, <2>1
<1>4. CASE m = n
  <2>1. end = Max({pos, Min({pos + len, c * m})})
    BY <1>3 DEF EndOf, c
  <2>. DEFINE z == c * m
  <2>2. z \in Nat /\ size <= z /\ z < size + c
    BY <1>2, <1>3, <1>4
  <2>3. end = Max({pos, Min({pos + len, z})})
    BY <2>1
  <2>. HIDE DEF z
  <2>4. Min({pos + len, z}) = IF pos + len <= z THEN pos + len ELSE z
    BY <2>2, MinOfTwo
  <2>. DEFINE y == Min({pos + len, z})
  <2>5. y \in Nat /\ y <= z
    BY <2>2, <2>4
  <2>. HIDE DEF y
  <2>6. end = IF pos <= y THEN y ELSE pos
    BY <2>3, <2>5, MaxOfTwo DEF y
  <2>7. end \in Nat /\ end <= z
    BY <2>2, <2>5, <2>6
  <2>8. new = IF size <= end THEN end ELSE size
    BY <2>7, MaxOfTwo
  <2>9. end \in 0 .. new /\ new \in Nat /\ size <= new /\ new <= z /\ z < new + c
    BY <1>1, <2>2, <2>7, <2>8
  <2>10. m = (new + c - 1) \div c
    BY <1>1, <2>9, ClustersFor DEF z
  <2>. QED
    BY <2>9, <2>10 DEF c
<1>5. CASE m # n
  <2>1. end = Max({pos, Min({pos + len, c * m})})
    BY <1>3 DEF EndOf, c
  <2>. DEFINE x == pos + len - 1
              z == c * m
  <2>2. n <= m - 1 /\ m - 1 \in Nat /\ m <= q + 1
    BY <1>5 DEF c
  <2>3. x \in Int /\ q = x \div c
    OBVIOUS
  <2>4. z - c = c * (m - 1) /\ z \in Nat
    BY <1>1, <1>3
  <2>5. c * n <= z - c
    <3>1. c * n <= c * (m - 1)
      BY <1>1, <2>2, ProductGrows
    <3>. QED
      BY <2>4, <3>1
  <2>6. z - c <= x
    <3>1. CASE x \in Nat
      <4>. HIDE DEF x, z
      <4>1. x % c \in 0 .. c - 1 /\ x = c * (x \div c) + (x % c)
        BY <1>1, <3>1, DivModIs
      <4>2. q \in Int
        BY <1>1, <2>3
      <4>3. c * (m - 1) <= c * q
        BY <1>1, <2>2, <4>2, ProductGrows
      <4>4. c * q \in Int
        BY <1>1, <4>2
      <4>5. x = c * q + (x % c)
        BY <2>3, <4>1
      <4>. HIDE DEF q
      <4>. QED
        BY <1>1, <2>4, <4>1, <4>3, <4>4, <4>5
    <3>2. CASE x \notin Nat
      <4>1. x = -1
        BY <3>2
      <4>2. q <= -1
        <5>1. q = (-1) \div c
          BY <4>1
        <5>. HIDE DEF q
        <5>. QED
          BY <1>1, <5>1
      <4>. QED
        BY <1>1, <2>2, <2>3, <4>2
    <3>. QED
      BY <3>1, <3>2
  <2>7. size <= z - c /\ z - c < pos + len
    BY <1>2, <2>4, <2>5, <2>6, <1>1
  <2>8. end = Max({pos, Min({pos + len, z})})
    BY <2>1
  <2>. HIDE DEF z, q
  <2>9. Min({pos + len, z}) = IF pos + len <= z THEN pos + len ELSE z
    BY <2>4, MinOfTwo
  <2>. DEFINE y == Min({pos + len, z})
  <2>10. y \in Nat /\ y <= z /\ z - c < y
    BY <1>1, <2>4, <2>7, <2>9
  <2>. HIDE DEF y
  <2>11. end = IF pos <= y THEN y ELSE pos
    BY <2>8, <2>10, MaxOfTwo DEF y
  <2>12. end \in Nat /\ end <= z /\ z - c < end
    BY <1>1, <2>4, <2>7, <2>10, <2>11
  <2>13. new = IF size <= end THEN end ELSE size
    BY <2>12, MaxOfTwo
  <2>14. end \in 0 .. new /\ new \in Nat /\ size <= new /\ new <= z /\ z < new + c
    BY <1>1, <2>4, <2>7, <2>12, <2>13
  <2>15. m = (new + c - 1) \div c
    BY <1>1, <2>14, ClustersFor DEF z
  <2>. QED
    BY <2>14, <2>15 DEF c
<1>. QED
  BY <1>4, <1>5

(* A file grows by the clusters that are linked to its chain, and its item *)
(* is written back.                                                        *)
Appends(d, e, p, item, t) ==
    /\ AllRefs(e) = AllRefs(d) /\ At(e, p) = item
    /\ \A q \in AllRefs(d) : q # p =>
        At(e, q) = At(d, q) /\ Chain(e, At(d, q).first) = Chain(d, At(d, q).first)
    /\ Chain(e, item.first) = t

FirstOfChain(first, t) == IF t = <<>> THEN first ELSE Head(t)

LEMMA FileGrown ==
    ASSUME NEW d, Sound(d, {}), NEW p \in AllRefs(d), At(d, p).kind = "file",
           NEW s, s = Chain(d, At(d, p).first), NEW g, NEW t, Grows(d, g, s, t),
           NEW b, b.fat = g.fat, b.items = g.items, DiskShape(b),
           NEW item \in Items, item.kind = "file", item.short = At(d, p).short,
           item.first = FirstOfChain(At(d, p).first, t),
           NEW e, e = fat16_write_dir_entry(b, <<p>>, <<item>>)
    PROVE  Sound(e, {}) /\ Appends(d, e, p, item, t) /\ Follows(d, e) /\ e.bytes = b.bytes
<1>. DEFINE first == At(d, p).first
            Z == IF s = <<>> THEN {} \cup Range(t) ELSE {}
<1>1. DiskShape(d) /\ Chained(d) /\ Apart(d)
  BY DEF Sound
<1>2. IsChain(d, first, s) /\ s \in Seq(Clusters) /\ Base(d, s)
  <2>1. IsChain(d, first, s)
    BY <1>1 DEF Chained, HasChain
  <2>. QED
    BY <2>1 DEF IsChain, Base
<1>3. /\ Tops(g) = Tops(d) /\ AllRefs(g) = AllRefs(d)
      /\ \A q \in AllRefs(d) : At(g, q) = At(d, q)
      /\ Sound(g, Z)
  BY <1>2, Growing
<1>4. Sound(b, Z)
  BY <1>3, SameSound
<1>5. /\ \A f : Chain(b, f) = Chain(g, f)
      /\ AllRefs(b) = AllRefs(d) /\ \A q \in AllRefs(d) : At(b, q) = At(d, q)
  <2>1. /\ \A f : Chain(b, f) = Chain(g, f)
        /\ \A q : At(b, q) = At(g, q)
        /\ AllRefs(b) = AllRefs(g)
    BY SameTree
  <2>. QED
    BY <1>3, <2>1
<1>6. t \in Seq(Clusters) /\ Len(s) <= Len(t)
      /\ (\A i \in 1 .. Len(s) : t[i] = s[i]) /\ (t # <<>> => IsChain(g, t[1], t))
  BY DEF Grows
<1>7. s = <<>> => first = 0
  <2>1. At(d, p) \in Items
    BY <1>1, AllRefIs
  <2>2. first \in Clusters \cup {0}
    BY <2>1, Kinds
  <2>. QED
    BY <1>2, <2>2 DEF IsChain
<1>8. t = <<>> => s = <<>>
  <2>1. s # <<>> => Len(s) \in Nat \ {0}
    BY <1>2, EmptySeq
  <2>2. t = <<>> => Len(t) = 0
    OBVIOUS
  <2>. QED
    BY <1>6, <2>1, <2>2
<1>9. HasChain(b, item.first) /\ Chain(b, item.first) = t
  <2>1. CASE t = <<>>
    <3>1. item.first = 0
      BY <1>7, <1>8, <2>1 DEF FirstOfChain
    <3>. QED
      BY <2>1, <3>1, NoChain
  <2>2. CASE t # <<>>
    <3>1. item.first = t[1]
      BY <1>6, <2>2 DEF FirstOfChain
    <3>2. IsChain(g, item.first, t)
      BY <1>6, <2>2, <3>1
    <3>3. Chain(g, item.first) = t /\ HasChain(g, item.first)
      BY <3>2, ChainIs DEF HasChain
    <3>. QED
      BY <1>5, <3>3, SameFat
  <2>. QED
    BY <2>1, <2>2
<1>10. \A q \in AllRefs(d) : Chain(g, At(d, q).first) = GrownChain(d, At(d, q).first, s, t)
  BY <1>2, GrowingChain
<1>11. Own(b, p) = IF s = <<>> THEN {} ELSE Range(t)
  <2>1. Chain(b, first) = GrownChain(d, first, s, t)
    BY <1>5, <1>10
  <2>2. Chain(b, first) = IF s = <<>> THEN <<>> ELSE t
    BY <2>1 DEF GrownChain
  <2>3. At(b, p).first = first /\ Range(<<>>) = {}
    BY <1>5 DEF Range
  <2>. QED
    BY <2>2, <2>3 DEF Own
<1>12. Z \cup Own(b, p) = Range(t) /\ (Z \cup Own(b, p)) \ Range(Chain(b, item.first)) = {}
  <2>1. Z \cup Own(b, p) = Range(t)
    BY <1>11
  <2>. QED
    BY <1>9, <2>1
<1>13. /\ e.fat = b.fat /\ AllRefs(e) = AllRefs(b)
       /\ At(e, p) = item /\ (\A q \in AllRefs(b) : q # p => At(e, q) = At(b, q))
       /\ Sound(e, (Z \cup Own(b, p)) \ Range(Chain(b, item.first)))
       /\ Follows(b, e) /\ e.bytes = b.bytes
  <2>1. /\ p \in AllRefs(b) /\ At(b, p).kind = "file" /\ item.short = At(b, p).short
        /\ Range(Chain(b, item.first)) \subseteq Z \cup Own(b, p)
    BY <1>5, <1>9, <1>12
  <2>. HIDE DEF Z
  <2>. QED
    BY <1>4, <1>9, <2>1, Replaced
<1>14. Sound(e, {})
  BY <1>12, <1>13, Zenon
<1>15. \A f : Chain(e, f) = Chain(g, f)
  <2>1. \A f : Chain(e, f) = Chain(b, f)
    BY <1>13, SameFat
  <2>. QED
    BY <1>5, <2>1
<1>16. ASSUME NEW q \in AllRefs(d), q # p
       PROVE  Chain(e, At(d, q).first) = Chain(d, At(d, q).first)
  <2>1. Own(d, q) \cap Own(d, p) = {}
    BY <1>1, <1>16 DEF Apart
  <2>2. s # <<>> => Chain(d, At(d, q).first) # s
    <3>1. ASSUME s # <<>>, Chain(d, At(d, q).first) = s PROVE FALSE
      <4>1. Own(d, q) = Range(s) /\ Own(d, p) = Range(s)
        BY <3>1 DEF Own
      <4>2. 1 \in 1 .. Len(s)
        BY <1>2, <3>1, EmptySeq
      <4>3. s[1] \in Range(s)
        BY <1>2, <4>2, InRange
      <4>. QED
        BY <2>1, <4>1, <4>3
    <3>. QED
      BY <3>1
  <2>. QED
    BY <1>10, <1>15, <2>2 DEF GrownChain
<1>17. Chain(e, item.first) = t
  BY <1>5, <1>9, <1>15
<1>18. AllRefs(e) = AllRefs(d) /\ At(e, p) = item /\ \A q \in AllRefs(d) : q # p => At(e, q) = At(d, q)
  BY <1>5, <1>13
<1>19. Follows(d, e)
  <2>1. Follows(d, g)
    BY <1>2, GrowingNames
  <2>2. Follows(g, b)
    <3>1. /\ Tops(b) = Tops(g)
          /\ \A dir : Positions(b, dir) = Positions(g, dir) /\ Stored(b, dir) = Stored(g, dir)
      BY SameTree
    <3>2. DiskShape(g) /\ Chained(g) /\ DiskShape(b) /\ Chained(b)
      BY <1>3, <1>4 DEF Sound
    <3>. QED
      BY <3>1, <3>2, FollowsSame
  <2>3. Follows(d, b)
    BY <1>3, <2>1, <2>2, FollowsThen
  <2>. QED
    BY <1>5, <1>13, <2>3, FollowsThen
<1>. QED
  BY <1>13, <1>14, <1>16, <1>17, <1>18, <1>19 DEF Appends

(* What fat16_write does to the disk and to its descriptor *)
Offset(t, c, o) == CLUSTER * (CHOOSE i \in DOMAIN t : t[i] = c) + o - CLUSTER
Filled(g, t, pos, end, data) ==
    [c \in Clusters |-> [o \in 0 .. CLUSTER - 1 |->
        IF c \in Range(t) /\ Offset(t, c, o) \in pos .. end - 1
        THEN data[Offset(t, c, o) - pos + 1] ELSE g.bytes[c][o]]]
Writes(f, p, old, s, pos, data, g, t, item, end) ==
    /\ Writing(descs[f]) /\ descs[f].at = p /\ descs[f].item = old /\ descs[f].pos = pos
    /\ p \in AllRefs(disk) /\ p \in Cells /\ At(disk, p) = old
    /\ old \in Items /\ old.kind = "file" /\ pos \in 0 .. old.size
    /\ s = Chain(disk, old.first) /\ IsChain(disk, old.first, s) /\ Grows(disk, g, s, t)
    /\ Len(s) = (old.size + CLUSTER - 1) \div CLUSTER
    /\ data \in Seq(Bytes) /\ data \in Messages
    /\ item \in Items /\ item.kind = "file" /\ item.short = old.short
    /\ item.first = FirstOfChain(old.first, t)
    /\ end = EndOf(pos, Len(data), Len(t)) /\ item.size = Max({old.size, end})
    /\ end \in 0 .. item.size /\ old.size <= item.size
    /\ Len(t) = (item.size + CLUSTER - 1) \div CLUSTER
    /\ Sound(disk', {}) /\ Appends(disk, disk', p, item, t) /\ Follows(disk, disk')
    /\ disk'.bytes = Filled(g, t, pos, end, data)
    /\ descs' = [descs EXCEPT ![f] = [descs[f] EXCEPT !.item = item, !.pos = end]]

LEMMA WritingIs ==
    ASSUME FatInv, NEW f \in Descs, fat16_write(f)
    PROVE  \E p, old, s, pos, data, g, t, item, end :
                Writes(f, p, old, s, pos, data, g, t, item, end)
<1>1. Sound(disk, {}) /\ Sized(disk) /\ DescsGood(disk, descs)
  BY Zenon DEF FatInv
<1>. DEFINE x == descs[f]
            old == x.item
            p == x.at
            s == Chain(disk, old.first)
<1>2. x.mode \in {"w", "a"} /\ x.mode # "r" /\ x.mode # "closed" /\ Writing(x)
  BY Zenon DEF fat16_write, Writing
<1>3. x \in Records /\ Holds(disk, x)
  BY <1>1 DEF DescsGood
<1>4. /\ p \in AllRefs(disk) /\ old \in Items /\ old.kind = "file"
      /\ At(disk, p) = old /\ x.pos \in 0 .. old.size /\ p \in Cells
  BY <1>2, <1>3 DEF Holds, Knows, Records
<1>5. old.size \in Nat /\ old.first \in Clusters \cup {0}
  BY <1>4, Kinds
<1>6. PICK data \in Messages :
       \E r \in {fat16_cluster_at(disk, old.first, (x.pos + Len(data) - 1) \div CLUSTER + 1)} :
        LET end == EndOf(x.pos, Len(data), Len(r.chain))
            item == [old EXCEPT !.first = FirstOfChain(old.first, r.chain),
                                !.size = Max({old.size, end})]
        IN  /\ disk' = fat16_write_dir_entry(
                        [r.disk EXCEPT !.bytes = Filled(r.disk, r.chain, x.pos, end, data)],
                        <<p>>, <<item>>)
            /\ descs' = [descs EXCEPT ![f].item = item, ![f].pos = end]
  BY ZenonT(30) DEF fat16_write, EndOf, FirstOfChain, Filled, Offset
<1>. DEFINE n == (x.pos + Len(data) - 1) \div CLUSTER + 1
            r == fat16_cluster_at(disk, old.first, n)
            t == r.chain
            end == EndOf(x.pos, Len(data), Len(t))
            size == Max({old.size, end})
            item == [old EXCEPT !.first = FirstOfChain(old.first, t), !.size = size]
            y == [x EXCEPT !.item = item, !.pos = end]
<1>. DEFINE bytes == Filled(r.disk, t, x.pos, end, data)
<1>7. /\ disk' = fat16_write_dir_entry([r.disk EXCEPT !.bytes = bytes], <<p>>, <<item>>)
      /\ descs' = [descs EXCEPT ![f].item = item, ![f].pos = end]
  BY <1>6
<1>. HIDE DEF bytes
<1>8. /\ s \in Seq(Clusters) /\ IsChain(disk, old.first, s) /\ DiskShape(disk)
      /\ Len(s) = (old.size + CLUSTER - 1) \div CLUSTER /\ Len(s) \in Nat
  <2>1. HasChain(disk, old.first) /\ DiskShape(disk)
    BY <1>1, <1>4 DEF Sound, Chained
  <2>2. Len(s) = (old.size + CLUSTER - 1) \div CLUSTER
    BY <1>1, <1>4 DEF Sized
  <2>. HIDE DEF p, old, n
  <2>3. s \in Seq(Clusters) /\ IsChain(disk, old.first, s)
    BY <2>1 DEF HasChain, IsChain
  <2>. QED
    BY <2>1, <2>2, <2>3, EmptySeq
<1>9. Len(data) \in Nat
  <2>1. data \in Seq(Bytes)
    BY FatAssumption
  <2>. QED
    BY <2>1
<1>10. n \in Int
  <2>. DEFINE z == x.pos + Len(data) - 1
  <2>1. z \in Int
    BY <1>4, <1>5, <1>9
  <2>. HIDE DEF z
  <2>2. z \div CLUSTER \in Int
    BY <2>1, QuotientGrows, FatAssumption
  <2>. QED
    BY <2>2 DEF z
<1>. HIDE DEF n, x
<1>11. Grows(disk, r.disk, s, t) /\ (t = s \/ Len(t) <= n)
  <2>. HIDE DEF old, s
  <2>. QED
    BY <1>8, <1>10, ClusterAt
<1>12. t \in Seq(Clusters) /\ Len(t) \in Nat /\ Len(s) <= Len(t) /\ DiskShape(r.disk)
  <2>. HIDE DEF r, s
  <2>1. t \in Seq(Clusters) /\ Len(s) <= Len(t) /\ DiskShape(r.disk)
    BY <1>11 DEF Grows
  <2>. QED
    BY <2>1, EmptySeq
<1>. HIDE DEF r, s, old, p
<1>13. /\ end \in 0 .. size /\ size \in Nat /\ old.size <= size
       /\ Len(t) = (size + CLUSTER - 1) \div CLUSTER
  <2>1. x.pos \in Nat /\ x.pos <= old.size
    BY <1>4, <1>5
  <2>2. Len(t) = Len(s) \/ Len(t) <= (x.pos + Len(data) - 1) \div CLUSTER + 1
    BY <1>11 DEF n
  <2>3. end = EndOf(x.pos, Len(data), Len(t)) /\ size = Max({old.size, end})
    OBVIOUS
  <2>. DEFINE m == Len(t)
              k == Len(s)
              len == Len(data)
  <2>4. /\ x.pos \in Nat /\ len \in Nat /\ old.size \in Nat /\ k \in Nat /\ m \in Nat /\ k <= m
        /\ k = (old.size + CLUSTER - 1) \div CLUSTER /\ x.pos <= old.size
        /\ m = k \/ m <= (x.pos + len - 1) \div CLUSTER + 1
        /\ end = EndOf(x.pos, len, m) /\ size = Max({old.size, end})
    BY <1>5, <1>8, <1>9, <1>12, <2>1, <2>2, <2>3
  <2>. DEFINE pos == x.pos
              before == old.size
  <2>. HIDE DEF m, k, len, t, end, size
  <2>5. WriteFits(pos, len, before, k, m) /\ end = EndOf(pos, len, m)
        /\ size = SizeAfter(pos, len, before, m)
    BY <2>4 DEF WriteFits, SizeAfter
  <2>. HIDE DEF pos, before
  <2>6. WriteEnds(pos, len, before, m)
    BY <2>5, WrittenSize
  <2>7. /\ end \in 0 .. size /\ size \in Nat /\ before <= size
        /\ m = (size + CLUSTER - 1) \div CLUSTER
    BY <2>5, <2>6 DEF WriteEnds
  <2>. QED
    BY <2>7 DEF m, before
<1>. HIDE DEF t, size
<1>14. FirstOfChain(old.first, t) \in Clusters \cup {0}
  BY <1>5, <1>12 DEF FirstOfChain
<1>. HIDE DEF end
<1>15. /\ item \in Items /\ item.kind = "file" /\ item.short = old.short
       /\ item.first = FirstOfChain(old.first, t) /\ item.size = size
  BY <1>4, <1>13, <1>14 DEF Items
<1>. HIDE DEF item
<1>16. /\ y \in Records /\ y.mode = x.mode /\ y.item = item /\ y.pos = end /\ y.at = p
       /\ descs' = [descs EXCEPT ![f] = y]
  <2>1. end \in Nat
    BY <1>13
  <2>2. y \in Records /\ y.mode = x.mode /\ y.item = item /\ y.pos = end /\ y.at = p
    BY <1>3, <1>15, <2>1 DEF Records, p
  <2>3. descs' = [descs EXCEPT ![f] = y]
    BY <1>7 DEF x
  <2>. QED
    BY <2>2, <2>3
<1>. HIDE DEF y
<1>17. /\ Sound(disk', {}) /\ Appends(disk, disk', p, item, t) /\ Follows(disk, disk')
       /\ disk'.bytes = bytes
  <2>. DEFINE b == [r.disk EXCEPT !.bytes = bytes]
  <2>1. b.fat = r.disk.fat /\ b.items = r.disk.items /\ b.bytes = bytes /\ DiskShape(b)
    <3>1. r.disk = [fat |-> r.disk.fat, items |-> r.disk.items, bytes |-> r.disk.bytes,
                    next_free |-> r.disk.next_free]
      BY <1>12 DEF DiskShape
    <3>. DEFINE g == r.disk
    <3>2. g = [fat |-> g.fat, items |-> g.items, bytes |-> g.bytes, next_free |-> g.next_free]
      BY <3>1
    <3>3. b = [g EXCEPT !.bytes = bytes]
      OBVIOUS
    <3>. HIDE DEF g, b
    <3>4. /\ b = [fat |-> g.fat, items |-> g.items, bytes |-> bytes, next_free |-> g.next_free]
          /\ b.fat = g.fat /\ b.items = g.items /\ b.bytes = bytes /\ b.next_free = g.next_free
      BY <3>2, <3>3
    <3>5. b = [fat |-> b.fat, items |-> b.items, bytes |-> b.bytes, next_free |-> b.next_free]
      BY <3>4, Zenon
    <3>6. DiskShape(g)
      BY <1>12 DEF g
    <3>7. DiskShape(b)
      BY <3>4, <3>5, <3>6, Zenon DEF DiskShape
    <3>. QED
      BY <3>4, <3>7 DEF g
  <2>2. disk' = fat16_write_dir_entry(b, <<p>>, <<item>>)
    BY <1>7
  <2>3. At(disk, p).kind = "file" /\ s = Chain(disk, At(disk, p).first) /\ item.short = At(disk, p).short
        /\ item.first = FirstOfChain(At(disk, p).first, t)
    BY <1>4, <1>15 DEF s
  <2>. HIDE DEF b
  <2>4. /\ Sound(disk', {}) /\ Appends(disk, disk', p, item, t) /\ Follows(disk, disk')
        /\ disk'.bytes = b.bytes
    <3>. DEFINE e == disk'
                k == r.disk
    <3>1. e = fat16_write_dir_entry(b, <<p>>, <<item>>) /\ Grows(disk, k, s, t)
          /\ b.fat = k.fat /\ b.items = k.items /\ DiskShape(b)
      BY <1>11, <2>1, <2>2
    <3>. HIDE DEF e, k
    <3>2. Sound(e, {}) /\ Appends(disk, e, p, item, t) /\ Follows(disk, e) /\ e.bytes = b.bytes
      BY <1>1, <1>4, <1>15, <2>3, <3>1, FileGrown
    <3>. QED
      BY <3>2 DEF e
  <2>. QED
    BY <2>1, <2>4
<1>18. Writes(f, p, old, s, x.pos, data, r.disk, t, item, end)
  <2>1. data \in Seq(Bytes)
    BY FatAssumption
  <2>2. Writing(descs[f]) /\ descs[f].at = p /\ descs[f].item = old /\ descs[f].pos = x.pos
    BY <1>2 DEF x, p, old
  <2>3. s = Chain(disk, old.first) /\ size = Max({old.size, end})
    BY DEF s, size
  <2>4. end = EndOf(x.pos, Len(data), Len(t))
    BY DEF end
  <2>5. descs' = [descs EXCEPT ![f] = [descs[f] EXCEPT !.item = item, !.pos = end]]
    BY <1>7
  <2>. QED
    BY <1>4, <1>8, <1>11, <1>13, <1>15, <1>17, <2>1, <2>2, <2>3, <2>4, <2>5 DEF Writes, bytes
<1>. QED
  BY <1>18

LEMMA WritingFile ==
    ASSUME FatInv, NEW f \in Descs, fat16_write(f)
    PROVE  FatInv'
<1>1. Sound(disk, {}) /\ Sized(disk) /\ DescsGood(disk, descs)
  BY DEF FatInv
<1>2. PICK p, old, s, pos, data, g, t, item, end :
            Writes(f, p, old, s, pos, data, g, t, item, end)
  BY WritingIs
<1>. DEFINE x == descs[f]
            y == [x EXCEPT !.item = item, !.pos = end]
<1>3. x \in Records /\ Writing(x) /\ x.at = p
  BY <1>1, <1>2 DEF DescsGood, Writes
<1>4. /\ p \in AllRefs(disk) /\ old \in Items /\ old.kind = "file" /\ At(disk, p) = old
      /\ Grows(disk, g, s, t) /\ IsChain(disk, old.first, s)
      /\ Len(s) = (old.size + CLUSTER - 1) \div CLUSTER
  BY <1>2 DEF Writes
<1>5. old.size \in Nat /\ old.first \in Clusters \cup {0}
  BY <1>4, Kinds
<1>13. /\ end \in 0 .. item.size /\ old.size <= item.size /\ item \in Items /\ item.kind = "file"
       /\ item.first = FirstOfChain(old.first, t) /\ t \in Seq(Clusters)
       /\ Len(t) = (item.size + CLUSTER - 1) \div CLUSTER
  BY <1>2 DEF Writes, Grows
<1>14. item.size \in Nat
  BY <1>13, Kinds
<1>16. /\ y \in Records /\ y.mode = x.mode /\ y.item = item /\ y.pos = end /\ y.at = p
       /\ descs' = [descs EXCEPT ![f] = y]
  <2>1. end \in Nat
    BY <1>13, <1>14
  <2>2. descs' = [descs EXCEPT ![f] = y]
    BY <1>2 DEF Writes
  <2>. HIDE DEF x
  <2>. QED
    BY <1>3, <1>13, <2>1, <2>2 DEF Records
<1>17. Sound(disk', {}) /\ Appends(disk, disk', p, item, t)
  BY <1>2 DEF Writes
<1>. HIDE DEF x, y
<1>18. Sized(disk')
  <2>1. Len(Chain(disk', item.first)) = (item.size + CLUSTER - 1) \div CLUSTER
    BY <1>13, <1>17 DEF Appends
  <2>. QED
    BY <1>1, <1>17, <2>1 DEF Sized, Appends
<1>19. DescsGood(disk', descs')
  <2>1. Holds(disk', y)
    <3>1. At(disk', p) = item /\ p \in AllRefs(disk')
      BY <1>4, <1>17 DEF Appends
    <3>2. y.pos \in 0 .. y.item.size
      BY <1>13, <1>16
    <3>3. item.size <= item.size
      BY <1>14
    <3>4. Knows(y, item)
      BY <1>13, <1>16, <3>2, <3>3 DEF Knows
    <3>5. y.item \in Items /\ y.item.kind = "file" /\ y.at = p
      BY <1>13, <1>16
    <3>. QED
      BY <3>1, <3>4, <3>5 DEF Holds
  <2>2. ASSUME NEW h \in Descs, h # f PROVE Holds(disk', descs[h])
    <3>1. Holds(disk, descs[h])
      BY <1>1 DEF DescsGood
    <3>2. CASE descs[h].mode = "closed"
      BY <3>2 DEF Holds
    <3>3. CASE descs[h].mode # "closed" /\ descs[h].at # p
      <4>1. descs[h].at \in AllRefs(disk)
        BY <3>1, <3>3 DEF Holds
      <4>2. descs[h].at \in AllRefs(disk') /\ At(disk', descs[h].at) = At(disk, descs[h].at)
        BY <1>17, <3>3, <4>1 DEF Appends
      <4>. QED
        BY <3>1, <4>2, HoldsKept
    <3>4. CASE descs[h].mode # "closed" /\ descs[h].at = p
      <4>1. descs[h].mode = "r"
        <5>1. ~ Writing(descs[h])
          BY <1>1, <1>3, <2>2, <3>4 DEF DescsGood, x
        <5>2. descs[h] \in Records
          BY <1>1 DEF DescsGood
        <5>. QED
          BY <3>4, <5>1, <5>2 DEF Writing, Records
      <4>2. At(disk', p) = item /\ p \in AllRefs(disk')
        BY <1>4, <1>17 DEF Appends
      <4>3. old.first = FirstOfChain(old.first, t) \/ (old.first = 0 /\ old.size = 0)
        <5>1. CASE s = <<>>
          <6>1. old.first = 0
            BY <1>4, <1>5, <5>1 DEF IsChain
          <6>2. 0 = (old.size + CLUSTER - 1) \div CLUSTER
            BY <1>4, <5>1
          <6>3. CLUSTER \in Nat \ {0}
            BY FatAssumption
          <6>4. old.size <= CLUSTER * 0
            BY <1>5, <6>2, <6>3, SizeFits
          <6>5. old.size = 0
            BY <1>5, <6>3, <6>4
          <6>. QED
            BY <6>1, <6>5
        <5>2. CASE s # <<>>
          <6>1. Len(s) \in Nat \ {0}
            BY <1>4, <5>2, EmptySeq DEF IsChain
          <6>2. t[1] = s[1] /\ s[1] = old.first
            BY <1>4, <5>2, <6>1 DEF Grows, IsChain
          <6>3. t # <<>> => Head(t) = t[1]
            BY <1>13
          <6>4. old.first = FirstOfChain(old.first, t)
            BY <6>2, <6>3, Zenon DEF FirstOfChain
          <6>. QED
            BY <6>4
        <5>. QED
          BY <5>1, <5>2
      <4>4. descs[h].item \in Items
        BY <3>1, <3>4 DEF Holds
      <4>. DEFINE z == descs[h]
      <4>5. z.item.kind = "file" => Knows(z, old)
        BY <1>4, <3>1, <3>4 DEF Holds
      <4>6. z.item.size \in Nat
        BY <4>4, Kinds
      <4>. HIDE DEF z
      <4>7. Knows(z, old) => Knows(z, item)
        BY <1>5, <1>13, <1>14, <4>1, <4>3, <4>6 DEF Knows, z
      <4>8. Holds(disk', z)
        BY <3>4, <4>1, <4>2, <4>4, <4>5, <4>7 DEF Holds, z
      <4>. QED
        BY <4>8 DEF z
    <3>. QED
      BY <3>2, <3>3, <3>4
  <2>3. descs \in [Descs -> Records]
    BY <1>1 DEF DescsGood
  <2>4. descs' \in [Descs -> Records] /\ \A h \in Descs : descs'[h] = IF h = f THEN y ELSE descs[h]
    BY <1>16, <2>3
  <2>5. \A h \in Descs : Holds(disk', descs'[h])
    BY <2>1, <2>2, <2>4
  <2>6. \A h, k \in Descs : Writing(descs[h]) /\ Writing(descs[k]) /\ descs[h].at = descs[k].at => h = k
    BY <1>1 DEF DescsGood
  <2>7. Writing(y) /\ y.at = descs[f].at /\ Writing(descs[f])
    BY <1>3, <1>16 DEF Writing, x
  <2>8. \A h, k \in Descs : Writing(descs'[h]) /\ Writing(descs'[k]) /\ descs'[h].at = descs'[k].at => h = k
    BY <2>4, <2>6, <2>7
  <2>. QED
    BY <2>4, <2>5, <2>8 DEF DescsGood
<1>. QED
  BY <1>17, <1>18, <1>19 DEF FatInv

-----------------------------------------------------------------------------
(* Every call keeps the invariant                                          *)

LEMMA FatKept ==
    ASSUME Careful, FatInv, [Next]_vars
    PROVE  FatInv'
<1>1. CASE UNCHANGED vars
  <2>1. disk' = disk /\ descs' = descs
    BY <1>1 DEF vars
  <2>. QED
    BY <2>1 DEF FatInv
<1>2. ASSUME NEW path \in Paths, OpenRead(path) PROVE FatInv'
  BY <1>2, Reading
<1>3. ASSUME NEW path \in Paths, fat16_remove(path) PROVE FatInv'
  BY <1>3, Removing
<1>4. ASSUME NEW path \in Paths, fat16_mkdir(path) PROVE FatInv'
  BY <1>4, MakingDir
<1>5. ASSUME NEW path \in Paths, NEW mode \in {"w", "a"}, OpenExisting(path, mode) PROVE FatInv'
  BY <1>5, OpeningFile
<1>6. ASSUME NEW path \in Paths, NEW mode \in {"w", "a"}, OpenNew(path, mode) PROVE FatInv'
  BY <1>6, OpeningNew
<1>7. ASSUME NEW f \in Descs, fat16_write(f) PROVE FatInv'
  BY <1>7, WritingFile
<1>8. ASSUME NEW f \in Descs, fat16_read(f) \/ fat16_seek(f) PROVE FatInv'
  BY <1>8, Moving
<1>9. ASSUME NEW f \in Descs, fat16_close(f) PROVE FatInv'
  BY <1>9, Closing
<1>. QED
  BY <1>1, <1>2, <1>3, <1>4, <1>5, <1>6, <1>7, <1>8, <1>9 DEF Next

(***************************************************************************)
(* The chains, the items and the descriptors fit each other all along,     *)
(* whatever the programs call, as long as none writes to a file or removes *)
(* it behind the back of another descriptor (fat16.c, stdio.c).            *)
(***************************************************************************)
THEOREM FatInductive == ASSUME Careful PROVE Spec => []FatInv
  BY InitGood, FatKept, PTL DEF Spec

-----------------------------------------------------------------------------
(* What the programs see of the tree                                       *)

(* The records of a list stand for the items of a directory. *)
Stands(recs, refs, d) ==
    /\ \A x \in recs : x.pos \in refs /\ x.item = At(d, x.pos)
    /\ \A p \in refs : \E x \in recs : x.pos = p
    /\ \A x, y \in recs : x.pos = y.pos => x = y

LEMMA ListedIs ==
    ASSUME NEW d, NEW X, Sound(d, X), NEW dir \in Tops(d), NEW prefix
    PROVE  Stands(Listed(d, dir, prefix), Refs(d, dir), d)
<1>. DEFINE es == Entries(d, dir)
            pos == Positions(d, dir)
            s == Stored(d, dir)
            I == {k \in DOMAIN es : IsItem(es[k])}
            rec(i) == [path |-> Append(prefix, fat16_get_item_name(es, i)), pos |-> pos[i], item |-> es[i]]
            L == Listed(d, dir, prefix)
<1>1. DiskShape(d) /\ IsDir(d, dir)
  BY TopIs DEF Sound
<1>2. Numbered(d, dir, s, pos)
  BY <1>1, RefIndex
<1>3. /\ Len(s) \in Nat /\ Len(es) \in 0 .. Len(s)
      /\ \A k \in 1 .. Len(es) : es[k] = s[k]
      /\ \A k \in Len(es) + 1 .. Len(s) : s[k] = End
  BY EntriesEnd, Zenon
<1>4. DOMAIN es = 1 .. Len(es)
  BY <1>1, EntriesAre, Zenon
<1>5. L = {rec(i) : i \in I}
  BY DEF Listed
<1>6. \A i : rec(i).pos = pos[i] /\ rec(i).item = es[i]
  OBVIOUS
<1>. HIDE DEF rec, L, es, pos, s
<1>7. \A i \in I : i \in 1 .. Len(s) /\ IsItem(s[i]) /\ es[i] = s[i]
  BY <1>3, <1>4
<1>8. \A i \in 1 .. Len(s) : IsItem(s[i]) => i \in I
  <2>1. \A i \in 1 .. Len(s) : i \in 1 .. Len(es) \/ i \in Len(es) + 1 .. Len(s)
    BY <1>3
  <2>. QED
    BY <1>3, <1>4, <2>1, Kinds
<1>. HIDE DEF I
<1>9. \A x \in L : x.pos \in Refs(d, dir) /\ x.item = At(d, x.pos)
  BY <1>2, <1>5, <1>6, <1>7 DEF Numbered
<1>10. \A p \in Refs(d, dir) : \E x \in L : x.pos = p
  <2>1. SUFFICES ASSUME NEW p \in Refs(d, dir) PROVE \E x \in L : x.pos = p
    OBVIOUS
  <2>2. PICK i \in 1 .. Len(s) : pos[i] = p
    BY <1>2 DEF Numbered
  <2>3. i \in I
    BY <1>2, <1>8, <2>2 DEF Numbered
  <2>. QED
    BY <1>5, <1>6, <2>2, <2>3
<1>11. \A x, y \in L : x.pos = y.pos => x = y
  <2>1. \A i, j \in I : pos[i] = pos[j] => i = j
    BY <1>2, <1>7 DEF Numbered
  <2>. QED
    BY <1>5, <1>6, <2>1
<1>. QED
  BY <1>9, <1>10, <1>11 DEF Stands, L

LEMMA TreeIs ==
    ASSUME NEW d, NEW X, Sound(d, X)
    PROVE  /\ Stands(Tree(d), AllRefs(d), d)
           /\ Tops(d) = {ROOT} \cup {x.item.first : x \in {y \in Listed(d, ROOT, <<>>) : y.item.kind = "dir"}}
<1>. DEFINE top == Listed(d, ROOT, <<>>)
            dirs == {y \in top : y.item.kind = "dir"}
            in(x) == Listed(d, x.item.first, x.path)
            below == UNION {in(x) : x \in dirs}
<1>1. Tree(d) = top \cup below
  BY DEF Tree
<1>2. DiskShape(d) /\ Chained(d) /\ Apart(d)
  BY DEF Sound
<1>3. ROOT \in Tops(d)
  BY RootIsDir
<1>4. Stands(top, Refs(d, ROOT), d)
  BY <1>3, ListedIs
<1>. HIDE DEF top, in, below
<1>5. \A x \in dirs : x.item.first \in Tops(d) /\ x.item.first # ROOT /\ x.pos \in AllRefs(d)
  <2>1. SUFFICES ASSUME NEW x \in dirs
                 PROVE  x.item.first \in Tops(d) /\ x.item.first # ROOT /\ x.pos \in AllRefs(d)
    OBVIOUS
  <2>2. x.pos \in Refs(d, ROOT) /\ x.item = At(d, x.pos) /\ x.item.kind = "dir"
    BY <1>4 DEF Stands
  <2>3. x.item.first \in Tops(d)
    BY <2>2 DEF Tops
  <2>4. x.pos \in AllRefs(d)
    BY <1>3, <2>2, RefsIn
  <2>5. x.item.first \in Clusters
    BY <1>2, <2>2, <2>4 DEF Chained
  <2>. QED
    BY <2>3, <2>4, <2>5, Limits
<1>6. Tops(d) = {ROOT} \cup {x.item.first : x \in dirs}
  BY <1>4 DEF Tops, Stands
<1>7. \A x \in dirs : Stands(in(x), Refs(d, x.item.first), d)
  BY <1>5, ListedIs DEF in
<1>8. \A y \in below : \E x \in dirs : y \in in(x)
  BY DEF below
<1>9. \A x \in dirs : in(x) \subseteq below
  BY DEF below
<1>10. \A y \in Tree(d) : y.pos \in AllRefs(d) /\ y.item = At(d, y.pos)
  <2>1. \A y \in top : y.pos \in AllRefs(d) /\ y.item = At(d, y.pos)
    BY <1>3, <1>4, RefsIn DEF Stands
  <2>2. ASSUME NEW y \in below PROVE y.pos \in AllRefs(d) /\ y.item = At(d, y.pos)
    <3>1. PICK x \in dirs : y \in in(x)
      BY <1>8
    <3>2. y.pos \in Refs(d, x.item.first) /\ y.item = At(d, y.pos)
      BY <1>7, <3>1 DEF Stands
    <3>. QED
      BY <1>5, <3>2, RefsIn
  <2>. QED
    BY <1>1, <2>1, <2>2
<1>11. \A p \in AllRefs(d) : \E y \in Tree(d) : y.pos = p
  <2>1. SUFFICES ASSUME NEW p \in AllRefs(d) PROVE \E y \in Tree(d) : y.pos = p
    OBVIOUS
  <2>2. PICK dir \in Tops(d) : p \in Refs(d, dir)
    BY DEF AllRefs
  <2>3. CASE dir = ROOT
    BY <1>1, <1>4, <2>2, <2>3 DEF Stands
  <2>4. CASE dir # ROOT
    <3>1. PICK x \in dirs : x.item.first = dir
      BY <1>6, <2>4
    <3>2. \E y \in in(x) : y.pos = p
      BY <1>7, <2>2, <3>1 DEF Stands
    <3>. QED
      BY <1>1, <1>9, <3>2
  <2>. QED
    BY <2>3, <2>4
<1>12. \A u, v \in dirs : u.item.first = v.item.first => u = v
  <2>1. SUFFICES ASSUME NEW u \in dirs, NEW v \in dirs, u.item.first = v.item.first PROVE u = v
    OBVIOUS
  <2>2. /\ u.pos \in AllRefs(d) /\ v.pos \in AllRefs(d) /\ u \in top /\ v \in top
        /\ At(d, u.pos).first = u.item.first /\ At(d, v.pos).first = u.item.first
        /\ At(d, u.pos).kind = "dir" /\ At(d, v.pos).kind = "dir"
    BY <1>4, <1>5, <2>1 DEF Stands
  <2>3. At(d, u.pos).first \in Clusters
    BY <1>2, <2>2 DEF Chained
  <2>4. u.item.first \in Own(d, u.pos) /\ u.item.first \in Own(d, v.pos)
    BY <1>2, <2>2, <2>3, OwnIs
  <2>5. u.pos = v.pos
    BY <1>2, <2>2, <2>4 DEF Apart
  <2>. QED
    BY <1>4, <2>2, <2>5 DEF Stands
<1>13. \A a, b \in Tops(d) : \A p : p \in Refs(d, a) /\ p \in Refs(d, b) => a = b
  <2>1. SUFFICES ASSUME NEW a \in Tops(d), NEW b \in Tops(d), NEW p,
                        p \in Refs(d, a), p \in Refs(d, b), a # b
                 PROVE  FALSE
    OBVIOUS
  <2>2. p \in Places(d, a) /\ p \in Places(d, b)
    BY <2>1 DEF Refs
  <2>. QED
    BY <1>2, <2>1, <2>2, PlacesApart
<1>14. \A y, z \in Tree(d) : y.pos = z.pos => y = z
  <2>1. SUFFICES ASSUME NEW y \in Tree(d), NEW z \in Tree(d), y.pos = z.pos PROVE y = z
    OBVIOUS
  <2>2. \A v \in top : v.pos \in Refs(d, ROOT)
    BY <1>4 DEF Stands
  <2>3. \A x \in dirs : \A v \in in(x) : v.pos \in Refs(d, x.item.first)
    BY <1>7 DEF Stands
  <2>4. CASE y \in top /\ z \in top
    BY <1>4, <2>1, <2>4 DEF Stands
  <2>5. CASE y \in top /\ z \in below
    <3>1. PICK x \in dirs : z \in in(x)
      BY <1>8, <2>5
    <3>2. y.pos \in Refs(d, ROOT) /\ y.pos \in Refs(d, x.item.first)
      BY <2>1, <2>2, <2>3, <2>5, <3>1
    <3>. QED
      BY <1>3, <1>5, <1>13, <3>2
  <2>6. CASE y \in below /\ z \in top
    <3>1. PICK x \in dirs : y \in in(x)
      BY <1>8, <2>6
    <3>2. y.pos \in Refs(d, ROOT) /\ y.pos \in Refs(d, x.item.first)
      BY <2>1, <2>2, <2>3, <2>6, <3>1
    <3>. QED
      BY <1>3, <1>5, <1>13, <3>2
  <2>7. CASE y \in below /\ z \in below
    <3>1. PICK u \in dirs : y \in in(u)
      BY <1>8, <2>7
    <3>2. PICK v \in dirs : z \in in(v)
      BY <1>8, <2>7
    <3>3. y.pos \in Refs(d, u.item.first) /\ y.pos \in Refs(d, v.item.first)
      BY <2>1, <2>3, <3>1, <3>2
    <3>4. u.item.first = v.item.first
      BY <1>5, <1>13, <3>3
    <3>5. u = v
      BY <1>12, <3>4
    <3>. QED
      BY <1>7, <2>1, <3>1, <3>2, <3>5 DEF Stands
  <2>. QED
    BY <1>1, <2>4, <2>5, <2>6, <2>7
<1>15. Stands(Tree(d), AllRefs(d), d)
  BY <1>10, <1>11, <1>14 DEF Stands
<1>. QED
  BY <1>6, <1>15 DEF top

LEMMA TopsAre == ASSUME Sound(disk, {}) PROVE Directories = Tops(disk)
  BY TreeIs DEF Directories

(* The names of a directory are those of what it stores. *)
LEMMA ListNames ==
    ASSUME NEW d, NEW X, Sound(d, X), NEW dir \in Tops(d)
    PROVE  LET s == Stored(d, dir)
               es == Entries(d, dir)
           IN  /\ GoodDir(s) /\ DOMAIN es = 1 .. Len(es) /\ Len(s) \in Nat /\ Len(es) \in 0 .. Len(s)
               /\ \A k \in 1 .. Len(es) :
                    /\ es[k] = s[k]
                    /\ fat16_lfn_count(es, k) = fat16_lfn_count(s, k)
                    /\ fat16_get_item_name(es, k) = fat16_get_item_name(s, k)
               /\ \A k \in 1 .. Len(s) : IsItem(s[k]) => k \in 1 .. Len(es)
<1>. DEFINE s == Stored(d, dir)
            es == Entries(d, dir)
<1>1. DiskShape(d) /\ IsDir(d, dir) /\ GoodDir(s) /\ EndsOnce(s)
  BY TopIs DEF Sound, DirsGood, GoodDir
<1>2. DOMAIN es = 1 .. Len(es) /\ Len(es) \in 0 .. Len(s)
  BY <1>1, EntriesAre, Zenon
<1>3. Len(s) \in Nat
  BY EntriesEnd, Zenon
<1>4. \A k \in 1 .. Len(es) : es[k] = s[k]
  BY EntriesEnd, Zenon
<1>5. \A k \in 1 .. Len(es) : fat16_lfn_count(es, k) = fat16_lfn_count(s, k)
                              /\ fat16_get_item_name(es, k) = fat16_get_item_name(s, k)
  BY <1>1, EntriesAll, Zenon
<1>6. \A k \in 1 .. Len(s) : k \in 1 .. Len(es) \/ s[k] = End
  BY <1>1, EntriesAll, Zenon
<1>7. \A k \in 1 .. Len(s) : IsItem(s[k]) => k \in 1 .. Len(es)
  <2>1. ~ IsItem(End)
    BY Kinds
  <2>. HIDE DEF s, es
  <2>. QED
    BY <1>6, <2>1
<1>. HIDE DEF s, es
<1>. QED
  BY <1>1, <1>2, <1>3, <1>4, <1>5, <1>7, Zenon DEF s, es

LEMMA NamesOfList ==
    ASSUME NEW d, NEW X, Sound(d, X), NEW dir \in Tops(d)
    PROVE  LET es == Entries(d, dir)
           IN  /\ \A i, j \in {k \in DOMAIN es : IsItem(es[k])} :
                    i # j => /\ es[i].short # es[j].short
                             /\ fat16_get_item_name(es, i) # fat16_get_item_name(es, j)
               /\ \A k \in DOMAIN es : es[k].kind = "lfn" =>
                    \E i \in DOMAIN es : /\ IsItem(es[i])
                                         /\ k \in i - fat16_lfn_count(es, i) .. i - 1
<1>. DEFINE s == Stored(d, dir)
            es == Entries(d, dir)
<1>1. GoodDir(s) /\ DOMAIN es = 1 .. Len(es) /\ Len(s) \in Nat /\ Len(es) \in 0 .. Len(s)
  BY ListNames, Zenon
<1>2. \A k \in 1 .. Len(es) :
        /\ es[k] = s[k]
        /\ fat16_lfn_count(es, k) = fat16_lfn_count(s, k)
        /\ fat16_get_item_name(es, k) = fat16_get_item_name(s, k)
  BY ListNames, Zenon
<1>3. \A k \in 1 .. Len(s) : IsItem(s[k]) => k \in 1 .. Len(es)
  BY ListNames, Zenon
<1>. HIDE DEF s, es
<1>4. \A k \in 1 .. Len(es) : k \in 1 .. Len(s)
  BY <1>1
<1>5. \A i, j \in {k \in DOMAIN es : IsItem(es[k])} :
                    i # j => /\ es[i].short # es[j].short
                             /\ fat16_get_item_name(es, i) # fat16_get_item_name(es, j)
  BY <1>1, <1>2, <1>4 DEF GoodDir, NamesDiffer
<1>6. \A k \in DOMAIN es : es[k].kind = "lfn" =>
                    \E i \in DOMAIN es : /\ IsItem(es[i])
                                         /\ k \in i - fat16_lfn_count(es, i) .. i - 1
  <2>1. SUFFICES ASSUME NEW k \in DOMAIN es, es[k].kind = "lfn"
                 PROVE  \E i \in DOMAIN es : /\ IsItem(es[i])
                                             /\ k \in i - fat16_lfn_count(es, i) .. i - 1
    OBVIOUS
  <2>2. k \in 1 .. Len(s) /\ s[k].kind = "lfn"
    BY <1>1, <1>2, <1>4, <2>1
  <2>3. PICK i \in 1 .. Len(s) : IsItem(s[i]) /\ k \in i - fat16_lfn_count(s, i) .. i - 1
    BY <1>1, <2>2 DEF GoodDir, PartsHeld
  <2>4. i \in 1 .. Len(es)
    BY <1>3, <2>3
  <2>5. fat16_lfn_count(es, i) = fat16_lfn_count(s, i) /\ es[i] = s[i]
    BY <1>2, <2>4
  <2>. QED
    BY <1>1, <2>3, <2>4, <2>5
<1>. QED
  BY <1>5, <1>6, Zenon DEF es

(***************************************************************************)
(* No two items of a directory share a name or an alias, whatever names    *)
(* are made and removed (fat16_create_item, fat16_make_short_name).        *)
(***************************************************************************)
THEOREM NamesDistinct == ASSUME Careful PROVE Spec => []NamesUnambiguous
<1>1. FatInv => NamesUnambiguous
  <2>1. SUFFICES ASSUME FatInv, NEW dir \in Directories
                 PROVE  LET es == Entries(disk, dir)
                        IN  \A i, j \in {k \in DOMAIN es : IsItem(es[k])} :
                                i # j => /\ es[i].short # es[j].short
                                         /\ fat16_get_item_name(es, i) # fat16_get_item_name(es, j)
    BY DEF NamesUnambiguous
  <2>2. Sound(disk, {}) /\ dir \in Tops(disk)
    BY <2>1, TopsAre DEF FatInv
  <2>. QED
    BY <2>2, NamesOfList, Zenon
<1>. QED
  BY <1>1, FatInductive, PTL

(***************************************************************************)
(* The image stays one that fsck.fat accepts, whatever the programs call:  *)
(* each used cluster has one owner, every chain ends and is as long as its *)
(* file needs, and no part of a long name is left alone (fat16_write,      *)
(* fat16_create_item, fat16_remove, fat16_mkdir).                          *)
(***************************************************************************)
THEOREM ImageClean == ASSUME Careful PROVE Spec => []FsckClean
<1>1. FatInv => FsckClean
  <2>1. SUFFICES ASSUME FatInv, NEW tree, tree = Tree(disk)
                 PROVE
        /\ \A c \in Clusters : disk.fat[c] # UNUSED =>
                Cardinality({x \in tree : c \in ClustersOf(disk, x)}) = 1
        /\ \A x \in tree :
            LET chain == Chain(disk, x.item.first)
            IN  /\ chain # <<>> => disk.fat[Last(chain)] = END_OF_CHAIN
                /\ x.item.first # 0 => chain # <<>>
                /\ IF x.item.kind = "dir" THEN chain # <<>>
                   ELSE Len(chain) = (x.item.size + CLUSTER - 1) \div CLUSTER
        /\ \A dir \in Directories :
            LET es == Entries(disk, dir)
            IN  \A k \in DOMAIN es : es[k].kind = "lfn" =>
                    \E i \in DOMAIN es : /\ IsItem(es[i])
                                         /\ k \in i - fat16_lfn_count(es, i) .. i - 1
    BY DEF FsckClean
  <2>2. Sound(disk, {}) /\ Sized(disk) /\ Directories = Tops(disk)
    BY <2>1, TopsAre DEF FatInv
  <2>3. Stands(tree, AllRefs(disk), disk)
    BY <2>1, <2>2, TreeIs
  <2>4. DiskShape(disk) /\ Chained(disk) /\ Apart(disk) /\ Owned(disk, {})
    BY <2>2 DEF Sound
  <2>5. ASSUME NEW c \in Clusters, disk.fat[c] # UNUSED
        PROVE  Cardinality({x \in tree : c \in ClustersOf(disk, x)}) = 1
    <3>1. PICK p \in AllRefs(disk) : c \in Own(disk, p)
      BY <2>4, <2>5 DEF Owned
    <3>2. PICK u \in tree : u.pos = p
      BY <2>3 DEF Stands
    <3>3. \A x \in tree : x.pos \in AllRefs(disk) /\ ClustersOf(disk, x) = Own(disk, x.pos)
      BY <2>3 DEF Stands, ClustersOf, Own
    <3>4. \A x \in tree : c \in ClustersOf(disk, x) => x.pos = p
      BY <2>4, <3>1, <3>3 DEF Apart
    <3>5. \A x \in tree : c \in ClustersOf(disk, x) <=> x = u
      BY <2>3, <3>1, <3>2, <3>3, <3>4 DEF Stands
    <3>6. {x \in tree : c \in ClustersOf(disk, x)} = {u}
      BY <3>5
    <3>. QED
      BY <3>6, FS_Singleton
  <2>6. ASSUME NEW x \in tree
        PROVE  LET chain == Chain(disk, x.item.first)
               IN  /\ chain # <<>> => disk.fat[Last(chain)] = END_OF_CHAIN
                   /\ x.item.first # 0 => chain # <<>>
                   /\ IF x.item.kind = "dir" THEN chain # <<>>
                      ELSE Len(chain) = (x.item.size + CLUSTER - 1) \div CLUSTER
    <3>. DEFINE chain == Chain(disk, x.item.first)
    <3>1. x.pos \in AllRefs(disk) /\ x.item = At(disk, x.pos) /\ x.item \in Items
      BY <2>3, <2>4, AllRefIs DEF Stands
    <3>2. IsChain(disk, x.item.first, chain) /\ (x.item.kind = "dir" => x.item.first \in Clusters)
      BY <2>4, <3>1 DEF Chained, HasChain
    <3>3. x.item.first \in Clusters \cup {0} /\ x.item.kind \in {"file", "dir"}
      BY <3>1, Kinds
    <3>4. x.item.kind = "file" => Len(chain) = (x.item.size + CLUSTER - 1) \div CLUSTER
      BY <2>2, <3>1 DEF Sized
    <3>. HIDE DEF chain
    <3>5. chain # <<>> => disk.fat[Last(chain)] = END_OF_CHAIN
      BY <3>2 DEF IsChain, Last
    <3>6. x.item.first \in Clusters => chain # <<>>
      BY <3>2 DEF IsChain
    <3>7. /\ chain # <<>> => disk.fat[Last(chain)] = END_OF_CHAIN
          /\ x.item.first # 0 => chain # <<>>
          /\ IF x.item.kind = "dir" THEN chain # <<>>
             ELSE Len(chain) = (x.item.size + CLUSTER - 1) \div CLUSTER
      BY <3>2, <3>3, <3>4, <3>5, <3>6
    <3>. QED
      BY <3>7 DEF chain
  <2>7. ASSUME NEW dir \in Directories
        PROVE  LET es == Entries(disk, dir)
               IN  \A k \in DOMAIN es : es[k].kind = "lfn" =>
                    \E i \in DOMAIN es : /\ IsItem(es[i])
                                         /\ k \in i - fat16_lfn_count(es, i) .. i - 1
    <3>1. Sound(disk, {}) /\ dir \in Tops(disk)
      BY <2>2
    <3>. QED
      BY <3>1, NamesOfList, Zenon
  <2>. QED
    BY <2>5, <2>6, <2>7, Zenon
<1>. QED
  BY <1>1, FatInductive, PTL

LEMMA PrefixIs ==
    ASSUME NEW m \in Nat, NEW n \in Nat, m <= n, NEW S,
           NEW s \in [1 .. m -> S], NEW t \in [1 .. n -> S], \A i \in 1 .. m : s[i] = t[i]
    PROVE  IsPrefix(s, t)
<1>1. s \in Seq(S) /\ t \in Seq(S) /\ Len(s) = m /\ Len(t) = n
  OBVIOUS
<1>2. SubSeq(s, 1, m) = [i \in 1 .. m |-> s[i]]
  BY <1>1
<1>3. SubSeq(t, 1, m) = [i \in 1 .. m |-> t[i]]
  BY <1>1
<1>. QED
  BY <1>1, <1>2, <1>3 DEF IsPrefix

(***************************************************************************)
(* A descriptor knows its file all along: one that writes has the item     *)
(* that is on disk, one that reads sees the start of the file, and no      *)
(* position is past the end (fat16_write, fat16_read, fseek of stdio.c).   *)
(***************************************************************************)
THEOREM FilesKnown == ASSUME Careful PROVE Spec => []DescriptorsCurrent
<1>1. FatInv => DescriptorsCurrent
  <2>1. SUFFICES ASSUME FatInv, NEW f \in Descs, OpenFile(f)
                 PROVE  LET item == At(disk, descs[f].at)
                        IN  /\ item.kind = "file"
                            /\ descs[f].mode # "r" => item = descs[f].item
                            /\ IsPrefix(Content(disk, descs[f].item), Content(disk, item))
                            /\ descs[f].pos <= descs[f].item.size
    BY DEF DescriptorsCurrent, At
  <2>. DEFINE x == descs[f]
              item == At(disk, x.at)
              m == x.item.size
              n == item.size
              s == Content(disk, x.item)
              t == Content(disk, item)
  <2>2. Holds(disk, x) /\ x.mode # "closed" /\ x.item.kind = "file"
    BY <2>1 DEF FatInv, DescsGood, OpenFile
  <2>3. Knows(x, item) /\ x.item \in Items /\ item \in Items
    <3>1. x.at \in AllRefs(disk)
      BY <2>2 DEF Holds
    <3>2. item \in Items
      BY <2>1, <3>1, AllRefIs DEF FatInv, Sound
    <3>. QED
      BY <2>2, <3>2 DEF Holds
  <2>4. m \in Nat /\ n \in Nat
    BY <2>3, Kinds
  <2>5. /\ item.kind = "file" /\ (x.mode # "r" => item = x.item) /\ x.pos <= m
        /\ (x.item.first = 0 /\ m = 0) \/ (x.item.first = item.first /\ m <= n)
    BY <2>3 DEF Knows
  <2>. DEFINE byte(first, i) == disk.bytes[Chain(disk, first)[(i - 1) \div CLUSTER + 1]][(i - 1) % CLUSTER]
              S == {byte(x.item.first, i) : i \in 1 .. m} \cup {byte(item.first, i) : i \in 1 .. n}
  <2>6. s = [i \in 1 .. m |-> byte(x.item.first, i)] /\ t = [i \in 1 .. n |-> byte(item.first, i)]
    BY DEF Content
  <2>. HIDE DEF byte, s, t, x, item
  <2>7. s \in [1 .. m -> S] /\ t \in [1 .. n -> S]
    BY <2>6
  <2>8. m <= n /\ \A i \in 1 .. m : s[i] = t[i]
    <3>1. CASE x.item.first = 0 /\ m = 0
      BY <2>4, <3>1
    <3>2. CASE x.item.first = item.first /\ m <= n
      <4>1. \A i \in 1 .. m : i \in 1 .. n
        BY <2>4, <3>2
      <4>. QED
        BY <2>6, <3>2, <4>1
    <3>. QED
      BY <2>5, <3>1, <3>2
  <2>. HIDE DEF S
  <2>9. IsPrefix(s, t)
    BY <2>4, <2>7, <2>8, PrefixIs
  <2>. QED
    BY <2>5, <2>9 DEF x, item, s, t
<1>. QED
  BY <1>1, FatInductive, PTL
-----------------------------------------------------------------------------
(* The paths of items                                                      *)

(* The path of a directory, and of the item at a position *)
DirPath(d, dir) ==
    IF dir = ROOT THEN <<>>
    ELSE <<NameIn(d, ROOT, CHOOSE q \in Refs(d, ROOT) :
                                At(d, q).kind = "dir" /\ At(d, q).first = dir)>>
PathOf(d, p) ==
    LET dir == CHOOSE y \in Tops(d) : p \in Refs(d, y)
    IN  Append(DirPath(d, dir), NameIn(d, dir, p))

LEMMA OneMore ==
    ASSUME NEW S, NEW s \in Seq(S), Len(s) = 1, NEW b \in S
    PROVE  /\ Append(s, b) \in Seq(S) /\ Len(Append(s, b)) = 2
           /\ Append(s, b)[1] = s[1] /\ Append(s, b)[2] = b
<1>1. Append(s, b) \in Seq(S)
  OBVIOUS
<1>2. Len(Append(s, b)) = 2
  OBVIOUS
<1>3. Append(s, b)[1] = s[1]
  OBVIOUS
<1>4. Append(s, b)[2] = b
  <2>1. Append(s, b)[Len(s) + 1] = b
    BY AppendProperties
  <2>2. Len(s) + 1 = 2
    OBVIOUS
  <2>. QED
    BY <2>1, <2>2, ZenonT(20)
<1>. QED
  BY <1>1, <1>2, <1>3, <1>4

LEMMA TwoNames ==
    ASSUME NEW a, NEW b
    PROVE  Append(<<a>>, b) = <<a, b>> /\ Front(<<a, b>>) = <<a>>
<1>. DEFINE S == {a, b}
            s == <<a>>
            t == <<a, b>>
<1>1. s \in Seq(S) /\ Len(s) = 1 /\ s[1] = a /\ b \in S
  OBVIOUS
<1>2. t \in Seq(S) /\ Len(t) = 2 /\ t[1] = a /\ t[2] = b
  OBVIOUS
<1>. HIDE DEF S, s, t
<1>3. /\ Append(s, b) \in Seq(S) /\ Len(Append(s, b)) = 2
      /\ Append(s, b)[1] = a /\ Append(s, b)[2] = b
  BY <1>1, OneMore
<1>4. \A i \in 1 .. 2 : Append(s, b)[i] = t[i]
  BY <1>2, <1>3
<1>5. Append(s, b) = t
  BY <1>2, <1>3, <1>4
<1>6. Front(t) \in Seq(S) /\ Len(Front(t)) = 1 /\ Front(t)[1] = a
  BY <1>2 DEF Front
<1>7. \A i \in 1 .. 1 : Front(t)[i] = s[i]
  BY <1>1, <1>6
<1>8. Front(t) = s
  BY <1>1, <1>6, <1>7
<1>. QED
  BY <1>5, <1>8 DEF s, t

LEMMA FirstDiffers ==
    ASSUME NEW d, NEW X, Sound(d, X), NEW p \in AllRefs(d), NEW q \in AllRefs(d),
           At(d, p).first \in Clusters, At(d, q).first = At(d, p).first
    PROVE  p = q
<1>1. At(d, p).first \in Own(d, p) /\ At(d, p).first \in Own(d, q)
  BY OwnIs DEF Sound
<1>. QED
  BY <1>1 DEF Sound, Apart

LEMMA DirPathIs ==
    ASSUME NEW d, NEW X, Sound(d, X), NEW q \in Refs(d, ROOT), At(d, q).kind = "dir"
    PROVE  LET dir == At(d, q).first
           IN  dir \in Tops(d) /\ dir # ROOT /\ DirPath(d, dir) = <<NameIn(d, ROOT, q)>>
<1>. DEFINE dir == At(d, q).first
            r == CHOOSE x \in Refs(d, ROOT) : At(d, x).kind = "dir" /\ At(d, x).first = dir
<1>1. q \in AllRefs(d) /\ dir \in Tops(d)
  BY RootIsDir, RefsIn DEF Tops
<1>2. dir \in Clusters /\ dir # ROOT
  BY <1>1, Limits DEF Sound, Chained
<1>3. r \in Refs(d, ROOT) /\ At(d, r).first = dir
  OBVIOUS
<1>4. DirPath(d, dir) = <<NameIn(d, ROOT, r)>>
  BY <1>2 DEF DirPath
<1>. HIDE DEF r
<1>5. r = q
  BY <1>1, <1>2, <1>3, FirstDiffers, RootIsDir, RefsIn
<1>. QED
  BY <1>1, <1>2, <1>4, <1>5

(* A path has one name in the root directory, and two below it. *)
LEMMA PathIs ==
    ASSUME NEW d, NEW X, Sound(d, X), NEW dir \in Tops(d), NEW p \in Refs(d, dir)
    PROVE  /\ PathOf(d, p) = Append(DirPath(d, dir), NameIn(d, dir, p))
           /\ dir = ROOT => PathOf(d, p) = <<NameIn(d, ROOT, p)>>
           /\ dir # ROOT => \E q \in Refs(d, ROOT) :
                /\ At(d, q).kind = "dir" /\ At(d, q).first = dir
                /\ PathOf(d, p) = <<NameIn(d, ROOT, q), NameIn(d, dir, p)>>
<1>. DEFINE y == CHOOSE z \in Tops(d) : p \in Refs(d, z)
<1>1. DiskShape(d) /\ Chained(d) /\ Apart(d)
  BY DEF Sound
<1>2. y \in Tops(d) /\ p \in Refs(d, y)
  OBVIOUS
<1>3. y = dir
  <2>. HIDE DEF y
  <2>1. p \in Places(d, y) /\ p \in Places(d, dir)
    BY <1>2 DEF Refs
  <2>. QED
    BY <1>1, <1>2, <2>1, PlacesApart
<1>4. PathOf(d, p) = Append(DirPath(d, dir), NameIn(d, dir, p))
  BY <1>3 DEF PathOf
<1>5. dir = ROOT => PathOf(d, p) = <<NameIn(d, ROOT, p)>>
  BY <1>4 DEF DirPath
<1>6. ASSUME dir # ROOT
      PROVE  \E q \in Refs(d, ROOT) :
                /\ At(d, q).kind = "dir" /\ At(d, q).first = dir
                /\ PathOf(d, p) = <<NameIn(d, ROOT, q), NameIn(d, dir, p)>>
  <2>1. PICK q \in Refs(d, ROOT) : At(d, q).kind = "dir" /\ At(d, q).first = dir
    BY <1>1, <1>6, TopIs
  <2>2. DirPath(d, dir) = <<NameIn(d, ROOT, q)>>
    BY <2>1, DirPathIs
  <2>3. Append(<<NameIn(d, ROOT, q)>>, NameIn(d, dir, p)) = <<NameIn(d, ROOT, q), NameIn(d, dir, p)>>
    BY TwoNames
  <2>. QED
    BY <1>4, <2>1, <2>2, <2>3
<1>. QED
  BY <1>4, <1>5, <1>6

(* These are the paths of the tree. *)
LEMMA ListedPaths ==
    ASSUME NEW d, NEW X, Sound(d, X), NEW dir \in Tops(d), NEW prefix, NEW x \in Listed(d, dir, prefix)
    PROVE  x.path = Append(prefix, NameIn(d, dir, x.pos))
<1>. DEFINE es == Entries(d, dir)
            pos == Positions(d, dir)
            s == Stored(d, dir)
            I == {k \in DOMAIN es : IsItem(es[k])}
            rec(i) == [path |-> Append(prefix, fat16_get_item_name(es, i)), pos |-> pos[i], item |-> es[i]]
<1>1. PICK i \in I : x = rec(i)
  BY DEF Listed
<1>2. x.path = Append(prefix, fat16_get_item_name(es, i)) /\ x.pos = pos[i]
  BY <1>1
<1>3. DiskShape(d) /\ IsDir(d, dir)
  BY TopIs DEF Sound
<1>4. /\ DOMAIN es = 1 .. Len(es) /\ Len(s) \in Nat /\ Len(es) \in 0 .. Len(s)
      /\ \A k \in 1 .. Len(es) : fat16_get_item_name(es, k) = fat16_get_item_name(s, k)
  BY ListNames
<1>. HIDE DEF es, s, pos
<1>5. i \in 1 .. Len(es) /\ i \in 1 .. Len(s)
  BY <1>4
<1>6. NameIn(d, dir, pos[i]) = fat16_get_item_name(s, i)
  BY <1>3, <1>5, NameIs DEF pos, s
<1>. QED
  BY <1>2, <1>4, <1>5, <1>6

LEMMA TreePaths ==
    ASSUME NEW d, NEW X, Sound(d, X), NEW x \in Tree(d)
    PROVE  x.path = PathOf(d, x.pos)
<1>. DEFINE top == Listed(d, ROOT, <<>>)
            dirs == {y \in top : y.item.kind = "dir"}
            in(y) == Listed(d, y.item.first, y.path)
<1>1. ROOT \in Tops(d)
  BY RootIsDir
<1>2. \A y \in top : y.path = <<NameIn(d, ROOT, y.pos)>> /\ y.pos \in Refs(d, ROOT)
                     /\ y.item = At(d, y.pos)
  <2>1. SUFFICES ASSUME NEW y \in top
                 PROVE  y.path = <<NameIn(d, ROOT, y.pos)>> /\ y.pos \in Refs(d, ROOT)
                        /\ y.item = At(d, y.pos)
    OBVIOUS
  <2>2. y.path = Append(<<>>, NameIn(d, ROOT, y.pos))
    BY <1>1, ListedPaths
  <2>3. y.pos \in Refs(d, ROOT) /\ y.item = At(d, y.pos)
    BY <1>1, ListedIs DEF Stands
  <2>. QED
    BY <2>2, <2>3
<1>3. CASE x \in top
  BY <1>1, <1>2, <1>3, PathIs
<1>4. CASE \E y \in dirs : x \in in(y)
  <2>1. PICK y \in dirs : x \in in(y)
    BY <1>4
  <2>. DEFINE dir == y.item.first
  <2>2. y.path = <<NameIn(d, ROOT, y.pos)>> /\ y.pos \in Refs(d, ROOT)
        /\ y.item = At(d, y.pos) /\ y.item.kind = "dir"
    BY <1>2
  <2>3. dir \in Tops(d) /\ dir # ROOT /\ DirPath(d, dir) = y.path
    BY <2>2, DirPathIs
  <2>4. x \in Listed(d, dir, y.path)
    BY <2>1
  <2>. HIDE DEF dir
  <2>5. x.path = Append(y.path, NameIn(d, dir, x.pos)) /\ x.pos \in Refs(d, dir)
    BY <2>3, <2>4, ListedPaths, ListedIs DEF Stands
  <2>. QED
    BY <2>3, <2>5, PathIs
<1>. QED
  BY <1>3, <1>4 DEF Tree

(* A name stands for one item of a directory, a path for one of the tree. *)
LEMMA NamesApart ==
    ASSUME NEW d, NEW X, Sound(d, X), NEW dir \in Tops(d), NEW p \in Refs(d, dir),
           NEW q \in Refs(d, dir), NameIn(d, dir, p) = NameIn(d, dir, q)
    PROVE  p = q
<1>. DEFINE s == Stored(d, dir)
            pos == Positions(d, dir)
<1>1. DiskShape(d) /\ IsDir(d, dir) /\ NamesDiffer(s)
  BY TopIs DEF Sound, DirsGood, GoodDir
<1>2. Numbered(d, dir, s, pos)
  BY <1>1, RefIndex
<1>3. PICK i \in 1 .. Len(s) : pos[i] = p
  BY <1>2 DEF Numbered
<1>4. PICK j \in 1 .. Len(s) : pos[j] = q
  BY <1>2 DEF Numbered
<1>5. NameIn(d, dir, p) = fat16_get_item_name(s, i) /\ NameIn(d, dir, q) = fat16_get_item_name(s, j)
  BY <1>1, <1>3, <1>4, NameIs
<1>6. IsItem(s[i]) /\ IsItem(s[j])
  BY <1>2, <1>3, <1>4 DEF Numbered
<1>. HIDE DEF s, pos
<1>7. i = j
  BY <1>1, <1>5, <1>6 DEF NamesDiffer
<1>. QED
  BY <1>3, <1>4, <1>7

LEMMA PathsDiffer ==
    ASSUME NEW d, NEW X, Sound(d, X), NEW p \in AllRefs(d), NEW q \in AllRefs(d),
           PathOf(d, p) = PathOf(d, q)
    PROVE  p = q
<1>1. PICK x \in Tops(d) : p \in Refs(d, x)
  BY DEF AllRefs
<1>2. PICK y \in Tops(d) : q \in Refs(d, y)
  BY DEF AllRefs
<1>3. ROOT \in Tops(d)
  BY RootIsDir
<1>9. ASSUME NEW a, NEW b, <<a>> = <<b>> PROVE a = b
  <2>1. <<a>>[1] = <<b>>[1]
    BY <1>9
  <2>. QED
    BY <2>1
<1>10. ASSUME NEW a, NEW b, NEW m, NEW n, <<a, m>> = <<b, n>> PROVE a = b /\ m = n
  <2>1. <<a, m>>[1] = <<b, n>>[1] /\ <<a, m>>[2] = <<b, n>>[2]
    BY <1>10
  <2>. QED
    BY <2>1
<1>4. CASE x = ROOT /\ y = ROOT
  <2>1. PathOf(d, p) = <<NameIn(d, ROOT, p)>> /\ PathOf(d, q) = <<NameIn(d, ROOT, q)>>
    BY <1>1, <1>2, <1>4, PathIs
  <2>2. NameIn(d, ROOT, p) = NameIn(d, ROOT, q)
    BY <2>1, <1>9
  <2>. QED
    BY <1>1, <1>2, <1>3, <1>4, <2>2, NamesApart
<1>5. ASSUME NEW a, NEW b, NEW c PROVE <<a>> # <<b, c>>
  OBVIOUS
<1>6. CASE x = ROOT /\ y # ROOT
  BY <1>1, <1>2, <1>5, <1>6, PathIs
<1>7. CASE x # ROOT /\ y = ROOT
  BY <1>1, <1>2, <1>5, <1>7, PathIs
<1>8. CASE x # ROOT /\ y # ROOT
  <2>1. PICK v \in Refs(d, ROOT) :
            At(d, v).first = x /\ PathOf(d, p) = <<NameIn(d, ROOT, v), NameIn(d, x, p)>>
    BY <1>1, <1>8, PathIs
  <2>2. PICK w \in Refs(d, ROOT) :
            At(d, w).first = y /\ PathOf(d, q) = <<NameIn(d, ROOT, w), NameIn(d, y, q)>>
    BY <1>2, <1>8, PathIs
  <2>3. NameIn(d, ROOT, v) = NameIn(d, ROOT, w) /\ NameIn(d, x, p) = NameIn(d, y, q)
    <3>1. <<NameIn(d, ROOT, v), NameIn(d, x, p)>> = <<NameIn(d, ROOT, w), NameIn(d, y, q)>>
      BY <2>1, <2>2
    <3>. QED
      BY <1>10, <3>1
  <2>4. v = w
    BY <1>3, <2>3, NamesApart
  <2>. QED
    BY <1>1, <1>2, <2>1, <2>2, <2>3, <2>4, NamesApart
<1>. QED
  BY <1>4, <1>6, <1>7, <1>8

(* An item that stays where it is keeps its path, when no directory that   *)
(* stays changes.                                                          *)
DirsStay(d, e) ==
    /\ \A q \in AllRefs(d) \cap AllRefs(e) :
        At(e, q).kind = At(d, q).kind /\ (At(d, q).kind = "dir" => At(e, q).first = At(d, q).first)
    /\ AllRefs(d) \subseteq AllRefs(e) \/ AllRefs(e) \subseteq AllRefs(d)
LEMMA PathStays ==
    ASSUME NEW d, NEW X, Sound(d, X), NEW e, NEW Y, Sound(e, Y), Follows(d, e), DirsStay(d, e),
           NEW p \in AllRefs(d), p \in AllRefs(e)
    PROVE  PathOf(e, p) = PathOf(d, p)
<1>1. PICK dir \in Tops(d) : p \in Refs(d, dir)
  BY DEF AllRefs
<1>2. dir \in Tops(e) /\ p \in Refs(e, dir) /\ NameIn(e, dir, p) = NameIn(d, dir, p)
  BY <1>1 DEF Follows
<1>3. ROOT \in Tops(d) /\ ROOT \in Tops(e)
  BY RootIsDir
<1>4. CASE dir = ROOT
  BY <1>1, <1>2, <1>4, PathIs
<1>5. CASE dir # ROOT
  <2>1. PICK q \in Refs(d, ROOT) :
            /\ At(d, q).kind = "dir" /\ At(d, q).first = dir
            /\ PathOf(d, p) = <<NameIn(d, ROOT, q), NameIn(d, dir, p)>>
    BY <1>1, <1>5, PathIs
  <2>2. PICK r \in Refs(e, ROOT) :
            /\ At(e, r).kind = "dir" /\ At(e, r).first = dir
            /\ PathOf(e, p) = <<NameIn(e, ROOT, r), NameIn(e, dir, p)>>
    BY <1>2, <1>5, PathIs
  <2>3. q \in AllRefs(d) /\ r \in AllRefs(e) /\ dir \in Clusters
    BY <1>1, <1>3, <1>5, RefsIn, TopIs DEF Sound
  <2>4. q = r
    <3>1. CASE q \in AllRefs(e)
      <4>1. At(e, q).first = dir
        BY <2>1, <2>3, <3>1 DEF DirsStay
      <4>. QED
        BY <2>2, <2>3, <3>1, <4>1, FirstDiffers
    <3>2. CASE r \in AllRefs(d)
      <4>1. At(d, r).kind = "dir" /\ At(d, r).first = dir
        BY <2>2, <2>3, <3>2 DEF DirsStay
      <4>. QED
        BY <2>1, <2>3, <3>2, <4>1, FirstDiffers
    <3>. QED
      BY <2>3, <3>1, <3>2 DEF DirsStay
  <2>5. NameIn(e, ROOT, q) = NameIn(d, ROOT, q)
    BY <1>3, <2>3, <2>4 DEF Follows
  <2>. QED
    BY <1>2, <2>1, <2>2, <2>4, <2>5
<1>. QED
  BY <1>4, <1>5

-----------------------------------------------------------------------------
(* The bytes of files                                                      *)

BytesOf(d) == {d.bytes[c][o] : c \in Clusters, o \in 0 .. CLUSTER - 1}

(* Byte i of a file is in the cluster of its chain that the size says. *)
InChain(i, n) ==
    /\ (i - 1) \div CLUSTER + 1 \in 1 .. n /\ (i - 1) % CLUSTER \in 0 .. CLUSTER - 1
    /\ i - 1 = CLUSTER * ((i - 1) \div CLUSTER) + ((i - 1) % CLUSTER)
LEMMA ByteInChain ==
    ASSUME NEW size \in Nat, NEW n, n = (size + CLUSTER - 1) \div CLUSTER, NEW i \in 1 .. size
    PROVE  InChain(i, n)
<1>1. CLUSTER \in Nat \ {0}
  BY FatAssumption
<1>2. n \in Nat /\ CLUSTER * n \in Nat /\ size <= CLUSTER * n
  BY <1>1, SizeFits
<1>3. i - 1 \in 0 .. CLUSTER * n - 1
  BY <1>2
<1>4. /\ (i - 1) \div CLUSTER \in 0 .. n - 1 /\ (i - 1) % CLUSTER \in 0 .. CLUSTER - 1
      /\ i - 1 = CLUSTER * ((i - 1) \div CLUSTER) + ((i - 1) % CLUSTER)
  BY <1>1, <1>2, <1>3, DivModOf
<1>. QED
  BY <1>2, <1>4 DEF InChain

ByteAt(d, t, i) == d.bytes[t[(i - 1) \div CLUSTER + 1]][(i - 1) % CLUSTER]
LEMMA ContentIs ==
    ASSUME NEW d, NEW item \in Items, HasChain(d, item.first),
           NEW t, t = Chain(d, item.first), Len(t) = (item.size + CLUSTER - 1) \div CLUSTER
    PROVE  /\ Content(d, item) \in Seq(BytesOf(d)) /\ Len(Content(d, item)) = item.size
           /\ Content(d, item) = [i \in 1 .. item.size |-> ByteAt(d, t, i)]
           /\ \A i \in 1 .. item.size : /\ Content(d, item)[i] = ByteAt(d, t, i)
                                        /\ InChain(i, Len(t))
                                        /\ t[(i - 1) \div CLUSTER + 1] \in Range(t)
<1>. DEFINE b == Content(d, item)
            n == item.size
<1>1. n \in Nat /\ t \in Seq(Clusters)
  BY Kinds DEF HasChain, IsChain
<1>2. b = [i \in 1 .. n |-> ByteAt(d, t, i)]
  BY DEF Content, ByteAt
<1>3. \A i \in 1 .. n : InChain(i, Len(t))
  BY <1>1, ByteInChain
<1>4. \A i \in 1 .. n : t[(i - 1) \div CLUSTER + 1] \in Clusters \cap Range(t)
  <2>1. ASSUME NEW i \in 1 .. n PROVE t[(i - 1) \div CLUSTER + 1] \in Clusters \cap Range(t)
    <3>1. (i - 1) \div CLUSTER + 1 \in 1 .. Len(t)
      BY <1>3 DEF InChain
    <3>. QED
      BY <1>1, <3>1, InRange
  <2>. QED
    BY <2>1
<1>5. \A i \in 1 .. n : ByteAt(d, t, i) \in BytesOf(d)
  BY <1>3, <1>4 DEF ByteAt, BytesOf, InChain
<1>. HIDE DEF b, n
<1>6. b \in [1 .. n -> BytesOf(d)]
  BY <1>2, <1>5
<1>7. b \in Seq(BytesOf(d)) /\ Len(b) = n
  BY <1>1, <1>6
<1>. QED
  BY <1>2, <1>3, <1>4, <1>7 DEF b, n

(* The same bytes in the same clusters are the same file. *)
SameRow(d, e, c) == \A o \in 0 .. CLUSTER - 1 : e.bytes[c][o] = d.bytes[c][o]
LEMMA ContentStays ==
    ASSUME NEW d, NEW item \in Items, HasChain(d, item.first),
           Len(Chain(d, item.first)) = (item.size + CLUSTER - 1) \div CLUSTER,
           NEW e, Chain(e, item.first) = Chain(d, item.first),
           \A c \in Range(Chain(d, item.first)) : SameRow(d, e, c)
    PROVE  Content(e, item) = Content(d, item)
<1>. DEFINE t == Chain(d, item.first)
            n == item.size
<1>1. Content(d, item) = [i \in 1 .. n |-> ByteAt(d, t, i)]
  BY DEF Content, ByteAt
<1>2. Content(e, item) = [i \in 1 .. n |-> ByteAt(e, t, i)]
  BY DEF Content, ByteAt
<1>3. \A i \in 1 .. n : ByteAt(e, t, i) = ByteAt(d, t, i)
  <2>1. ASSUME NEW i \in 1 .. n PROVE ByteAt(e, t, i) = ByteAt(d, t, i)
    <3>1. t[(i - 1) \div CLUSTER + 1] \in Range(t) /\ (i - 1) % CLUSTER \in 0 .. CLUSTER - 1
      BY ContentIs DEF InChain
    <3>. QED
      BY <3>1 DEF ByteAt, SameRow
  <2>. QED
    BY <2>1
<1>. HIDE DEF t, n
<1>. QED
  BY <1>1, <1>2, <1>3

(* No file looks like a directory. *)
LEMMA FileIsNoDir ==
    ASSUME NEW d, Plain(d), NEW item \in Items, HasChain(d, item.first),
           Len(Chain(d, item.first)) = (item.size + CLUSTER - 1) \div CLUSTER
    PROVE  Content(d, item) # <<ERROR>>
<1>1. Content(d, item) \in Seq(BytesOf(d))
  BY ContentIs
<1>2. ERROR \notin BytesOf(d)
  BY DEF Plain, BytesOf
<1>3. <<ERROR>>[1] = ERROR /\ Len(<<ERROR>>) = 1
  OBVIOUS
<1>4. SUFFICES ASSUME Content(d, item) = <<ERROR>> PROVE FALSE
  OBVIOUS
<1>. QED
  BY <1>1, <1>2, <1>3, <1>4

-----------------------------------------------------------------------------
(* The store of FileStore                                                  *)

DataOf(d, p) == IF At(d, p).kind = "dir" THEN <<ERROR>> ELSE Content(d, At(d, p))
FileAt(d, p) == [path |-> PathOf(d, p), data |-> DataOf(d, p)]
FilesIn(d) == {FileAt(d, p) : p \in AllRefs(d)}
Used(ds) == {f \in Descs : ds[f].mode # "closed"}
OpenAt(d, x, f) == [desc |-> f, pos |-> x.pos, path |-> PathOf(d, x.at)]
OpenIn(d, ds) == {OpenAt(d, ds[f], f) : f \in Used(ds)}
StoreAs(d, ds) == [files |-> FilesIn(d), open |-> OpenIn(d, ds)]

LEMMA StoreIs ==
    ASSUME NEW d, NEW X, Sound(d, X), NEW ds, \A f \in Used(ds) : ds[f].at \in AllRefs(d)
    PROVE  StoreOf(d, ds) = StoreAs(d, ds)
<1>. DEFINE tree == Tree(d)
            data(x) == IF x.item.kind = "dir" THEN <<ERROR>> ELSE Content(d, x.item)
            file(x) == [path |-> x.path, data |-> data(x)]
            path(f) == (CHOOSE x \in tree : x.pos = ds[f].at).path
<1>1. Stands(tree, AllRefs(d), d)
  BY TreeIs
<1>2. \A x \in tree : x.path = PathOf(d, x.pos)
  BY TreePaths
<1>. HIDE DEF tree
<1>3. \A x \in tree : x.pos \in AllRefs(d) /\ x.item = At(d, x.pos)
  BY <1>1 DEF Stands
<1>4. \A x \in tree : file(x) = FileAt(d, x.pos)
  BY <1>2, <1>3 DEF FileAt, DataOf
<1>5. \A p \in AllRefs(d) : \E x \in tree : x.pos = p
  BY <1>1 DEF Stands
<1>. HIDE DEF file
<1>6. {file(x) : x \in tree} = FilesIn(d)
  <2>1. ASSUME NEW x \in tree PROVE file(x) \in FilesIn(d)
    BY <1>3, <1>4 DEF FilesIn
  <2>2. ASSUME NEW p \in AllRefs(d) PROVE \E x \in tree : FileAt(d, p) = file(x)
    <3>1. PICK x \in tree : x.pos = p
      BY <1>5
    <3>. QED
      BY <1>4, <3>1
  <2>. QED
    BY <2>1, <2>2 DEF FilesIn
<1>7. \A f \in Used(ds) : path(f) = PathOf(d, ds[f].at)
  <2>1. ASSUME NEW f \in Used(ds) PROVE path(f) = PathOf(d, ds[f].at)
    <3>. DEFINE x == CHOOSE x \in tree : x.pos = ds[f].at
    <3>1. \E y \in tree : y.pos = ds[f].at
      BY <1>5
    <3>2. x \in tree /\ x.pos = ds[f].at
      BY <3>1
    <3>. QED
      BY <1>2, <3>2
  <2>. QED
    BY <2>1
<1>. HIDE DEF path
<1>8. {[desc |-> f, pos |-> ds[f].pos, path |-> path(f)] : f \in Used(ds)} = OpenIn(d, ds)
  BY <1>7 DEF OpenIn, OpenAt
<1>9. StoreOf(d, ds) = [files |-> {file(x) : x \in tree},
                       open |-> {[desc |-> f, pos |-> ds[f].pos, path |-> path(f)] : f \in Used(ds)}]
  BY DEF StoreOf, StoreIn, tree, file, path, Used
<1>. QED
  BY <1>6, <1>8, <1>9 DEF StoreAs

(* What is found under a path *)
LEMMA FileIs ==
    ASSUME NEW d, NEW X, Sound(d, X), NEW p \in AllRefs(d)
    PROVE  /\ FileAt(d, p) \in FilesIn(d) /\ FileAt(d, p).path = PathOf(d, p)
           /\ \A x \in FilesIn(d) : x.path = PathOf(d, p) => x = FileAt(d, p)
           /\ (CHOOSE x \in FilesIn(d) : x.path = PathOf(d, p)).data = DataOf(d, p)
<1>1. FileAt(d, p) \in FilesIn(d) /\ FileAt(d, p).path = PathOf(d, p)
  BY DEF FilesIn, FileAt
<1>2. ASSUME NEW x \in FilesIn(d), x.path = PathOf(d, p) PROVE x = FileAt(d, p)
  <2>1. PICK q \in AllRefs(d) : x = FileAt(d, q)
    BY DEF FilesIn
  <2>2. PathOf(d, q) = PathOf(d, p)
    BY <1>2, <2>1 DEF FileAt
  <2>. QED
    BY <2>1, <2>2, PathsDiffer
<1>3. FileAt(d, p).data = DataOf(d, p)
  BY DEF FileAt
<1>. QED
  BY <1>1, <1>2, <1>3

(* One item that is new, changes or goes is one file that does. *)
Others(d, e, p) ==
    /\ \A q : q # p => (q \in AllRefs(e) <=> q \in AllRefs(d))
    /\ \A q \in AllRefs(d) : q # p => FileAt(e, q) = FileAt(d, q)
LEMMA FileWritten ==
    ASSUME NEW d, NEW X, Sound(d, X), NEW e, NEW Y, Sound(e, Y), NEW p \in AllRefs(e),
           Others(d, e, p), p \in AllRefs(d) => PathOf(e, p) = PathOf(d, p)
    PROVE  FilesIn(e) = {x \in FilesIn(d) : x.path # PathOf(e, p)} \cup {FileAt(e, p)}
<1>1. ASSUME NEW q \in AllRefs(e), q # p
      PROVE  FileAt(e, q) \in FilesIn(d) /\ FileAt(e, q).path # PathOf(e, p)
  <2>1. PathOf(e, q) # PathOf(e, p)
    BY <1>1, PathsDiffer
  <2>2. q \in AllRefs(d) /\ FileAt(e, q) = FileAt(d, q)
    BY <1>1 DEF Others
  <2>. QED
    BY <2>1, <2>2 DEF FilesIn, FileAt
<1>2. ASSUME NEW q \in AllRefs(d), FileAt(d, q).path # PathOf(e, p)
      PROVE  FileAt(d, q) \in FilesIn(e)
  <2>1. q # p
    BY <1>2 DEF FileAt
  <2>2. q \in AllRefs(e) /\ FileAt(e, q) = FileAt(d, q)
    BY <2>1 DEF Others
  <2>. QED
    BY <2>2 DEF FilesIn
<1>3. FileAt(e, p) \in FilesIn(e)
  BY DEF FilesIn
<1>. QED
  BY <1>1, <1>2, <1>3 DEF FilesIn

LEMMA FileDropped ==
    ASSUME NEW d, NEW X, Sound(d, X), NEW e, NEW p \in AllRefs(d), p \notin AllRefs(e),
           Others(d, e, p)
    PROVE  FilesIn(e) = {x \in FilesIn(d) : x.path # PathOf(d, p)}
<1>1. ASSUME NEW q \in AllRefs(e)
      PROVE  FileAt(e, q) \in FilesIn(d) /\ FileAt(e, q).path # PathOf(d, p)
  <2>1. q # p /\ q \in AllRefs(d) /\ FileAt(e, q) = FileAt(d, q)
    BY DEF Others
  <2>2. PathOf(d, q) # PathOf(d, p)
    BY <2>1, PathsDiffer
  <2>. QED
    BY <2>1, <2>2 DEF FilesIn, FileAt
<1>2. ASSUME NEW q \in AllRefs(d), FileAt(d, q).path # PathOf(d, p)
      PROVE  FileAt(d, q) \in FilesIn(e)
  <2>1. q # p
    BY <1>2 DEF FileAt
  <2>2. q \in AllRefs(e) /\ FileAt(e, q) = FileAt(d, q)
    BY <2>1 DEF Others
  <2>. QED
    BY <2>2 DEF FilesIn
<1>. QED
  BY <1>1, <1>2 DEF FilesIn

(* What a call does to the item at p, it does to no other. *)
Changes(d, e, p) ==
    /\ \A q : q # p => (q \in AllRefs(e) <=> q \in AllRefs(d))
    /\ \A q \in AllRefs(d) : q # p =>
        /\ At(e, q) = At(d, q)
        /\ At(d, q).kind = "file" =>
            /\ Chain(e, At(d, q).first) = Chain(d, At(d, q).first)
            /\ \A c \in Own(d, q) : SameRow(d, e, c)
    /\ p \in AllRefs(d) /\ p \in AllRefs(e) => At(d, p).kind = "file" /\ At(e, p).kind = "file"
    /\ Follows(d, e)

LEMMA DataStays ==
    ASSUME NEW d, NEW X, Sound(d, X), Sized(d), NEW e, NEW q \in AllRefs(d),
           At(e, q) = At(d, q),
           At(d, q).kind = "file" => /\ Chain(e, At(d, q).first) = Chain(d, At(d, q).first)
                                     /\ \A c \in Own(d, q) : SameRow(d, e, c)
    PROVE  DataOf(e, q) = DataOf(d, q)
<1>1. At(d, q) \in Items /\ HasChain(d, At(d, q).first)
  BY AllRefIs DEF Sound, Chained
<1>2. CASE At(d, q).kind = "dir"
  BY <1>2 DEF DataOf
<1>3. CASE At(d, q).kind = "file"
  <2>1. Len(Chain(d, At(d, q).first)) = (At(d, q).size + CLUSTER - 1) \div CLUSTER
    BY <1>3 DEF Sized
  <2>2. Content(e, At(d, q)) = Content(d, At(d, q))
    BY <1>1, <1>3, <2>1, ContentStays DEF Own
  <2>. QED
    BY <1>3, <2>2 DEF DataOf
<1>. QED
  BY <1>1, <1>2, <1>3, Kinds

LEMMA ChangesOne ==
    ASSUME NEW d, NEW X, Sound(d, X), Sized(d), NEW e, NEW Y, Sound(e, Y), NEW p, Changes(d, e, p)
    PROVE  /\ Others(d, e, p)
           /\ \A q \in AllRefs(d) : q \in AllRefs(e) => PathOf(e, q) = PathOf(d, q)
<1>1. DirsStay(d, e)
  <2>1. ASSUME NEW q \in AllRefs(d) \cap AllRefs(e)
        PROVE  /\ At(e, q).kind = At(d, q).kind
               /\ At(d, q).kind = "dir" => At(e, q).first = At(d, q).first
    <3>1. CASE q = p
      BY <3>1 DEF Changes
    <3>2. CASE q # p
      BY <3>2 DEF Changes
    <3>. QED
      BY <3>1, <3>2
  <2>2. AllRefs(d) \subseteq AllRefs(e) \/ AllRefs(e) \subseteq AllRefs(d)
    BY DEF Changes
  <2>. QED
    BY <2>1, <2>2 DEF DirsStay
<1>2. ASSUME NEW q \in AllRefs(d), q \in AllRefs(e) PROVE PathOf(e, q) = PathOf(d, q)
  BY <1>1, <1>2, PathStays DEF Changes
<1>3. ASSUME NEW q \in AllRefs(d), q # p PROVE FileAt(e, q) = FileAt(d, q)
  <2>1. q \in AllRefs(e)
    BY <1>3 DEF Changes
  <2>2. DataOf(e, q) = DataOf(d, q)
    BY <1>3, DataStays DEF Changes
  <2>. QED
    BY <1>2, <2>1, <2>2 DEF FileAt
<1>. QED
  BY <1>2, <1>3 DEF Others, Changes

(* The descriptors of items that stay *)
LEMMA OpenStays ==
    ASSUME NEW d, NEW e, NEW ds,
           \A f \in Used(ds) : PathOf(e, ds[f].at) = PathOf(d, ds[f].at)
    PROVE  OpenIn(e, ds) = OpenIn(d, ds)
<1>1. \A f \in Used(ds) : OpenAt(e, ds[f], f) = OpenAt(d, ds[f], f)
  BY DEF OpenAt
<1>. QED
  BY <1>1 DEF OpenIn

(* The kinds of calls *)
LEMMA IntactRows ==
    ASSUME NEW d, NEW e, Intact(d, e), NEW q \in AllRefs(d), At(d, q).kind = "file"
    PROVE  \A c \in Own(d, q) : SameRow(d, e, c)
BY DEF Intact, SameRow

LEMMA KeepsStore ==
    ASSUME NEW d, NEW X, Sound(d, X), Sized(d), NEW e, NEW Y, Sound(e, Y), Keeps(d, e),
           NEW ds, \A f \in Used(ds) : ds[f].at \in AllRefs(d)
    PROVE  StoreAs(e, ds) = StoreAs(d, ds)
<1>1. NoPos \notin AllRefs(d)
  <2>1. SUFFICES ASSUME NoPos \in AllRefs(d) PROVE FALSE
    OBVIOUS
  <2>2. NoPos \in Cells
    BY <2>1, AllRefIs DEF Sound
  <2>3. NoPos[1] \in Clusters \cup {ROOT}
    BY <2>2 DEF Cells
  <2>. QED
    BY <2>3, Limits DEF NoPos, ERROR, ROOT, Clusters
<1>2. Changes(d, e, NoPos)
  BY <1>1, IntactRows DEF Keeps, Changes, Intact
<1>3. AllRefs(e) = AllRefs(d)
  BY DEF Keeps
<1>4. /\ \A q \in AllRefs(d) : PathOf(e, q) = PathOf(d, q)
      /\ \A q \in AllRefs(d) : FileAt(e, q) = FileAt(d, q)
  BY <1>1, <1>2, <1>3, ChangesOne DEF Others
<1>5. FilesIn(e) = FilesIn(d)
  BY <1>3, <1>4 DEF FilesIn
<1>6. OpenIn(e, ds) = OpenIn(d, ds)
  BY <1>4, OpenStays
<1>. QED
  BY <1>5, <1>6 DEF StoreAs

LEMMA MakesChanges ==
    ASSUME NEW d, NEW e, NEW dir, NEW name, NEW kind, NEW p, NEW first,
           Makes(d, e, dir, name, kind, p, first)
    PROVE  Changes(d, e, p) /\ p \in AllRefs(e) /\ p \notin AllRefs(d)
<1>1. Intact(d, e) /\ AddsItem(d, e, p, At(e, p))
  BY DEF Makes, AddsItem
<1>2. \A q \in AllRefs(d) : At(d, q).kind = "file" => \A c \in Own(d, q) : SameRow(d, e, c)
  BY <1>1, IntactRows
<1>. QED
  BY <1>1, <1>2 DEF AddsItem, Changes, Intact

LEMMA DropsChanges ==
    ASSUME NEW d, NEW e, NEW p, Drops(d, e, p)
    PROVE  Changes(d, e, p) /\ p \in AllRefs(d) /\ p \notin AllRefs(e)
<1>1. \A c : SameRow(d, e, c)
  BY DEF Drops, SameRow
<1>. QED
  BY <1>1 DEF Drops, Changes

LEMMA CutsChanges ==
    ASSUME NEW d, NEW e, NEW p \in AllRefs(d), Cuts(d, e, p),
           At(d, p).kind = "file", At(d, p) \in Items
    PROVE  Changes(d, e, p) /\ p \in AllRefs(e) /\ DataOf(e, p) = <<>>
<1>1. \A c : SameRow(d, e, c)
  BY DEF Cuts, SameRow
<1>2. At(e, p).kind = "file" /\ At(e, p).size = 0
  BY DEF Cuts, Cut, Items
<1>3. Content(e, At(e, p)) = <<>>
  BY <1>2 DEF Content
<1>. QED
  BY <1>1, <1>2, <1>3 DEF Cuts, Changes, DataOf

(* Calls that open, move and close a descriptor *)
LEMMA OpenedStore ==
    ASSUME NEW d, NEW F, descs \in [Descs -> Records], NEW mode \in {"r", "w", "a"}, NEW item,
           NEW k, NEW at, Opens(mode, item, k, at)
    PROVE  [files |-> F, open |-> OpenIn(d, descs')] \in
                Store!Opened([files |-> F, open |-> OpenIn(d, descs)], PathOf(d, at), k)
<1>. DEFINE s == [files |-> F, open |-> OpenIn(d, descs)]
            t == [files |-> F, open |-> OpenIn(d, descs')]
            new(f) == [desc |-> f, path |-> PathOf(d, at), pos |-> k]
            more(f) == [s EXCEPT !.open = @ \cup {new(f)}]
<1>1. Store!Opened(s, PathOf(d, at), k) =
        {s} \cup {more(f) : f \in Descs \ {o.desc : o \in s.open}}
  BY DEF Store!Opened
<1>2. CASE UNCHANGED descs
  BY <1>1, <1>2
<1>3. CASE \E f \in Descs : /\ descs[f].mode = "closed"
                            /\ descs' = [descs EXCEPT ![f] =
                                [mode |-> mode, item |-> item, pos |-> k, at |-> at]]
  <2>1. PICK f \in Descs : /\ descs[f].mode = "closed"
                           /\ descs' = [descs EXCEPT ![f] =
                                [mode |-> mode, item |-> item, pos |-> k, at |-> at]]
    BY <1>3
  <2>2. /\ descs'[f].mode # "closed" /\ descs'[f].pos = k /\ descs'[f].at = at
        /\ \A g \in Descs : g # f => descs'[g] = descs[g]
    BY <2>1
  <2>3. Used(descs') = Used(descs) \cup {f} /\ f \notin Used(descs)
    BY <2>1, <2>2 DEF Used
  <2>4. OpenAt(d, descs'[f], f) = new(f)
    BY <2>2 DEF OpenAt
  <2>5. \A g \in Used(descs) : OpenAt(d, descs'[g], g) = OpenAt(d, descs[g], g)
    BY <2>2, <2>3 DEF Used
  <2>6. OpenIn(d, descs') = OpenIn(d, descs) \cup {new(f)}
    BY <2>3, <2>4, <2>5 DEF OpenIn
  <2>7. t = more(f)
    <3>1. more(f) = [files |-> F, open |-> OpenIn(d, descs) \cup {new(f)}]
      OBVIOUS
    <3>. QED
      BY <2>6, <3>1
  <2>8. \A o \in OpenIn(d, descs) : o.desc \in Used(descs)
    BY DEF OpenIn, OpenAt
  <2>9. f \in Descs \ {o.desc : o \in s.open}
    BY <2>3, <2>8
  <2>. QED
    BY <1>1, <2>7, <2>9
<1>. QED
  BY <1>2, <1>3 DEF Opens

LEMMA MovedStore ==
    ASSUME NEW d, descs \in [Descs -> Records], NEW f \in Used(descs), NEW y,
           descs' = [descs EXCEPT ![f] = y], y.mode # "closed", y.at = descs[f].at
    PROVE  OpenIn(d, descs') = (OpenIn(d, descs) \ {OpenAt(d, descs[f], f)})
                                \cup {[OpenAt(d, descs[f], f) EXCEPT !.pos = y.pos]}
<1>1. descs'[f] = y /\ \A g \in Descs : g # f => descs'[g] = descs[g]
  BY DEF Used
<1>2. Used(descs') = Used(descs) /\ Used(descs) \subseteq Descs
  BY <1>1 DEF Used
<1>3. OpenAt(d, descs'[f], f) = [OpenAt(d, descs[f], f) EXCEPT !.pos = y.pos]
  BY <1>1 DEF OpenAt
<1>4. \A g \in Used(descs) : g # f =>
        /\ OpenAt(d, descs'[g], g) = OpenAt(d, descs[g], g)
        /\ OpenAt(d, descs[g], g) # OpenAt(d, descs[f], f)
  BY <1>1, <1>2 DEF OpenAt
<1>. HIDE DEF Used
<1>. QED
  BY <1>2, <1>3, <1>4 DEF OpenIn

LEMMA ClosedStore ==
    ASSUME NEW d, descs \in [Descs -> Records], NEW f \in Used(descs),
           descs' = [descs EXCEPT ![f] = Closed]
    PROVE  OpenIn(d, descs') = OpenIn(d, descs) \ {OpenAt(d, descs[f], f)}
<1>1. descs'[f].mode = "closed" /\ \A g \in Descs : g # f => descs'[g] = descs[g]
  BY DEF Used, Closed
<1>2. Used(descs') = Used(descs) \ {f} /\ Used(descs) \subseteq Descs
  BY <1>1 DEF Used
<1>3. \A g \in Used(descs) : g # f =>
        /\ OpenAt(d, descs'[g], g) = OpenAt(d, descs[g], g)
        /\ OpenAt(d, descs[g], g) # OpenAt(d, descs[f], f)
  BY <1>1, <1>2 DEF OpenAt
<1>. QED
  BY <1>2, <1>3 DEF OpenIn

(* Steps of the store *)
StorePaths == {<<Fold(n)>> : n \in Names} \cup {<<Fold(m), Fold(n)>> : m, n \in Names}

PathCalls(s, p) ==
    Store!OpenRead(s, p) \cup Store!OpenWrite(s, p) \cup Store!OpenAppend(s, p)
        \cup Store!Unlink(s, p) \cup Store!Mkdir(s, p)
OpenCalls(s, o) == Store!Write(s, o) \cup Store!Move(s, o) \cup {Store!Closed(s, o)}

LEMMA StepsAre ==
    ASSUME NEW s
    PROVE  /\ UNION {PathCalls(s, q) : q \in StorePaths} \subseteq Store!After(s)
           /\ UNION {OpenCalls(s, x) : x \in s.open} \subseteq Store!After(s)
<1>. DEFINE paths == UNION {PathCalls(s, q) : q \in StorePaths}
            opens == UNION {OpenCalls(s, x) : x \in s.open}
<1>1. Store!After(s) = paths \cup opens
  BY DEF Store!After, StorePaths, PathCalls, OpenCalls
<1>. HIDE DEF paths, opens
<1>2. paths \subseteq Store!After(s) /\ opens \subseteq Store!After(s)
  BY <1>1
<1>. QED
  BY <1>2 DEF paths, opens

LEMMA PathStep ==
    ASSUME NEW s, NEW t, NEW p \in StorePaths,
           \/ t \in Store!OpenRead(s, p) \/ t \in Store!OpenWrite(s, p)
           \/ t \in Store!OpenAppend(s, p) \/ t \in Store!Unlink(s, p)
           \/ t \in Store!Mkdir(s, p)
    PROVE  Store!Step(s, t)
<1>1. t \in PathCalls(s, p)
  BY DEF PathCalls
<1>. DEFINE all == UNION {PathCalls(s, q) : q \in StorePaths}
<1>2. t \in all
  BY <1>1
<1>3. all \subseteq Store!After(s)
  BY StepsAre
<1>. HIDE DEF all
<1>. QED
  BY <1>2, <1>3 DEF Store!Step

LEMMA OpenStep ==
    ASSUME NEW s, NEW t, NEW o \in s.open,
           t \in Store!Write(s, o) \/ t \in Store!Move(s, o) \/ t = Store!Closed(s, o)
    PROVE  Store!Step(s, t)
<1>1. t \in OpenCalls(s, o)
  BY DEF OpenCalls
<1>. DEFINE all == UNION {OpenCalls(s, x) : x \in s.open}
<1>2. t \in all
  BY <1>1
<1>3. all \subseteq Store!After(s)
  BY StepsAre
<1>. HIDE DEF all
<1>. QED
  BY <1>2, <1>3 DEF Store!Step

(* Lookups, writes and removals *)
LEMMA StoreFile ==
    ASSUME NEW d, NEW X, Sound(d, X), Sized(d), Plain(d), NEW ds, NEW p \in AllRefs(d)
    PROVE  LET s == StoreAs(d, ds)
           IN  /\ PathOf(d, p) \in Store!Paths(s) /\ Store!Data(s, PathOf(d, p)) = DataOf(d, p)
               /\ At(d, p).kind = "file" => Store!IsFile(s, PathOf(d, p))
<1>. DEFINE s == StoreAs(d, ds)
<1>1. s.files = FilesIn(d)
  BY DEF StoreAs
<1>. HIDE DEF s
<1>2. PathOf(d, p) \in Store!Paths(s)
  BY <1>1, FileIs DEF Store!Paths
<1>3. Store!Data(s, PathOf(d, p)) = DataOf(d, p)
  BY <1>1, FileIs DEF Store!Data
<1>4. ASSUME At(d, p).kind = "file" PROVE Store!IsFile(s, PathOf(d, p))
  <2>1. At(d, p) \in Items /\ HasChain(d, At(d, p).first)
    BY AllRefIs DEF Sound, Chained
  <2>2. Len(Chain(d, At(d, p).first)) = (At(d, p).size + CLUSTER - 1) \div CLUSTER
    BY <1>4 DEF Sized
  <2>3. DataOf(d, p) # <<ERROR>>
    BY <1>4, <2>1, <2>2, FileIsNoDir DEF DataOf
  <2>. QED
    BY <1>2, <1>3, <2>3 DEF Store!IsFile
<1>. QED
  BY <1>2, <1>3, <1>4 DEF s

LEMMA WithoutIs ==
    ASSUME NEW files, NEW open, NEW path
    PROVE  Store!Without([files |-> files, open |-> open], path)
                = [files |-> {x \in files : x.path # path}, open |-> open]
<1>. DEFINE s == [files |-> files, open |-> open]
<1>1. Store!Without(s, path) = [s EXCEPT !.files = {x \in s.files : x.path # path}]
  BY DEF Store!Without
<1>. DEFINE less == {x \in files : x.path # path}
<1>2. {x \in s.files : x.path # path} = less
  OBVIOUS
<1>. HIDE DEF less
<1>3. [s EXCEPT !.files = less] = [files |-> less, open |-> open]
  OBVIOUS
<1>. QED
  BY <1>1, <1>2, <1>3 DEF less

LEMMA StoreWith ==
    ASSUME NEW d, NEW X, Sound(d, X), Sized(d), NEW e, NEW Y, Sound(e, Y), NEW p \in AllRefs(e),
           Changes(d, e, p), NEW open
    PROVE  Store!With([files |-> FilesIn(d), open |-> open], PathOf(e, p), DataOf(e, p))
                = [files |-> FilesIn(e), open |-> open]
<1>. DEFINE path == PathOf(e, p)
            s == [files |-> FilesIn(d), open |-> open]
            less == {x \in FilesIn(d) : x.path # path}
<1>1. FilesIn(e) = less \cup {FileAt(e, p)}
  BY ChangesOne, FileWritten
<1>2. Store!Without(s, path) = [files |-> less, open |-> open]
  BY WithoutIs
<1>. HIDE DEF less
<1>3. Store!With(s, path, DataOf(e, p)) =
        [files |-> less \cup {[path |-> path, data |-> DataOf(e, p)]}, open |-> open]
  BY <1>2 DEF Store!With
<1>. QED
  BY <1>1, <1>3 DEF FileAt

LEMMA StoreWithout ==
    ASSUME NEW d, NEW X, Sound(d, X), Sized(d), NEW e, NEW Y, Sound(e, Y), NEW p \in AllRefs(d),
           p \notin AllRefs(e), Changes(d, e, p), NEW open
    PROVE  Store!Without([files |-> FilesIn(d), open |-> open], PathOf(d, p))
                = [files |-> FilesIn(e), open |-> open]
<1>1. FilesIn(e) = {x \in FilesIn(d) : x.path # PathOf(d, p)}
  BY ChangesOne, FileDropped
<1>. QED
  BY <1>1, WithoutIs

-----------------------------------------------------------------------------
(* Calls are steps of the store                                            *)

(* Names are those that were given, and bytes are not the mark of a        *)
(* directory.                                                              *)
Named(d) == \A p \in AllRefs(d) : PathOf(d, p) \in StorePaths
KeepInv == FatInv /\ Named(disk) /\ Plain(disk)

LEMMA NamedKept ==
    ASSUME NEW d, NEW X, Sound(d, X), Sized(d), NEW e, NEW Y, Sound(e, Y), NEW p,
           Changes(d, e, p), Named(d), p \in AllRefs(e) => PathOf(e, p) \in StorePaths
    PROVE  Named(e)
<1>1. ASSUME NEW q \in AllRefs(e), q # p PROVE PathOf(e, q) \in StorePaths
  <2>1. q \in AllRefs(d)
    BY <1>1 DEF Changes
  <2>2. PathOf(e, q) = PathOf(d, q)
    BY <2>1, ChangesOne
  <2>. QED
    BY <2>1, <2>2 DEF Named
<1>. QED
  BY <1>1 DEF Named

LEMMA OneName ==
    ASSUME NEW a, <<a>> \in StorePaths
    PROVE  \E n \in Names : a = Fold(n)
<1>1. ASSUME NEW b, NEW c, <<a>> = <<b, c>> PROVE FALSE
  <2>1. Len(<<a>>) = 1 /\ Len(<<b, c>>) = 2
    OBVIOUS
  <2>. QED
    BY <1>1, <2>1
<1>2. PICK n \in Names : <<a>> = <<Fold(n)>>
  BY <1>1 DEF StorePaths
<1>3. <<a>>[1] = <<Fold(n)>>[1]
  BY <1>2
<1>. QED
  BY <1>3

LEMMA SameFront == ASSUME NEW s PROVE Store!Front(s) = Front(s)
BY DEF Store!Front, Front

(* A new item has a new path in a directory. *)
LEMMA NewPath ==
    ASSUME NEW d, Sound(d, {}), Sized(d), Named(d), NEW e, NEW dir, NEW name \in Names,
           NEW kind, NEW p, NEW first, Makes(d, e, dir, name, kind, p, first), NEW ds
    PROVE  PathOf(e, p) \in StorePaths /\ Store!MayCreate(StoreAs(d, ds), PathOf(e, p))
<1>. DEFINE s == StoreAs(d, ds)
            path == PathOf(e, p)
<1>1. Sound(e, {}) /\ dir \in Tops(e) /\ p \in Refs(e, dir) /\ NameIn(e, dir, p) = Fold(name)
  BY DEF Makes, NewIn
<1>2. Changes(d, e, p) /\ p \in AllRefs(e) /\ p \notin AllRefs(d)
  BY MakesChanges
<1>3. /\ \A q \in AllRefs(e) : q # p => q \in AllRefs(d) /\ FileAt(e, q) = FileAt(d, q)
      /\ \A q \in AllRefs(d) : q \in AllRefs(e) /\ q # p /\ PathOf(e, q) = PathOf(d, q)
  BY <1>1, <1>2, ChangesOne DEF Others, Changes
<1>4. path \notin {x.path : x \in FilesIn(d)}
  <2>1. ASSUME NEW q \in AllRefs(d) PROVE FileAt(d, q).path # path
    <3>1. PathOf(e, q) # path
      BY <1>1, <1>2, <1>3, PathsDiffer
    <3>. QED
      BY <1>3, <3>1 DEF FileAt
  <2>. QED
    BY <2>1 DEF FilesIn
<1>5. CASE dir = ROOT
  <2>1. path = <<Fold(name)>>
    BY <1>1, <1>5, PathIs
  <2>2. path \in StorePaths /\ Len(path) = 1
    BY <2>1 DEF StorePaths
  <2>. QED
    BY <1>4, <2>2 DEF Store!MayCreate, Store!Paths, StoreAs
<1>6. CASE dir # ROOT
  <2>1. PICK q \in Refs(e, ROOT) :
            /\ At(e, q).kind = "dir" /\ At(e, q).first = dir
            /\ path = <<NameIn(e, ROOT, q), Fold(name)>>
    BY <1>1, <1>6, PathIs
  <2>2. q \in AllRefs(e) /\ ROOT \in Tops(e)
    BY RootIsDir, RefsIn
  <2>3. q # p
    <3>1. Places(e, dir) \cap Places(e, ROOT) = {}
      BY <1>1, <1>6, <2>2, PlacesApart DEF Sound
    <3>. QED
      BY <1>1, <3>1 DEF Refs
  <2>4. q \in AllRefs(d) /\ FileAt(e, q) = FileAt(d, q) /\ PathOf(d, q) = PathOf(e, q)
    BY <1>3, <2>2, <2>3
  <2>5. PathOf(e, q) = <<NameIn(e, ROOT, q)>>
    BY <1>1, <2>2, PathIs
  <2>6. FileAt(e, q) = [path |-> Front(path), data |-> <<ERROR>>]
    BY <2>1, <2>5, TwoNames DEF FileAt, DataOf
  <2>7. [path |-> Front(path), data |-> <<ERROR>>] \in FilesIn(d)
    BY <2>4, <2>6 DEF FilesIn
  <2>8. <<NameIn(e, ROOT, q)>> \in StorePaths
    BY <2>4, <2>5 DEF Named
  <2>9. PICK m \in Names : NameIn(e, ROOT, q) = Fold(m)
    BY <2>8, OneName
  <2>10. path \in StorePaths
    BY <2>1, <2>9 DEF StorePaths
  <2>11. s.files = FilesIn(d)
    BY DEF StoreAs
  <2>. HIDE DEF s, path
  <2>12. Store!MayCreate(s, path)
    BY <1>4, <2>7, <2>11, SameFront DEF Store!MayCreate, Store!Paths
  <2>. QED
    BY <2>10, <2>12 DEF s, path
<1>. QED
  BY <1>5, <1>6

(* What a step should be *)
Implements ==
    /\ Named(disk') /\ Plain(disk')
    /\ \/ StoreAs(disk', descs') = StoreAs(disk, descs)
       \/ Store!Step(StoreAs(disk, descs), StoreAs(disk', descs'))

LEMMA KeepFacts ==
    ASSUME KeepInv
    PROVE  /\ Sound(disk, {}) /\ Sized(disk) /\ Named(disk) /\ Plain(disk) /\ DescsGood(disk, descs)
           /\ descs \in [Descs -> Records] /\ Used(descs) \subseteq Descs
           /\ \A f \in Used(descs) : descs[f].at \in AllRefs(disk)
BY DEF KeepInv, FatInv, DescsGood, Holds, Used

LEMMA FoundPath ==
    ASSUME KeepInv, NEW path \in Paths, NEW x \in Found(path)
    PROVE  /\ FoundAt(x) \in AllRefs(disk) /\ At(disk, FoundAt(x)) = FoundItem(x)
           /\ FoundItem(x) \in Items /\ PathOf(disk, FoundAt(x)) \in StorePaths
BY KeepFacts, FoundFile DEF IsFound, Named

LEMMA ReadingImplements ==
    ASSUME KeepInv, NEW path \in Paths, OpenRead(path)
    PROVE  Implements
<1>1. PICK x \in Found(path) : Opens("r", FoundItem(x), 0, FoundAt(x))
  BY DEF OpenRead
<1>. DEFINE at == FoundAt(x)
            p == PathOf(disk, at)
            s == StoreAs(disk, descs)
            t == StoreAs(disk, descs')
<1>2. at \in AllRefs(disk) /\ p \in StorePaths
  BY FoundPath
<1>3. disk' = disk
  BY DEF OpenRead
<1>4. t \in Store!Opened(s, p, 0)
  BY <1>1, KeepFacts, OpenedStore DEF StoreAs
<1>5. p \in Store!Paths(s)
  BY <1>2, KeepFacts, StoreFile
<1>. HIDE DEF s, t, p
<1>6. t \in Store!OpenRead(s, p)
  BY <1>4, <1>5 DEF Store!OpenRead
<1>7. Store!Step(s, t)
  BY <1>2, <1>6, PathStep DEF p
<1>. QED
  BY <1>3, <1>7, KeepFacts DEF Implements, s, t

(* An opened item and its file *)
LEMMA OpensWith ==
    ASSUME KeepInv, NEW Y, Sound(disk', Y), NEW p \in AllRefs(disk'), Changes(disk, disk', p),
           AllRefs(disk) \subseteq AllRefs(disk'),
           NEW mode \in {"r", "w", "a"}, NEW item, NEW k, Opens(mode, item, k, p)
    PROVE  StoreAs(disk', descs') \in
                Store!Opened(Store!With(StoreAs(disk, descs), PathOf(disk', p), DataOf(disk', p)),
                             PathOf(disk', p), k)
<1>1. Store!With(StoreAs(disk, descs), PathOf(disk', p), DataOf(disk', p))
        = [files |-> FilesIn(disk'), open |-> OpenIn(disk, descs)]
  BY KeepFacts, StoreWith DEF StoreAs
<1>2. \A f \in Used(descs) : PathOf(disk', descs[f].at) = PathOf(disk, descs[f].at)
  BY KeepFacts, ChangesOne
<1>3. OpenIn(disk', descs) = OpenIn(disk, descs)
  BY <1>2, OpenStays
<1>4. descs \in [Descs -> Records]
  BY KeepFacts
<1>5. [files |-> FilesIn(disk'), open |-> OpenIn(disk', descs')] \in
        Store!Opened([files |-> FilesIn(disk'), open |-> OpenIn(disk', descs)],
                     PathOf(disk', p), k)
  BY <1>4, OpenedStore
<1>. QED
  BY <1>1, <1>3, <1>5 DEF StoreAs

LEMMA SameChanges ==
    ASSUME NEW d, Sound(d, {}), NEW p \in AllRefs(d), At(d, p).kind = "file"
    PROVE  Changes(d, d, p)
<1>1. Keeps(d, d)
  BY KeepsSelf
<1>. QED
  BY <1>1 DEF Changes, Keeps, Intact, SameRow

LEMMA OpeningImplements ==
    ASSUME Careful, KeepInv, NEW path \in Paths, NEW mode \in {"w", "a"}, OpenExisting(path, mode)
    PROVE  Implements
<1>0. FatInv
  BY DEF KeepInv
<1>1. PICK x \in Found(path) :
        /\ FoundItem(x).kind = "file"
        /\ \/ /\ mode = "w" /\ Cuts(disk, disk', FoundAt(x))
              /\ Opens(mode, Cut(FoundItem(x)), 0, FoundAt(x))
           \/ /\ mode = "w" => FoundItem(x).first = 0
              /\ disk' = disk
              /\ Opens(mode, FoundItem(x), IF mode = "a" THEN FoundItem(x).size ELSE 0, FoundAt(x))
  BY <1>0, OpeningFileIs
<1>. DEFINE at == FoundAt(x)
            item == FoundItem(x)
            p == PathOf(disk, at)
            s == StoreAs(disk, descs)
            t == StoreAs(disk', descs')
<1>2. at \in AllRefs(disk) /\ At(disk, at) = item /\ item \in Items /\ p \in StorePaths
  BY FoundPath
<1>3. p \in Store!Paths(s) /\ Store!Data(s, p) = DataOf(disk, at) /\ Store!IsFile(s, p)
  BY <1>1, <1>2, KeepFacts, StoreFile
<1>4. CASE mode = "w" /\ Cuts(disk, disk', at) /\ Opens(mode, Cut(item), 0, at)
  <2>1. Changes(disk, disk', at) /\ at \in AllRefs(disk') /\ DataOf(disk', at) = <<>>
    BY <1>1, <1>2, <1>4, CutsChanges
  <2>2. Sound(disk', {}) /\ AllRefs(disk') = AllRefs(disk) /\ disk'.bytes = disk.bytes
    BY <1>4 DEF Cuts
  <2>3. PathOf(disk', at) = p
    BY <1>2, <2>1, <2>2, KeepFacts, ChangesOne
  <2>4. t \in Store!Opened(Store!With(s, p, <<>>), p, 0)
    BY <1>4, <2>1, <2>2, <2>3, OpensWith
  <2>5. Named(disk') /\ Plain(disk')
    BY <1>2, <2>1, <2>2, <2>3, KeepFacts, NamedKept DEF Plain
  <2>. HIDE DEF s, t, p
  <2>6. t \in Store!OpenWrite(s, p)
    BY <1>3, <2>4 DEF Store!OpenWrite
  <2>7. Store!Step(s, t)
    BY <1>2, <2>6, PathStep
  <2>. QED
    BY <2>5, <2>7 DEF Implements, s, t
<1>5. CASE /\ mode = "w" => item.first = 0
           /\ disk' = disk
           /\ Opens(mode, item, IF mode = "a" THEN item.size ELSE 0, at)
  <2>. DEFINE k == IF mode = "a" THEN item.size ELSE 0
  <2>1. Len(Chain(disk, item.first)) = (item.size + CLUSTER - 1) \div CLUSTER
    BY <1>1, <1>2, KeepFacts DEF Sized
  <2>2. HasChain(disk, item.first) /\ item.size \in Nat
    BY <1>2, KeepFacts, Kinds DEF Sound, Chained
  <2>3. Changes(disk, disk', at) /\ Sound(disk', {}) /\ at \in AllRefs(disk')
    BY <1>1, <1>2, <1>5, KeepFacts, SameChanges
  <2>4. t \in Store!Opened(Store!With(s, p, DataOf(disk, at)), p, k)
    BY <1>5, <2>3, OpensWith
  <2>5. t \in Store!Opened(s, p, k)
    BY <1>5, KeepFacts, OpenedStore DEF StoreAs
  <2>6. Named(disk') /\ Plain(disk')
    BY <1>5, KeepFacts
  <2>7. mode = "w" => t \in Store!OpenWrite(s, p)
    <3>1. SUFFICES ASSUME mode = "w" PROVE t \in Store!OpenWrite(s, p)
      OBVIOUS
    <3>2. item.size = 0
      <4>1. Chain(disk, item.first) = <<>>
        BY <1>5, <3>1, NoChain
      <4>2. CLUSTER \in Nat \ {0}
        BY FatAssumption
      <4>3. item.size <= CLUSTER * 0
        BY <2>1, <2>2, <4>1, <4>2, SizeFits
      <4>. QED
        BY <2>2, <4>2, <4>3
    <3>3. DataOf(disk, at) = <<>>
      BY <1>1, <1>2, <3>2 DEF DataOf, Content
    <3>. HIDE DEF s, t, p
    <3>. QED
      BY <1>3, <2>4, <3>1, <3>3 DEF Store!OpenWrite
  <2>8. mode = "a" => t \in Store!OpenAppend(s, p)
    <3>1. SUFFICES ASSUME mode = "a" PROVE t \in Store!OpenAppend(s, p)
      OBVIOUS
    <3>2. Len(DataOf(disk, at)) = item.size
      BY <1>1, <1>2, <2>1, <2>2, ContentIs DEF DataOf
    <3>. HIDE DEF s, t, p
    <3>. QED
      BY <1>3, <2>5, <3>1, <3>2 DEF Store!OpenAppend, Store!MayCreate
  <2>. HIDE DEF s, t, p
  <2>9. Store!Step(s, t)
    BY <1>2, <2>7, <2>8, PathStep
  <2>. QED
    BY <2>6, <2>9 DEF Implements, s, t
<1>. QED
  BY <1>1, <1>4, <1>5

(* A new file or directory *)
LEMMA MadeStore ==
    ASSUME KeepInv, NEW dir, NEW name \in Names, NEW kind, NEW p, NEW first,
           Makes(disk, disk', dir, name, kind, p, first)
    PROVE  /\ Sound(disk', {}) /\ p \in AllRefs(disk') /\ Changes(disk, disk', p)
           /\ AllRefs(disk) \subseteq AllRefs(disk')
           /\ PathOf(disk', p) \in StorePaths
           /\ Store!MayCreate(StoreAs(disk, descs), PathOf(disk', p))
           /\ Named(disk') /\ Plain(disk')
           /\ kind = "file" => DataOf(disk', p) = <<>>
           /\ kind = "dir" => DataOf(disk', p) = <<ERROR>>
<1>1. Changes(disk, disk', p) /\ p \in AllRefs(disk') /\ p \notin AllRefs(disk)
  BY MakesChanges
<1>2. Sound(disk', {}) /\ AddsItem(disk, disk', p, At(disk', p)) /\ IsNew(At(disk', p), kind, first)
  BY DEF Makes
<1>3. AllRefs(disk) \subseteq AllRefs(disk') /\ Intact(disk, disk')
  BY <1>2 DEF AddsItem
<1>4. PathOf(disk', p) \in StorePaths /\ Store!MayCreate(StoreAs(disk, descs), PathOf(disk', p))
  BY KeepFacts, NewPath
<1>5. Named(disk')
  BY <1>1, <1>2, <1>4, KeepFacts, NamedKept
<1>6. Plain(disk')
  BY <1>3, KeepFacts DEF Intact
<1>7. /\ kind = "file" => DataOf(disk', p) = <<>>
      /\ kind = "dir" => DataOf(disk', p) = <<ERROR>>
  BY <1>2 DEF IsNew, DataOf, Content
<1>. QED
  BY <1>1, <1>2, <1>3, <1>4, <1>5, <1>6, <1>7

LEMMA KeepsImplements ==
    ASSUME KeepInv, Sound(disk', {}), Keeps(disk, disk'), descs' = descs
    PROVE  Implements
<1>1. StoreAs(disk', descs') = StoreAs(disk, descs)
  BY KeepFacts, KeepsStore
<1>2. Plain(disk')
  BY KeepFacts DEF Keeps, Intact
<1>3. \A q \in AllRefs(disk) : PathOf(disk', q) = PathOf(disk, q)
  <2>1. DirsStay(disk, disk') /\ Follows(disk, disk')
    BY DEF Keeps, DirsStay, Intact
  <2>. QED
    BY <2>1, KeepFacts, PathStays DEF Keeps
<1>4. Named(disk')
  BY <1>3, KeepFacts DEF Named, Keeps
<1>. QED
  BY <1>1, <1>2, <1>4 DEF Implements

LEMMA NewImplements ==
    ASSUME KeepInv, NEW path \in Paths, NEW mode \in {"w", "a"}, OpenNew(path, mode)
    PROVE  Implements
<1>0. FatInv
  BY DEF KeepInv
<1>1. PICK x \in Missing(path) :
            \/ Sound(disk', {}) /\ Keeps(disk, disk') /\ descs' = descs
            \/ \E p : /\ Makes(disk, disk', x.dir, Last(path), "file", p, 0)
                      /\ Opens(mode, At(disk', p), 0, p)
  BY <1>0, OpeningNewIs
<1>2. CASE \E p : /\ Makes(disk, disk', x.dir, Last(path), "file", p, 0)
                  /\ Opens(mode, At(disk', p), 0, p)
  <2>1. PICK q : /\ Makes(disk, disk', x.dir, Last(path), "file", q, 0)
                 /\ Opens(mode, At(disk', q), 0, q)
    BY <1>2
  <2>. DEFINE p == PathOf(disk', q)
              s == StoreAs(disk, descs)
              t == StoreAs(disk', descs')
  <2>2. Last(path) \in Names
    BY <1>0, MissingName DEF FatInv
  <2>3. /\ Sound(disk', {}) /\ q \in AllRefs(disk') /\ Changes(disk, disk', q)
        /\ AllRefs(disk) \subseteq AllRefs(disk')
        /\ p \in StorePaths /\ Store!MayCreate(s, p)
        /\ Named(disk') /\ Plain(disk') /\ DataOf(disk', q) = <<>>
    BY <2>1, <2>2, MadeStore
  <2>4. t \in Store!Opened(Store!With(s, p, <<>>), p, 0)
    BY <2>1, <2>3, OpensWith
  <2>. HIDE DEF s, t, p
  <2>5. t \in Store!OpenWrite(s, p)
    BY <2>3, <2>4 DEF Store!OpenWrite
  <2>6. Store!Step(s, t)
    BY <2>3, <2>5, PathStep
  <2>. QED
    BY <2>3, <2>6 DEF Implements, s, t
<1>. QED
  BY <1>1, <1>2, KeepsImplements

LEMMA MakingDirImplements ==
    ASSUME KeepInv, NEW path \in Paths, fat16_mkdir(path)
    PROVE  Implements
<1>0. FatInv /\ descs' = descs
  BY DEF KeepInv, fat16_mkdir
<1>1. PICK x \in Missing(path) :
            \/ Sound(disk', {}) /\ Keeps(disk, disk')
            \/ \E p, c : Makes(disk, disk', x.dir, Last(path), "dir", p, c)
  BY <1>0, MakingDirIs
<1>2. CASE \E p, c : Makes(disk, disk', x.dir, Last(path), "dir", p, c)
  <2>1. PICK q, c : Makes(disk, disk', x.dir, Last(path), "dir", q, c)
    BY <1>2
  <2>. DEFINE p == PathOf(disk', q)
              s == StoreAs(disk, descs)
              t == StoreAs(disk', descs')
  <2>2. Last(path) \in Names
    BY <1>0, MissingName DEF FatInv
  <2>3. /\ Sound(disk', {}) /\ q \in AllRefs(disk') /\ Changes(disk, disk', q)
        /\ AllRefs(disk) \subseteq AllRefs(disk')
        /\ p \in StorePaths /\ Store!MayCreate(s, p)
        /\ Named(disk') /\ Plain(disk') /\ DataOf(disk', q) = <<ERROR>>
    BY <2>1, <2>2, MadeStore
  <2>4. OpenIn(disk', descs') = OpenIn(disk, descs)
    BY <1>0, <2>3, KeepFacts, ChangesOne, OpenStays
  <2>5. t = Store!With(s, p, <<ERROR>>)
    BY <2>3, <2>4, KeepFacts, StoreWith DEF StoreAs
  <2>. HIDE DEF s, t, p
  <2>6. t \in Store!Mkdir(s, p)
    BY <2>3, <2>5 DEF Store!Mkdir
  <2>7. Store!Step(s, t)
    BY <2>3, <2>6, PathStep
  <2>. QED
    BY <2>3, <2>7 DEF Implements, s, t
<1>. QED
  BY <1>0, <1>1, <1>2, KeepsImplements

(* What is removed is no directory of another path. *)
LEMMA NoneBelow ==
    ASSUME NEW d, Sound(d, {}), NEW dir \in Tops(d), NEW p \in Refs(d, dir),
           dir = ROOT /\ At(d, p).kind = "dir" => Refs(d, At(d, p).first) = {},
           NEW q \in AllRefs(d), Len(PathOf(d, q)) > 1
    PROVE  Front(PathOf(d, q)) # PathOf(d, p)
<1>1. PICK y \in Tops(d) : q \in Refs(d, y)
  BY DEF AllRefs
<1>2. ROOT \in Tops(d) /\ p \in AllRefs(d)
  BY RootIsDir, RefsIn
<1>3. y # ROOT
  <2>1. SUFFICES ASSUME y = ROOT PROVE FALSE
    OBVIOUS
  <2>2. PathOf(d, q) = <<NameIn(d, ROOT, q)>>
    BY <1>1, <2>1, PathIs
  <2>3. Len(PathOf(d, q)) = 1
    BY <2>2
  <2>. QED
    BY <2>3
<1>4. PICK v \in Refs(d, ROOT) : /\ At(d, v).kind = "dir" /\ At(d, v).first = y
                                 /\ PathOf(d, q) = <<NameIn(d, ROOT, v), NameIn(d, y, q)>>
  BY <1>1, <1>3, PathIs
<1>5. Front(PathOf(d, q)) = PathOf(d, v)
  <2>1. PathOf(d, v) = <<NameIn(d, ROOT, v)>>
    BY <1>2, PathIs
  <2>. QED
    BY <1>4, <2>1, TwoNames
<1>6. v # p
  <2>1. SUFFICES ASSUME v = p PROVE FALSE
    OBVIOUS
  <2>2. dir = ROOT
    <3>1. p \in Places(d, dir) /\ p \in Places(d, ROOT)
      BY <1>4, <2>1 DEF Refs
    <3>. QED
      BY <1>2, <3>1, PlacesApart DEF Sound
  <2>. QED
    BY <1>1, <1>4, <2>1, <2>2
<1>. QED
  BY <1>2, <1>5, <1>6, PathsDiffer, RefsIn

LEMMA RemovingImplements ==
    ASSUME Careful, KeepInv, NEW path \in Paths, fat16_remove(path)
    PROVE  Implements
<1>0. FatInv /\ descs' = descs
  BY DEF KeepInv, fat16_remove
<1>1. PICK x \in Found(path) :
        /\ Users(FoundAt(x)) = {} /\ Sound(disk', {}) /\ Drops(disk, disk', FoundAt(x))
        /\ x.dir = ROOT /\ FoundItem(x).kind = "dir" => Refs(disk, FoundItem(x).first) = {}
  BY <1>0, RemovingIs
<1>. DEFINE at == FoundAt(x)
            p == PathOf(disk, at)
            s == StoreAs(disk, descs)
            t == StoreAs(disk', descs')
<1>2. at \in AllRefs(disk) /\ At(disk, at) = FoundItem(x) /\ p \in StorePaths
  BY FoundPath
<1>3. Changes(disk, disk', at) /\ at \notin AllRefs(disk')
  BY <1>1, DropsChanges
<1>4. \A f \in Used(descs) : descs[f].at \in AllRefs(disk) /\ descs[f].at \in AllRefs(disk')
  <2>1. \A f \in Used(descs) : descs[f].at # at
    BY <1>1, KeepFacts DEF Users, Used
  <2>. QED
    BY <2>1, <1>3, KeepFacts DEF Changes
<1>5. OpenIn(disk', descs') = OpenIn(disk, descs)
  BY <1>0, <1>1, <1>3, <1>4, KeepFacts, ChangesOne, OpenStays
<1>6. t = Store!Without(s, p)
  BY <1>1, <1>2, <1>3, <1>5, KeepFacts, StoreWithout DEF StoreAs
<1>7. p \in Store!Paths(s)
  BY <1>2, KeepFacts, StoreFile
<1>8. \A q \in Store!Paths(s) : Len(q) > 1 => Front(q) # p
  <2>1. x.dir \in Tops(disk) /\ at \in Refs(disk, x.dir)
    BY <1>0, FoundFile DEF FatInv, IsFound
  <2>2. ASSUME NEW r \in AllRefs(disk), Len(PathOf(disk, r)) > 1 PROVE Front(PathOf(disk, r)) # p
    BY <1>1, <1>2, <2>1, <2>2, KeepFacts, NoneBelow
  <2>3. ASSUME NEW q \in Store!Paths(s) PROVE \E r \in AllRefs(disk) : q = PathOf(disk, r)
    BY <2>3 DEF Store!Paths, StoreAs, FilesIn, FileAt
  <2>. QED
    BY <2>2, <2>3
<1>9. Named(disk') /\ Plain(disk')
  <2>1. Named(disk')
    BY <1>1, <1>3, KeepFacts, NamedKept
  <2>. QED
    BY <1>1, <2>1, KeepFacts DEF Drops, Plain
<1>. HIDE DEF s, t, p
<1>10. t \in Store!Unlink(s, p)
  BY <1>6, <1>7, <1>8, SameFront DEF Store!Unlink
<1>11. Store!Step(s, t)
  BY <1>2, <1>10, PathStep
<1>. QED
  BY <1>9, <1>11 DEF Implements, s, t

(* A descriptor in use is one of the store. *)
LEMMA UsedFile ==
    ASSUME KeepInv, NEW f \in Descs, OpenFile(f)
    PROVE  LET s == StoreAs(disk, descs)
               o == OpenAt(disk, descs[f], f)
               p == descs[f].at
           IN  /\ f \in Used(descs) /\ o \in s.open /\ o.path = PathOf(disk, p) /\ o.pos = descs[f].pos
               /\ Store!IsFile(s, o.path) /\ Store!Data(s, o.path) = DataOf(disk, p)
               /\ p \in AllRefs(disk) /\ At(disk, p).kind = "file" /\ At(disk, p) \in Items
               /\ Len(DataOf(disk, p)) = At(disk, p).size
               /\ descs[f].item.size <= At(disk, p).size /\ Knows(descs[f], At(disk, p))
<1>. DEFINE s == StoreAs(disk, descs)
            o == OpenAt(disk, descs[f], f)
            p == descs[f].at
<1>1. f \in Used(descs) /\ p \in AllRefs(disk)
  BY KeepFacts DEF OpenFile, Used
<1>2. o \in s.open /\ o.path = PathOf(disk, p) /\ o.pos = descs[f].pos
  BY <1>1 DEF StoreAs, OpenIn, OpenAt
<1>3. Knows(descs[f], At(disk, p)) /\ descs[f].item \in Items
  BY KeepFacts DEF OpenFile, DescsGood, Holds
<1>4. At(disk, p).kind = "file" /\ At(disk, p) \in Items /\ HasChain(disk, At(disk, p).first)
  BY <1>1, <1>3, KeepFacts, AllRefIs DEF Knows, Sound, Chained
<1>5. Store!IsFile(s, o.path) /\ Store!Data(s, o.path) = DataOf(disk, p)
  BY <1>1, <1>2, <1>4, KeepFacts, StoreFile
<1>6. Len(DataOf(disk, p)) = At(disk, p).size
  <2>1. Len(Chain(disk, At(disk, p).first)) = (At(disk, p).size + CLUSTER - 1) \div CLUSTER
    BY <1>1, <1>4, KeepFacts DEF Sized
  <2>2. Len(Content(disk, At(disk, p))) = At(disk, p).size
    BY <1>4, <2>1, ContentIs
  <2>. QED
    BY <1>4, <2>2 DEF DataOf
<1>7. descs[f].item.size <= At(disk, p).size
  <2>1. At(disk, p).size \in Nat
    BY <1>4, Kinds
  <2>. QED
    BY <1>3, <2>1 DEF Knows
<1>. QED
  BY <1>1, <1>2, <1>3, <1>4, <1>5, <1>6, <1>7

LEMMA MovedIs ==
    ASSUME NEW files, NEW open, NEW o, NEW k
    PROVE  Store!Moved([files |-> files, open |-> open], o, k)
                = [files |-> files, open |-> (open \ {o}) \cup {[o EXCEPT !.pos = k]}]
<1>. DEFINE s == [files |-> files, open |-> open]
            more == {[o EXCEPT !.pos = k]}
<1>1. Store!Moved(s, o, k) = [s EXCEPT !.open = (s.open \ {o}) \cup more]
  BY DEF Store!Moved
<1>2. s.open = open
  OBVIOUS
<1>. HIDE DEF more
<1>3. [s EXCEPT !.open = (open \ {o}) \cup more] = [files |-> files, open |-> (open \ {o}) \cup more]
  OBVIOUS
<1>. QED
  BY <1>1, <1>2, <1>3 DEF more

LEMMA MovingImplements ==
    ASSUME KeepInv, NEW f \in Descs, fat16_read(f) \/ fat16_seek(f)
    PROVE  Implements
<1>0. OpenFile(f) /\ disk' = disk /\ FatInv
  BY DEF fat16_read, fat16_seek, KeepInv
<1>. DEFINE s == StoreAs(disk, descs)
            t == StoreAs(disk', descs')
            o == OpenAt(disk, descs[f], f)
            p == descs[f].at
<1>1. /\ f \in Used(descs) /\ o \in s.open /\ o.path = PathOf(disk, p)
      /\ Store!IsFile(s, o.path) /\ Store!Data(s, o.path) = DataOf(disk, p)
      /\ At(disk, p) \in Items /\ Len(DataOf(disk, p)) = At(disk, p).size
      /\ descs[f].item.size <= At(disk, p).size
  BY <1>0, UsedFile
<1>2. descs[f].item.size \in Nat /\ descs[f].pos \in 0 .. descs[f].item.size
  BY <1>0, OpenPos
<1>3. PICK k \in 0 .. descs[f].item.size : descs' = [descs EXCEPT ![f].pos = k]
  <2>1. CASE fat16_seek(f)
    BY <2>1 DEF fat16_seek
  <2>2. CASE fat16_read(f)
    <3>. DEFINE x == descs[f]
                total(n) == Min({n, x.item.size - x.pos})
    <3>1. PICK n \in ReadLens : total(n) > 0 /\ descs' = [descs EXCEPT ![f].pos = @ + total(n)]
      BY <2>2 DEF fat16_read
    <3>2. n \in Nat /\ x.item.size - x.pos \in Nat
      BY <1>2, FatAssumption
    <3>3. total(n) \in Nat /\ total(n) <= x.item.size - x.pos
      BY <3>2, MinOfTwo
    <3>4. descs' = [descs EXCEPT ![f].pos = x.pos + total(n)]
      BY <3>1
    <3>. HIDE DEF total
    <3>5. x.pos + total(n) \in 0 .. x.item.size
      BY <1>2, <3>3
    <3>. QED
      BY <3>4, <3>5
  <2>. QED
    BY <2>1, <2>2
<1>4. OpenIn(disk, descs') = (OpenIn(disk, descs) \ {o}) \cup {[o EXCEPT !.pos = k]}
  <2>. DEFINE y == [descs[f] EXCEPT !.pos = k]
  <2>1. descs \in [Descs -> Records] /\ descs[f] \in Records /\ descs[f].mode # "closed"
    BY <1>1, KeepFacts DEF Used
  <2>2. descs' = [descs EXCEPT ![f] = y] /\ y.mode # "closed" /\ y.at = descs[f].at /\ y.pos = k
    BY <1>3, <2>1 DEF Records
  <2>. HIDE DEF y
  <2>3. f \in Used(descs)
    BY <1>1
  <2>4. OpenIn(disk, descs') = (OpenIn(disk, descs) \ {OpenAt(disk, descs[f], f)})
                                \cup {[OpenAt(disk, descs[f], f) EXCEPT !.pos = y.pos]}
    BY <2>1, <2>2, <2>3, MovedStore
  <2>. QED
    BY <2>2, <2>4
<1>5. t = Store!Moved(s, o, k)
  BY <1>0, <1>4, MovedIs DEF StoreAs
<1>6. At(disk, p).size \in Nat
  BY <1>1, Kinds
<1>. HIDE DEF s, t, o
<1>7. k \in 0 .. Len(Store!Data(s, o.path))
  BY <1>1, <1>2, <1>6
<1>8. t \in Store!Move(s, o)
  BY <1>1, <1>5, <1>7 DEF Store!Move
<1>9. Store!Step(s, t)
  BY <1>1, <1>8, OpenStep
<1>. QED
  BY <1>0, <1>9, KeepFacts DEF Implements, s, t

LEMMA ClosingImplements ==
    ASSUME KeepInv, NEW f \in Descs, fat16_close(f)
    PROVE  Implements
<1>. DEFINE s == StoreAs(disk, descs)
            t == StoreAs(disk', descs')
            o == OpenAt(disk, descs[f], f)
<1>1. disk' = disk /\ descs' = [descs EXCEPT ![f] = Closed] /\ f \in Used(descs)
  BY DEF fat16_close, Used
<1>2. OpenIn(disk, descs') = OpenIn(disk, descs) \ {o}
  BY <1>1, KeepFacts, ClosedStore
<1>3. o \in s.open
  BY <1>1 DEF StoreAs, OpenIn
<1>4. t = Store!Closed(s, o)
  BY <1>1, <1>2 DEF StoreAs, Store!Closed
<1>. HIDE DEF s, t, o
<1>5. Store!Step(s, t)
  BY <1>3, <1>4, OpenStep
<1>. QED
  BY <1>1, <1>5, KeepFacts DEF Implements, s, t

(* The bytes of a write                                                    *)
Ends(k, m, n) == IF k + m <= n THEN n ELSE k + m
LEMMA OverwrittenIs ==
    ASSUME NEW S, NEW s \in Seq(S), NEW m \in Seq(S), NEW k \in 0 .. Len(s)
    PROVE  LET w == Store!Overwritten(s, k, m)
           IN  /\ w \in Seq(S) /\ Len(w) = Ends(k, Len(m), Len(s))
               /\ \A i \in 1 .. Len(w) :
                    w[i] = IF i <= k THEN s[i] ELSE IF i <= k + Len(m) THEN m[i - k] ELSE s[i]
<1>. DEFINE a == SubSeq(s, 1, k)
            c == SubSeq(s, k + Len(m) + 1, Len(s))
            w == Store!Overwritten(s, k, m)
<1>1. Len(s) \in Nat /\ Len(m) \in Nat /\ k \in Nat /\ k <= Len(s)
  OBVIOUS
<1>2. a \in Seq(S) /\ Len(a) = k /\ \A i \in 1 .. k : a[i] = s[i]
  BY <1>1
<1>3. /\ c \in Seq(S) /\ Len(c) = Ends(k, Len(m), Len(s)) - (k + Len(m))
      /\ \A i \in 1 .. Len(c) : c[i] = s[k + Len(m) + i]
  BY <1>1 DEF Ends
<1>4. w = (a \o m) \o c
  BY DEF Store!Overwritten
<1>. HIDE DEF a, c, w
<1>5. /\ (a \o m) \in Seq(S) /\ Len(a \o m) = k + Len(m)
      /\ \A i \in 1 .. k + Len(m) : (a \o m)[i] = IF i <= k THEN a[i] ELSE m[i - k]
  BY <1>1, <1>2
<1>6. w \in Seq(S) /\ Len(w) = Ends(k, Len(m), Len(s))
  <2>1. w \in Seq(S) /\ Len(w) = Len(a \o m) + Len(c)
    <3>1. c \in Seq(S) /\ (a \o m) \in Seq(S)
      BY <1>3, <1>5
    <3>. QED
      BY <3>1, <1>4, ConcatProperties
  <2>2. Ends(k, Len(m), Len(s)) \in Nat
    BY <1>1 DEF Ends
  <2>. QED
    BY <1>1, <1>3, <1>5, <2>1, <2>2
<1>7. ASSUME NEW i \in 1 .. Len(w)
      PROVE  w[i] = IF i <= k THEN s[i] ELSE IF i <= k + Len(m) THEN m[i - k] ELSE s[i]
  <2>1. CASE i <= k + Len(m)
    <3>1. i \in 1 .. k + Len(m)
      BY <1>1, <2>1
    <3>2. w[i] = (a \o m)[i]
      BY <1>3, <1>4, <1>5, <3>1
    <3>. QED
      BY <1>1, <1>2, <1>5, <3>1, <3>2
  <2>2. CASE ~ (i <= k + Len(m))
    <3>1. i - (k + Len(m)) \in 1 .. Len(c)
      BY <1>1, <1>3, <1>6, <2>2
    <3>2. w[i] = c[i - (k + Len(m))]
      <4>1. c \in Seq(S) /\ (a \o m) \in Seq(S)
        BY <1>3, <1>5
      <4>2. i \in 1 .. Len(a \o m) + Len(c) /\ ~ (i <= Len(a \o m))
        BY <1>1, <1>3, <1>5, <1>6, <2>2
      <4>3. w[i] = c[i - Len(a \o m)]
        BY <1>4, <4>1, <4>2, ConcatProperties
      <4>. QED
        BY <1>5, <4>3
    <3>3. k + Len(m) + (i - (k + Len(m))) = i
      BY <1>1
    <3>. QED
      BY <1>1, <1>3, <2>2, <3>1, <3>2, <3>3
  <2>. QED
    BY <2>1, <2>2
<1>. QED
  BY <1>6, <1>7 DEF w

(* The offset of a byte in a chain *)
LEMMA OffsetIs ==
    ASSUME NEW t \in Seq(Clusters), \A i, j \in 1 .. Len(t) : t[i] = t[j] => i = j,
           NEW i \in Nat \ {0}, InChain(i, Len(t))
    PROVE  Offset(t, t[(i - 1) \div CLUSTER + 1], (i - 1) % CLUSTER) = i - 1
<1>. DEFINE q == (i - 1) \div CLUSTER
            o == (i - 1) % CLUSTER
            j == CHOOSE x \in DOMAIN t : t[x] = t[q + 1]
<1>1. CLUSTER \in Nat
  BY FatAssumption
<1>2. q + 1 \in 1 .. Len(t) /\ o \in 0 .. CLUSTER - 1 /\ i - 1 = CLUSTER * q + o
  BY DEF InChain
<1>3. DOMAIN t = 1 .. Len(t)
  OBVIOUS
<1>. HIDE DEF q, o
<1>4. j \in 1 .. Len(t) /\ t[j] = t[q + 1]
  BY <1>2, <1>3
<1>5. j = q + 1
  BY <1>2, <1>4
<1>6. Offset(t, t[q + 1], o) = CLUSTER * (q + 1) + o - CLUSTER
  BY <1>5 DEF Offset
<1>7. q \in Int /\ o \in Int
  <2>1. i - 1 \in Int /\ CLUSTER \in Nat \ {0}
    BY FatAssumption
  <2>2. (i - 1) \div CLUSTER \in Int
    BY <2>1
  <2>. QED
    BY <1>2, <2>2 DEF q
<1>8. CLUSTER * (q + 1) = CLUSTER * q + CLUSTER /\ CLUSTER * q \in Int
  BY <1>1, <1>7
<1>9. CLUSTER * (q + 1) + o - CLUSTER = i - 1
  BY <1>1, <1>2, <1>7, <1>8
<1>. QED
  BY <1>6, <1>9 DEF q, o

LEMMA EndLimits ==
    ASSUME NEW pos \in Nat, NEW len \in Nat, NEW m \in Nat
    PROVE  EndOf(pos, len, m) \in Nat /\ pos <= EndOf(pos, len, m) /\ EndOf(pos, len, m) <= pos + len
<1>. DEFINE x == Min({pos + len, m * CLUSTER})
<1>1. CLUSTER \in Nat
  BY FatAssumption
<1>2. m * CLUSTER \in Nat /\ pos + len \in Nat
  BY <1>1
<1>3. x \in Nat /\ x <= pos + len
  BY <1>2, MinOfTwo
<1>. HIDE DEF x
<1>4. Max({pos, x}) = IF pos <= x THEN x ELSE pos
  BY <1>3, MaxOfTwo
<1>. QED
  BY <1>3, <1>4 DEF EndOf, x

(* The chain of a write, before and after it *)
LEMMA WriteChain ==
    ASSUME NEW f, NEW p, NEW old, NEW s, NEW pos, NEW data, NEW g, NEW t, NEW item, NEW end,
           Writes(f, p, old, s, pos, data, g, t, item, end)
    PROVE  /\ t \in Seq(Clusters) /\ \A i, j \in 1 .. Len(t) : t[i] = t[j] => i = j
           /\ s \in Seq(Clusters) /\ Len(s) \in Nat /\ Len(t) \in Nat /\ Len(data) \in Nat
           /\ old.size \in Nat /\ item.size \in Nat /\ pos \in Nat /\ end \in Nat
           /\ pos <= old.size /\ old.size <= item.size /\ pos <= end /\ end <= item.size
           /\ end <= pos + Len(data) /\ (item.size = end \/ item.size = old.size)
<1>1. t \in Seq(Clusters) /\ s \in Seq(Clusters) /\ data \in Seq(Bytes)
  BY DEF Writes, Grows, IsChain
<1>2. Len(s) \in Nat /\ Len(t) \in Nat /\ Len(data) \in Nat
  BY <1>1
<1>3. \A i, j \in 1 .. Len(t) : t[i] = t[j] => i = j
  <2>1. CASE t = <<>>
    BY <2>1
  <2>2. CASE t # <<>>
    <3>1. IsChain(g, t[1], t)
      BY <2>2 DEF Writes, Grows
    <3>. QED
      BY <3>1 DEF IsChain
  <2>. QED
    BY <2>1, <2>2
<1>4. old.size \in Nat /\ item.size \in Nat
  BY Kinds DEF Writes
<1>5. /\ pos \in 0 .. old.size /\ end = EndOf(pos, Len(data), Len(t))
      /\ end \in 0 .. item.size /\ old.size <= item.size /\ item.size = Max({old.size, end})
  BY DEF Writes
<1>6. pos \in Nat /\ end \in Nat /\ pos <= old.size /\ end <= item.size
  BY <1>4, <1>5
<1>7. pos <= end /\ end <= pos + Len(data)
  BY <1>2, <1>5, <1>6, EndLimits
<1>8. item.size = end \/ item.size = old.size
  BY <1>4, <1>5, <1>6, MaxOfTwo
<1>. QED
  BY <1>1, <1>2, <1>3, <1>4, <1>5, <1>6, <1>7, <1>8

LEMMA ByteWritten ==
    ASSUME NEW f, NEW p, NEW old, NEW s, NEW pos, NEW data, NEW g, NEW t, NEW item, NEW end,
           Writes(f, p, old, s, pos, data, g, t, item, end), NEW i \in 1 .. item.size
    PROVE  ByteAt(disk', t, i) = IF i \in pos + 1 .. end THEN data[i - pos] ELSE ByteAt(g, t, i)
<1>. DEFINE c == t[(i - 1) \div CLUSTER + 1]
            o == (i - 1) % CLUSTER
<1>1. /\ t \in Seq(Clusters) /\ \A x, y \in 1 .. Len(t) : t[x] = t[y] => x = y
      /\ item.size \in Nat /\ pos \in Nat /\ end \in Nat /\ i \in Nat \ {0}
  BY WriteChain
<1>2. InChain(i, Len(t))
  BY <1>1, ByteInChain DEF Writes
<1>3. Offset(t, c, o) = i - 1
  BY <1>1, <1>2, OffsetIs
<1>4. c \in Range(t) /\ c \in Clusters /\ o \in 0 .. CLUSTER - 1
  BY <1>1, <1>2, InRange DEF InChain
<1>5. disk'.bytes = Filled(g, t, pos, end, data)
  BY DEF Writes
<1>. HIDE DEF c, o
<1>6. disk'.bytes[c][o] = IF Offset(t, c, o) \in pos .. end - 1
                          THEN data[Offset(t, c, o) - pos + 1] ELSE g.bytes[c][o]
  BY <1>4, <1>5 DEF Filled
<1>7. disk'.bytes[c][o] = IF i \in pos + 1 .. end THEN data[i - pos] ELSE g.bytes[c][o]
  <2>1. i - 1 \in pos .. end - 1 <=> i \in pos + 1 .. end
    BY <1>1
  <2>2. i - 1 - pos + 1 = i - pos
    BY <1>1
  <2>. QED
    BY <1>3, <1>6, <2>1, <2>2
<1>. QED
  BY <1>7 DEF c, o, ByteAt

LEMMA ByteBefore ==
    ASSUME NEW f, NEW p, NEW old, NEW s, NEW pos, NEW data, NEW g, NEW t, NEW item, NEW end,
           Writes(f, p, old, s, pos, data, g, t, item, end), NEW i \in 1 .. old.size
    PROVE  ByteAt(g, t, i) = ByteAt(disk, s, i)
<1>. DEFINE k == (i - 1) \div CLUSTER + 1
<1>1. old.size \in Nat /\ s \in Seq(Clusters) /\ t \in Seq(Clusters)
  BY WriteChain
<1>2. InChain(i, Len(s))
  BY <1>1, ByteInChain DEF Writes
<1>3. Grows(disk, g, s, t)
  BY DEF Writes
<1>4. k \in 1 .. Len(s)
  BY <1>2 DEF InChain
<1>. HIDE DEF k
<1>5. t[k] = s[k] /\ s[k] \in Range(s) /\ s[k] \in Clusters
  BY <1>1, <1>3, <1>4, InRange DEF Grows
<1>6. g.bytes[s[k]] = disk.bytes[s[k]]
  BY <1>3, <1>5 DEF Grows
<1>. QED
  BY <1>5, <1>6 DEF ByteAt, k

LEMMA WrittenData ==
    ASSUME KeepInv, NEW f, NEW p, NEW old, NEW s, NEW pos, NEW data, NEW g, NEW t, NEW item, NEW end,
           Writes(f, p, old, s, pos, data, g, t, item, end)
    PROVE  /\ DataOf(disk', p) = Store!Overwritten(DataOf(disk, p), pos, SubSeq(data, 1, end - pos))
           /\ Len(SubSeq(data, 1, end - pos)) = end - pos /\ end - pos \in 0 .. Len(data)
<1>. DEFINE n == end - pos
            m == SubSeq(data, 1, n)
            b == DataOf(disk, p)
            c == DataOf(disk', p)
            S == BytesOf(disk) \cup Bytes
            w == Store!Overwritten(b, pos, m)
<1>1. /\ t \in Seq(Clusters) /\ s \in Seq(Clusters) /\ Len(data) \in Nat
      /\ old.size \in Nat /\ item.size \in Nat /\ pos \in Nat /\ end \in Nat
      /\ pos <= old.size /\ old.size <= item.size /\ pos <= end /\ end <= item.size
      /\ end <= pos + Len(data) /\ (item.size = end \/ item.size = old.size)
  BY WriteChain
<1>2. /\ p \in AllRefs(disk) /\ At(disk, p) = old /\ old \in Items /\ old.kind = "file"
      /\ s = Chain(disk, old.first) /\ Len(s) = (old.size + CLUSTER - 1) \div CLUSTER
      /\ item \in Items /\ item.kind = "file" /\ Len(t) = (item.size + CLUSTER - 1) \div CLUSTER
      /\ Sound(disk', {}) /\ At(disk', p) = item /\ Chain(disk', item.first) = t
      /\ AllRefs(disk') = AllRefs(disk) /\ data \in Seq(Bytes)
  BY DEF Writes, Appends
<1>3. n \in 0 .. Len(data)
  BY <1>1
<1>4. m \in Seq(Bytes) /\ Len(m) = n /\ \A i \in 1 .. n : m[i] = data[i]
  <2>1. n \in Int /\ n <= Len(data)
    BY <1>3
  <2>2. /\ m \in Seq(Bytes) /\ Len(m) = (IF 1 <= n THEN n ELSE 0)
        /\ \A i \in 1 .. Len(m) : m[i] = data[i]
    BY <1>2, <2>1, FirstOf
  <2>3. Len(m) = n
    BY <1>1, <1>3, <2>2
  <2>. QED
    BY <2>2, <2>3
<1>5. /\ b \in Seq(BytesOf(disk)) /\ Len(b) = old.size
      /\ \A i \in 1 .. old.size : b[i] = ByteAt(disk, s, i)
  <2>1. HasChain(disk, old.first)
    BY <1>2, KeepFacts DEF Sound, Chained
  <2>2. b = Content(disk, old)
    BY <1>2 DEF DataOf
  <2>. QED
    BY <1>2, <2>1, <2>2, ContentIs
<1>6. /\ c \in Seq(BytesOf(disk')) /\ Len(c) = item.size
      /\ \A i \in 1 .. item.size : c[i] = ByteAt(disk', t, i)
  <2>1. HasChain(disk', item.first)
    BY <1>2 DEF Sound, Chained
  <2>2. c = Content(disk', item)
    BY <1>2 DEF DataOf
  <2>. QED
    BY <1>2, <2>1, <2>2, ContentIs
<1>. HIDE DEF n, m, b, c
<1>7. /\ w \in Seq(S) /\ Len(w) = Ends(pos, n, old.size)
      /\ \A i \in 1 .. Len(w) :
            w[i] = IF i <= pos THEN b[i] ELSE IF i <= pos + n THEN m[i - pos] ELSE b[i]
  <2>1. b \in Seq(S) /\ m \in Seq(S) /\ pos \in 0 .. Len(b)
    BY <1>1, <1>4, <1>5
  <2>. HIDE DEF S
  <2>. QED
    BY <1>4, <1>5, <2>1, OverwrittenIs
<1>8. pos + n = end /\ n \in Nat
  BY <1>1 DEF n
<1>9. Len(w) = item.size
  BY <1>1, <1>7, <1>8 DEF Ends
<1>. HIDE DEF w, S
<1>10. ASSUME NEW i \in 1 .. item.size PROVE c[i] = w[i]
  <2>1. c[i] = IF i \in pos + 1 .. end THEN data[i - pos] ELSE ByteAt(g, t, i)
    BY <1>6, ByteWritten
  <2>2. w[i] = IF i <= pos THEN b[i] ELSE IF i <= end THEN m[i - pos] ELSE b[i]
    BY <1>7, <1>8, <1>9
  <2>3. CASE i \in pos + 1 .. end
    <3>1. i - pos \in 1 .. n /\ ~ (i <= pos) /\ i <= end
      BY <1>1, <2>3 DEF n
    <3>. QED
      BY <1>4, <2>1, <2>2, <2>3, <3>1
  <2>4. CASE i \notin pos + 1 .. end
    <3>1. i \in 1 .. old.size /\ (i <= pos \/ ~ (i <= end))
      BY <1>1, <2>4
    <3>2. b[i] = ByteAt(g, t, i)
      BY <1>5, <3>1, ByteBefore
    <3>. QED
      BY <2>1, <2>2, <2>4, <3>1, <3>2
  <2>. QED
    BY <2>3, <2>4
<1>11. c = w
  <2>1. c = [i \in 1 .. item.size |-> c[i]] /\ w = [i \in 1 .. item.size |-> w[i]]
    BY <1>6, <1>7, <1>9
  <2>. QED
    BY <1>10, <2>1
<1>. QED
  BY <1>3, <1>4, <1>11 DEF w, c, b, m, n

LEMMA WriteChanges ==
    ASSUME KeepInv, NEW f, NEW p, NEW old, NEW s, NEW pos, NEW data, NEW g, NEW t, NEW item, NEW end,
           Writes(f, p, old, s, pos, data, g, t, item, end)
    PROVE  Changes(disk, disk', p)
<1>1. /\ p \in AllRefs(disk) /\ At(disk, p) = old /\ old.kind = "file" /\ s = Chain(disk, old.first)
      /\ Grows(disk, g, s, t) /\ Appends(disk, disk', p, item, t) /\ item.kind = "file"
      /\ Follows(disk, disk') /\ disk'.bytes = Filled(g, t, pos, end, data)
  BY DEF Writes
<1>2. ASSUME NEW q \in AllRefs(disk), q # p, NEW c \in Own(disk, q) PROVE SameRow(disk, disk', c)
  <2>1. c \in Clusters /\ disk.fat[c] # UNUSED
    BY KeepFacts, OwnIs DEF Sound
  <2>2. c \notin Range(s)
    BY <1>1, <1>2, KeepFacts DEF Sound, Apart, Own
  <2>3. c \notin Range(t)
    BY <1>1, <2>1, <2>2 DEF Grows
  <2>4. g.bytes[c] = disk.bytes[c]
    BY <1>1, <2>1, <2>3 DEF Grows
  <2>. QED
    BY <1>1, <2>1, <2>3, <2>4 DEF SameRow, Filled
<1>. QED
  BY <1>1, <1>2 DEF Changes, Appends

LEMMA WritePlain ==
    ASSUME KeepInv, NEW f, NEW p, NEW old, NEW s, NEW pos, NEW data, NEW g, NEW t, NEW item, NEW end,
           Writes(f, p, old, s, pos, data, g, t, item, end)
    PROVE  Plain(disk')
<1>1. /\ data \in Seq(Bytes) /\ Grows(disk, g, s, t)
      /\ disk'.bytes = Filled(g, t, pos, end, data)
  BY DEF Writes
<1>2. ASSUME NEW c \in Clusters, NEW o \in 0 .. CLUSTER - 1 PROVE disk'.bytes[c][o] # ERROR
  <2>. DEFINE k == Offset(t, c, o)
  <2>1. disk'.bytes[c][o] = IF c \in Range(t) /\ k \in pos .. end - 1
                            THEN data[k - pos + 1] ELSE g.bytes[c][o]
    BY <1>1 DEF Filled
  <2>2. ASSUME k \in pos .. end - 1 PROVE data[k - pos + 1] # ERROR
    <3>1. pos \in Nat /\ end \in Nat /\ end <= pos + Len(data) /\ Len(data) \in Nat
      BY WriteChain
    <3>. HIDE DEF k
    <3>2. k - pos + 1 \in 1 .. Len(data)
      BY <2>2, <3>1
    <3>3. data[k - pos + 1] \in Bytes
      BY <1>1, <3>2
    <3>. QED
      BY <3>3, FatAssumption
  <2>3. g.bytes[c][o] # ERROR
    <3>1. CASE c \in Range(t) \ Range(s)
      <4>1. g.bytes[c] = Zero
        BY <1>1, <3>1 DEF Grows
      <4>2. Zero[o] = 0
        BY DEF Zero
      <4>. QED
        BY <4>1, <4>2, Limits
    <3>2. CASE c \notin Range(t) \ Range(s)
      BY <1>1, <3>2, KeepFacts DEF Grows, Plain
    <3>. QED
      BY <3>1, <3>2
  <2>. HIDE DEF k
  <2>. QED
    BY <2>1, <2>2, <2>3
<1>. QED
  BY <1>2 DEF Plain

LEMMA WritingImplements ==
    ASSUME KeepInv, NEW f \in Descs, fat16_write(f)
    PROVE  Implements
<1>0. FatInv
  BY DEF KeepInv
<1>1. PICK p, old, s, pos, data, g, t, item, end :
            Writes(f, p, old, s, pos, data, g, t, item, end)
  BY <1>0, WritingIs
<1>. DEFINE S == StoreAs(disk, descs)
            T == StoreAs(disk', descs')
            o == OpenAt(disk, descs[f], f)
            m == SubSeq(data, 1, end - pos)
            path == PathOf(disk, p)
            y == [descs[f] EXCEPT !.item = item, !.pos = end]
<1>2. /\ Writing(descs[f]) /\ descs[f].at = p /\ descs[f].item = old /\ descs[f].pos = pos
      /\ old.kind = "file" /\ p \in AllRefs(disk) /\ data \in Messages
      /\ Sound(disk', {}) /\ AllRefs(disk') = AllRefs(disk)
      /\ descs' = [descs EXCEPT ![f] = y]
  BY <1>1 DEF Writes, Appends
<1>3. OpenFile(f)
  BY <1>2 DEF OpenFile, Writing
<1>4. /\ f \in Used(descs) /\ o \in S.open /\ o.path = path /\ o.pos = pos
      /\ Store!IsFile(S, path) /\ Store!Data(S, path) = DataOf(disk, p)
  BY <1>2, <1>3, UsedFile
<1>5. Changes(disk, disk', p)
  BY <1>1, WriteChanges
<1>6. \A q \in AllRefs(disk) : PathOf(disk', q) = PathOf(disk, q)
  BY <1>2, <1>5, KeepFacts, ChangesOne
<1>7. OpenIn(disk', descs) = OpenIn(disk, descs) /\ OpenAt(disk', descs[f], f) = o
  BY <1>2, <1>6, KeepFacts, OpenStays DEF OpenAt
<1>8. OpenIn(disk', descs') = (OpenIn(disk, descs) \ {o}) \cup {[o EXCEPT !.pos = end]}
  <2>1. descs \in [Descs -> Records] /\ descs[f] \in Records
    BY KeepFacts
  <2>2. y.mode # "closed" /\ y.at = descs[f].at /\ y.pos = end
    BY <1>2, <2>1 DEF Records, Writing
  <2>. HIDE DEF y
  <2>3. OpenIn(disk', descs') = (OpenIn(disk', descs) \ {OpenAt(disk', descs[f], f)})
                                 \cup {[OpenAt(disk', descs[f], f) EXCEPT !.pos = y.pos]}
    <3>1. descs' = [descs EXCEPT ![f] = y]
      BY <1>2
    <3>2. f \in Used(descs)
      BY <1>4
    <3>. QED
      BY <2>1, <2>2, <3>1, <3>2, MovedStore
  <2>. HIDE DEF o
  <2>. QED
    BY <1>7, <2>2, <2>3
<1>9. /\ DataOf(disk', p) = Store!Overwritten(DataOf(disk, p), pos, m)
      /\ Len(m) = end - pos /\ end - pos \in 0 .. Len(data)
  BY <1>1, WrittenData
<1>10. Store!Moved(S, o, end) = [files |-> FilesIn(disk), open |-> OpenIn(disk', descs')]
  BY <1>8, MovedIs DEF StoreAs
<1>11. Store!With([files |-> FilesIn(disk), open |-> OpenIn(disk', descs')], path, DataOf(disk', p)) = T
  BY <1>2, <1>5, <1>6, KeepFacts, StoreWith DEF StoreAs
<1>12. o.pos + Len(m) = end
  <2>1. pos \in Nat /\ end \in Nat
    BY <1>1, WriteChain
  <2>. HIDE DEF m, o
  <2>. QED
    BY <1>4, <1>9, <2>1
<1>. HIDE DEF S, T, o, path
<1>13. T = Store!Written(S, o, m)
  BY <1>4, <1>9, <1>10, <1>11, <1>12 DEF Store!Written
<1>14. T \in Store!Write(S, o)
  BY <1>2, <1>4, <1>9, <1>13 DEF Store!Write
<1>15. Store!Step(S, T)
  BY <1>4, <1>14, OpenStep
<1>16. Named(disk')
  <2>1. PathOf(disk', p) \in StorePaths
    BY <1>2, <1>6, KeepFacts DEF Named
  <2>. QED
    BY <1>2, <1>5, <2>1, KeepFacts, NamedKept
<1>17. Plain(disk')
  BY <1>1, WritePlain
<1>. QED
  BY <1>15, <1>16, <1>17 DEF Implements, S, T

(* No call at all, and the empty disk *)
LEMMA StepImplements ==
    ASSUME Careful, KeepInv, [Next]_vars
    PROVE  KeepInv' /\ Implements
<1>1. FatInv'
  BY FatKept DEF KeepInv
<1>2. Implements
  <2>1. CASE UNCHANGED vars
    BY <2>1, KeepFacts DEF vars, Implements
  <2>2. CASE Next
    <3>1. ASSUME NEW path \in Paths, OpenRead(path) PROVE Implements
      BY <3>1, ReadingImplements
    <3>2. ASSUME NEW path \in Paths, fat16_remove(path) PROVE Implements
      BY <3>2, RemovingImplements
    <3>3. ASSUME NEW path \in Paths, fat16_mkdir(path) PROVE Implements
      BY <3>3, MakingDirImplements
    <3>4. ASSUME NEW path \in Paths, NEW mode \in {"w", "a"}, OpenExisting(path, mode)
          PROVE  Implements
      BY <3>4, OpeningImplements
    <3>5. ASSUME NEW path \in Paths, NEW mode \in {"w", "a"}, OpenNew(path, mode)
          PROVE  Implements
      BY <3>5, NewImplements
    <3>6. ASSUME NEW f \in Descs, fat16_write(f) PROVE Implements
      BY <3>6, WritingImplements
    <3>7. ASSUME NEW f \in Descs, fat16_read(f) \/ fat16_seek(f) PROVE Implements
      BY <3>7, MovingImplements
    <3>8. ASSUME NEW f \in Descs, fat16_close(f) PROVE Implements
      BY <3>8, ClosingImplements
    <3>. QED
      BY <2>2, <3>1, <3>2, <3>3, <3>4, <3>5, <3>6, <3>7, <3>8 DEF Next
  <2>. QED
    BY <2>1, <2>2
<1>3. Named(disk') /\ Plain(disk')
  BY <1>2 DEF Implements
<1>. QED
  BY <1>1, <1>2, <1>3 DEF KeepInv

LEMMA InitKeeps == Init => KeepInv /\ Store!Init
<1>. SUFFICES ASSUME Init PROVE KeepInv /\ Store!Init
  OBVIOUS
<1>1. FatInv
  BY InitGood
<1>2. AllRefs(disk) = {}
  <2>1. SUFFICES ASSUME NEW p \in AllRefs(disk) PROVE FALSE
    OBVIOUS
  <2>2. p \in Cells /\ At(disk, p) \in Items
    BY <1>1, AllRefIs DEF FatInv, Sound
  <2>3. At(disk, p) = End
    <3>1. p[1] \in Clusters \cup {ROOT} /\ p[2] \in Slots(p[1])
      BY <2>2 DEF Cells
    <3>2. disk.items[p[1]] = NoItems(p[1])
      BY <3>1 DEF Init
    <3>. QED
      BY <3>1, <3>2 DEF At, NoItems
  <2>. QED
    BY <2>2, <2>3, Kinds DEF End
<1>3. Used(descs) = {}
  BY DEF Init, Used, Closed
<1>4. StoreOf(disk, descs) = StoreAs(disk, descs)
  BY <1>1, <1>3, StoreIs DEF FatInv
<1>5. StoreAs(disk, descs) = [files |-> {}, open |-> {}]
  BY <1>2, <1>3 DEF StoreAs, FilesIn, OpenIn
<1>6. Plain(disk)
  <2>1. ASSUME NEW c \in Clusters, NEW o \in 0 .. CLUSTER - 1 PROVE disk.bytes[c][o] = 0
    <3>1. disk.bytes[c] = Zero
      BY DEF Init
    <3>. QED
      BY <3>1 DEF Zero
  <2>. QED
    BY <2>1, Limits DEF Plain
<1>7. Named(disk)
  BY <1>2 DEF Named
<1>. QED
  BY <1>1, <1>4, <1>5, <1>6, <1>7 DEF KeepInv, Store!Init

(***************************************************************************)
(* The file system implements FileStore: a call changes the file it names  *)
(* and no other, byte by byte, and the descriptors are where the store has *)
(* them.                                                                   *)
(***************************************************************************)
THEOREM FilesAreStore == ASSUME Careful PROVE Spec => KeepsFiles
<1>1. Init => KeepInv /\ Store!Init
  BY InitKeeps
<1>2. KeepInv /\ [Next]_vars => KeepInv'
  BY StepImplements
<1>3. KeepInv /\ [Next]_vars =>
        [\E d \in {disk'}, ds \in {descs'} :
            \E s \in {StoreOf(disk, descs)}, t \in {StoreOf(d, ds)} :
                t = s \/ Store!Step(s, t)]_vars
  <2>1. SUFFICES ASSUME KeepInv, [Next]_vars
                 PROVE  StoreOf(disk', descs') = StoreOf(disk, descs)
                        \/ Store!Step(StoreOf(disk, descs), StoreOf(disk', descs'))
    OBVIOUS
  <2>2. StoreOf(disk, descs) = StoreAs(disk, descs)
    BY <2>1, KeepFacts, StoreIs
  <2>3. KeepInv' /\ Implements
    BY <2>1, StepImplements
  <2>4. Sound(disk', {}) /\ \A f \in Used(descs') : descs'[f].at \in AllRefs(disk')
    BY <2>3 DEF KeepInv, FatInv, DescsGood, Holds, Used
  <2>5. StoreOf(disk', descs') = StoreAs(disk', descs')
    BY <2>4, StoreIs
  <2>. QED
    BY <2>2, <2>3, <2>5 DEF Implements
<1>. QED
  BY <1>1, <1>2, <1>3, PTL DEF Spec, KeepsFiles
=============================================================================

--------------------------- MODULE SequenceLemmas ---------------------------
(***************************************************************************)
(* Facts about naturals and sequences that the proofs of several components *)
(* need and the library's theorems leave out, and about the sequences of    *)
(* rules of the access maps (Gmap).  Induction is done by a least           *)
(* counterexample, which takes a set where the induction theorems take an   *)
(* operator.                                                                *)
(***************************************************************************)
EXTENDS Integers, Sequences, SequencesExt, Gmap, WellFoundedInduction, FiniteSetTheorems, TLAPS

(* A set of naturals that is not empty has a least element. *)
LEMMA LeastNumber ==
    ASSUME NEW T \in SUBSET Nat, T # {}
    PROVE  \E m \in T : \A k \in T : m <= k
<1> DEFINE R == {ss \in Nat \X Nat : ss[1] < ss[2]}
<1>1. IsWellFoundedOn(R, Nat)
  BY NatLessThanWellFounded DEF OpToRel
<1>2. PICK m \in T : \A k \in T : ~(<<k, m>> \in R)
  BY <1>1, WFMin
<1>3. ASSUME NEW k \in T PROVE m <= k
  <2>1. <<k, m>> \notin R /\ <<k, m>> \in Nat \X Nat
    BY <1>2
  <2> QED
    BY <2>1
<1> QED
  BY <1>3

(* Induction up to a number, over the set of the numbers that have the property. *)
LEMMA InductionUpTo ==
    ASSUME NEW n \in Nat, NEW G \in SUBSET Nat, 0 \in G,
           \A m \in 1..n : m - 1 \in G => m \in G
    PROVE  \A m \in 0..n : m \in G
<1> DEFINE T == {m \in 0..n : m \notin G}
<1> SUFFICES ASSUME T # {} PROVE FALSE
  OBVIOUS
<1>1. PICK m \in T : \A k \in T : m <= k
  <2>1. T \in SUBSET Nat
    OBVIOUS
  <2> HIDE DEF T
  <2> QED
    BY <2>1, LeastNumber
<1>2. m \in 1..n /\ m - 1 \in 0..n
  BY <1>1
<1>3. m - 1 \in G
  BY <1>1, <1>2
<1> QED
  BY <1>1, <1>2, <1>3

(* What taking the first and adding a last element do to a sequence. *)
LEMMA SeqFacts ==
    ASSUME NEW S, NEW s \in Seq(S)
    PROVE  /\ Len(s) \in Nat /\ (s = <<>> <=> Len(s) = 0)
           /\ s # <<>> => Head(s) \in S /\ Tail(s) \in Seq(S) /\ Len(Tail(s)) = Len(s) - 1
           /\ \A x \in S : /\ Append(s, x) \in Seq(S) /\ Append(s, x) # <<>>
                           /\ Len(Append(s, x)) = Len(s) + 1 /\ Append(s, x)[Len(s) + 1] = x
                           /\ \A k \in 1..Len(s) : Append(s, x)[k] = s[k]
<1>1. Len(s) \in Nat /\ (s = <<>> <=> Len(s) = 0)
  OBVIOUS
<1>2. s # <<>> => Head(s) \in S /\ Tail(s) \in Seq(S) /\ Len(Tail(s)) = Len(s) - 1
  OBVIOUS
<1>3. ASSUME NEW x \in S
      PROVE  /\ Append(s, x) \in Seq(S) /\ Len(Append(s, x)) = Len(s) + 1 /\ Append(s, x)[Len(s) + 1] = x
             /\ \A k \in 1..Len(s) : Append(s, x)[k] = s[k]
  OBVIOUS
<1>4. ASSUME NEW x \in S PROVE Append(s, x) # <<>>
  BY <1>1, <1>3
<1> QED
  BY <1>1, <1>2, <1>3, <1>4

-----------------------------------------------------------------------------
(* FlattenSeq is the last value of a recursive function: this one. *)
Flattens(f, seqs, n) == f = [i \in 1..n |-> IF i = 1 THEN seqs[i] ELSE f[i - 1] \o seqs[i]]

LEMMA FlattensExists ==
    ASSUME NEW seqs, NEW n \in Nat
    PROVE  \E f : Flattens(f, seqs, n)
<1> DEFINE G == {m \in Nat : \E f : Flattens(f, seqs, m)}
<1>1. 0 \in G
  <2>1. Flattens([i \in {} |-> 0], seqs, 0)
    BY DEF Flattens
  <2> QED
    BY <2>1
<1>2. ASSUME NEW m \in 1..n, m - 1 \in G PROVE m \in G
  <2>1. PICK f : Flattens(f, seqs, m - 1)
    BY <1>2
  <2> DEFINE g == [i \in 1..m |-> IF i = 1 THEN seqs[i] ELSE f[i - 1] \o seqs[i]]
  <2>2. \A i \in 1..(m - 1) : g[i] = f[i]
    <3>1. \A i \in 1..(m - 1) : f[i] = IF i = 1 THEN seqs[i] ELSE f[i - 1] \o seqs[i]
      BY <2>1 DEF Flattens
    <3> QED
      BY <3>1
  <2>3. ASSUME NEW i \in 1..m PROVE g[i] = IF i = 1 THEN seqs[i] ELSE g[i - 1] \o seqs[i]
    <3>1. CASE i = 1
      BY <3>1
    <3>2. CASE i # 1
      <4>1. i - 1 \in 1..(m - 1)
        BY <3>2
      <4>2. g[i - 1] = f[i - 1]
        BY <2>2, <4>1
      <4> QED
        BY <3>2, <4>2
    <3> QED
      BY <3>1, <3>2
  <2>4. Flattens(g, seqs, m)
    BY <2>3 DEF Flattens
  <2> QED
    BY <2>4
<1>3. n \in G
  <2>1. G \in SUBSET Nat
    OBVIOUS
  <2> HIDE DEF G
  <2>2. \A m \in 0..n : m \in G
    BY <1>1, <1>2, <2>1, InductionUpTo
  <2> QED
    BY <2>2
<1> QED
  BY <1>3

(***************************************************************************)
(* Flattening a sequence of sequences over S gives a sequence over S.       *)
(***************************************************************************)
LEMMA FlattenSeqType ==
    ASSUME NEW S, NEW n \in Nat, NEW seqs \in [1..n -> Seq(S)]
    PROVE  FlattenSeq(seqs) \in Seq(S)
<1>1. seqs \in Seq(Seq(S)) /\ Len(seqs) = n
  OBVIOUS
<1>2. CASE n = 0
  <2>1. seqs = <<>>
    BY <1>1, <1>2
  <2> QED
    BY <1>1, <1>2, <2>1 DEF FlattenSeq
<1>3. CASE n # 0
  <2> DEFINE f == CHOOSE g : g = [i \in 1..Len(seqs) |-> IF i = 1 THEN seqs[i] ELSE g[i - 1] \o seqs[i]]
  <2>1. FlattenSeq(seqs) = f[Len(seqs)]
    BY <1>1, <1>3 DEF FlattenSeq
  <2>2. Flattens(f, seqs, n)
    BY <1>1, FlattensExists DEF Flattens
  <2> HIDE DEF f
  <2> DEFINE G == {m \in Nat : m = 0 \/ f[m] \in Seq(S)}
  <2>3. 0 \in G
    OBVIOUS
  <2>4. ASSUME NEW m \in 1..n, m - 1 \in G PROVE m \in G
    <3>1. f[m] = IF m = 1 THEN seqs[m] ELSE f[m - 1] \o seqs[m]
      BY <2>2 DEF Flattens
    <3>2. seqs[m] \in Seq(S)
      OBVIOUS
    <3>3. CASE m = 1
      BY <3>1, <3>2, <3>3
    <3>4. CASE m # 1
      <4>1. f[m - 1] \in Seq(S)
        BY <2>4, <3>4
      <4>2. f[m - 1] \o seqs[m] \in Seq(S)
        BY <3>2, <4>1
      <4>3. f[m] = f[m - 1] \o seqs[m]
        BY <3>1, <3>4
      <4>4. f[m] \in Seq(S)
        BY <4>2, <4>3, Zenon
      <4> QED
        BY <4>4
    <3> QED
      BY <3>3, <3>4
  <2>5. n \in G
    <3>1. G \in SUBSET Nat
      OBVIOUS
    <3> HIDE DEF G
    <3>2. \A m \in 0..n : m \in G
      BY <2>3, <2>4, <3>1, InductionUpTo
    <3> QED
      BY <3>2
  <2> QED
    BY <1>1, <1>3, <2>1, <2>5
<1> QED
  BY <1>2, <1>3

(* A flattened sequence that is not empty is such a function's last value. *)
LEMMA FlattenIsLast ==
    ASSUME NEW n \in Nat \ {0}, NEW S, NEW seqs \in [1..n -> Seq(S)]
    PROVE  \E f : Flattens(f, seqs, n) /\ FlattenSeq(seqs) = f[n]
<1>1. seqs \in Seq(Seq(S)) /\ Len(seqs) = n /\ seqs # <<>>
  OBVIOUS
<1> DEFINE f == CHOOSE g : g = [i \in 1..Len(seqs) |-> IF i = 1 THEN seqs[i] ELSE g[i - 1] \o seqs[i]]
<1>2. FlattenSeq(seqs) = f[n]
  BY <1>1 DEF FlattenSeq
<1>3. Flattens(f, seqs, n)
  BY <1>1, FlattensExists DEF Flattens
<1> QED
  BY <1>2, <1>3

(***************************************************************************)
(* Flattening sequences of at most one element, as a filter does, gives as  *)
(* many elements as there are sequences that are not empty.                 *)
(***************************************************************************)
LEMMA FilterLength ==
    ASSUME NEW S, NEW n \in Nat, NEW seqs \in [1..n -> Seq(S)], \A i \in 1..n : Len(seqs[i]) <= 1
    PROVE  Len(FlattenSeq(seqs)) = Cardinality({i \in 1..n : seqs[i] # <<>>})
<1> DEFINE Kept(m) == {i \in 1..m : seqs[i] # <<>>}
<1>1. CASE n = 0
  <2>1. seqs = <<>> /\ seqs \in Seq(Seq(S)) /\ Len(seqs) = 0
    BY <1>1
  <2>2. FlattenSeq(seqs) = <<>>
    BY <2>1 DEF FlattenSeq
  <2>3. Kept(n) = {}
    BY <1>1
  <2> QED
    BY <2>2, <2>3, FS_EmptySet
<1>2. CASE n # 0
  <2>1. PICK f : Flattens(f, seqs, n) /\ FlattenSeq(seqs) = f[n]
    BY <1>2, FlattenIsLast
  <2> DEFINE G == {m \in Nat : /\ IsFiniteSet(Kept(m))
                               /\ m # 0 => f[m] \in Seq(S) /\ Len(f[m]) = Cardinality(Kept(m))}
  <2>2. 0 \in G /\ Kept(0) = {}
    <3>1. Kept(0) = {}
      OBVIOUS
    <3> QED
      BY <3>1, FS_EmptySet
  <2>3. ASSUME NEW m \in 1..n, m - 1 \in G PROVE m \in G
    <3>1. f[m] = IF m = 1 THEN seqs[m] ELSE f[m - 1] \o seqs[m]
      BY <2>1 DEF Flattens
    <3>2. seqs[m] \in Seq(S) /\ Len(seqs[m]) \in {0, 1} /\ (Len(seqs[m]) = 0 <=> seqs[m] = <<>>)
      <4>1. seqs[m] \in Seq(S) /\ Len(seqs[m]) <= 1
        OBVIOUS
      <4>2. \A s \in Seq(S) : Len(s) \in Nat /\ (Len(s) = 0 <=> s = <<>>)
        OBVIOUS
      <4>3. Len(seqs[m]) \in Nat /\ (Len(seqs[m]) = 0 <=> seqs[m] = <<>>)
        BY <4>1, <4>2, Zenon
      <4>4. \A x \in Nat : x <= 1 => x \in {0, 1}
        OBVIOUS
      <4> QED
        BY <4>1, <4>3, <4>4, Zenon
    <3>3. IsFiniteSet(Kept(m - 1)) /\ m \notin Kept(m - 1)
      BY <2>3
    <3>4. Cardinality(Kept(m - 1)) \in Nat
      BY <3>3, FS_CardinalityType
    <3>5. IsFiniteSet(Kept(m)) /\ Cardinality(Kept(m)) = Cardinality(Kept(m - 1)) + Len(seqs[m])
      <4>1. CASE seqs[m] = <<>>
        <5>1. Kept(m) = Kept(m - 1)
          BY <4>1
        <5> HIDE DEF Kept
        <5> QED
          BY <3>2, <3>3, <3>4, <4>1, <5>1
      <4>2. CASE seqs[m] # <<>>
        <5>1. Kept(m) = Kept(m - 1) \cup {m}
          BY <4>2
        <5>2. IsFiniteSet(Kept(m)) /\ Cardinality(Kept(m)) = Cardinality(Kept(m - 1)) + 1
          BY <3>3, <5>1, FS_AddElement
        <5> QED
          BY <3>2, <4>2, <5>2
      <4> QED
        BY <4>1, <4>2
    <3>6. f[m] \in Seq(S) /\ Len(f[m]) = Cardinality(Kept(m))
      <4>1. CASE m = 1
        <5>1. Kept(m - 1) = Kept(0)
          BY <4>1
        <5>2. Cardinality(Kept(m - 1)) = 0
          BY <2>2, <5>1, FS_EmptySet
        <5> HIDE DEF Kept
        <5> QED
          BY <3>1, <3>2, <3>5, <4>1, <5>2
      <4>2. CASE m # 1
        <5>1. f[m - 1] \in Seq(S) /\ Len(f[m - 1]) = Cardinality(Kept(m - 1)) /\ f[m] = f[m - 1] \o seqs[m]
          BY <2>3, <3>1, <4>2
        <5>2. f[m - 1] \o seqs[m] \in Seq(S) /\ Len(f[m - 1] \o seqs[m]) = Len(f[m - 1]) + Len(seqs[m])
          BY <3>2, <5>1
        <5>3. f[m] \in Seq(S) /\ Len(f[m]) = Len(f[m - 1]) + Len(seqs[m])
          BY <5>1, <5>2, Zenon
        <5> QED
          BY <3>5, <5>1, <5>3
      <4> QED
        BY <4>1, <4>2
    <3> QED
      BY <3>5, <3>6
  <2>4. n \in G
    <3>1. G \in SUBSET Nat
      OBVIOUS
    <3> HIDE DEF G
    <3>2. \A m \in 0..n : m \in G
      BY <2>2, <2>3, <3>1, InductionUpTo
    <3> QED
      BY <3>2
  <2> QED
    BY <1>2, <2>1, <2>4
<1> QED
  BY <1>1, <1>2

(* A sequence in which every value of A occurs, once, and no other. *)
Enumerates(q, A) ==
    /\ \A j \in 1..Len(q) : q[j] \in A
    /\ \A x \in A : \E j \in 1..Len(q) : q[j] = x
    /\ \A j, k \in 1..Len(q) : q[j] = q[k] => j = k

LEMMA EnumeratesMore ==
    ASSUME NEW S, NEW q \in Seq(S), NEW A, Enumerates(q, A), NEW x \in S, x \notin A
    PROVE  q \o <<x>> \in Seq(S) /\ Enumerates(q \o <<x>>, A \cup {x})
<1> DEFINE n == Len(q)
           r == q \o <<x>>
<1>1. r \in Seq(S) /\ Len(r) = n + 1 /\ r[n + 1] = x /\ n \in Nat /\ \A j \in 1..n : r[j] = q[j]
  OBVIOUS
<1> HIDE DEF r
<1>2. \A j \in 1..n : q[j] \in A
  BY DEF Enumerates
<1>3. \A j \in 1..(n + 1) : j \in 1..n \/ j = n + 1
  BY <1>1
<1> HIDE DEF n
<1>4. \A j \in 1..(n + 1) : r[j] \in A \cup {x}
  BY <1>1, <1>2, <1>3
<1>5. ASSUME NEW y \in A \cup {x} PROVE \E j \in 1..(n + 1) : r[j] = y
  <2>1. CASE y = x
    BY <1>1, <2>1
  <2>2. CASE y \in A
    <3>1. PICK j \in 1..n : q[j] = y
      BY <2>2 DEF Enumerates, n
    <3>2. j \in 1..(n + 1) /\ r[j] = y
      BY <1>1, <3>1
    <3> QED
      BY <3>2
  <2> QED
    BY <2>1, <2>2
<1>6. ASSUME NEW j \in 1..(n + 1), NEW k \in 1..(n + 1), r[j] = r[k] PROVE j = k
  <2>1. CASE j \in 1..n /\ k \in 1..n
    BY <1>1, <1>6, <2>1 DEF Enumerates, n
  <2> QED
    BY <1>1, <1>2, <1>3, <1>6, <2>1
<1>7. Enumerates(r, A \cup {x})
  BY <1>1, <1>4, <1>5, <1>6 DEF Enumerates
<1> QED
  BY <1>1, <1>7 DEF r

(* The numbers of A up to m. *)
UpTo(A, m) == {x \in A : x <= m}

LEMMA UpToGrows ==
    ASSUME NEW n \in Nat, NEW A \in SUBSET (1..n)
    PROVE  /\ UpTo(A, n) = A /\ UpTo(A, 0) = {}
           /\ \A m \in 1..n : /\ m \in A => UpTo(A, m) = UpTo(A, m - 1) \cup {m} /\ m \notin UpTo(A, m - 1)
                              /\ m \notin A => UpTo(A, m) = UpTo(A, m - 1)
<1>1. \A x \in A : x \in Int /\ 1 <= x /\ x <= n
  OBVIOUS
<1>2. UpTo(A, n) = A /\ UpTo(A, 0) = {}
  <2>1. \A x \in A : x <= n /\ ~(x <= 0)
    BY <1>1
  <2> QED
    BY <2>1, Zenon DEF UpTo
<1>3. ASSUME NEW m \in 1..n
      PROVE  /\ m \in A => UpTo(A, m) = UpTo(A, m - 1) \cup {m} /\ m \notin UpTo(A, m - 1)
             /\ m \notin A => UpTo(A, m) = UpTo(A, m - 1)
  <2>1. \A x \in A : x <= m <=> x = m \/ x <= m - 1
    BY <1>1
  <2>2. ~(m <= m - 1)
    OBVIOUS
  <2> QED
    BY <2>1, <2>2, Zenon DEF UpTo
<1> QED
  BY <1>2, <1>3

(***************************************************************************)
(* Filtering the numbers up to n enumerates the ones that are kept.         *)
(***************************************************************************)
LEMMA FilterEnumerates ==
    ASSUME NEW n \in Nat, NEW A \in SUBSET (1..n)
    PROVE  Enumerates(FlattenSeq([s \in 1..n |-> IF s \in A THEN <<s>> ELSE <<>>]), A)
<1> DEFINE seqs == [s \in 1..n |-> IF s \in A THEN <<s>> ELSE <<>>]
<1>0. /\ \A s \in 1..n : <<s>> \in Seq(Nat) /\ <<>> \in Seq(Nat)
      /\ \A s \in 1..n : seqs[s] = IF s \in A THEN <<s>> ELSE <<>>
  OBVIOUS
<1>a. seqs \in [1..n -> Seq(Nat)]
  BY <1>0, Zenon
<1>1. CASE n = 0
  <2>1. seqs = <<>> /\ seqs \in Seq(Seq(Nat)) /\ Len(seqs) = 0 /\ A = {}
    BY <1>1, <1>a
  <2> HIDE DEF seqs
  <2>2. FlattenSeq(seqs) = <<>>
    BY <2>1 DEF FlattenSeq
  <2>3. Enumerates(<<>>, {})
    BY DEF Enumerates
  <2> QED
    BY <2>1, <2>2, <2>3 DEF seqs
<1>2. CASE n # 0
  <2> HIDE DEF seqs
  <2>1. PICK f : Flattens(f, seqs, n) /\ FlattenSeq(seqs) = f[n]
    BY <1>2, <1>a, FlattenIsLast
  <2> DEFINE B(m) == UpTo(A, m)
             G == {m \in Nat : m # 0 => f[m] \in Seq(Nat) /\ Enumerates(f[m], B(m))}
  <2>2. 0 \in G
    OBVIOUS
  <2>c. ASSUME NEW m \in 1..n, m \notin A PROVE B(m) = B(m - 1)
    BY <2>c, UpToGrows
  <2>3. ASSUME NEW m \in 1..n, m - 1 \in G PROVE m \in G
    <3>a. m \in A => B(m) = B(m - 1) \cup {m} /\ m \notin B(m - 1)
      BY UpToGrows
    <3>b. m \notin A => B(m) = B(m - 1)
      BY <2>c, Zenon
    <3>c. m = 1 => B(m - 1) = {}
      BY UpToGrows
    <3>d. m - 1 # 0 => f[m - 1] \in Seq(Nat) /\ Enumerates(f[m - 1], B(m - 1))
      BY <2>3
    <3>e. (m \in A => seqs[m] = <<m>>) /\ (m \notin A => seqs[m] = <<>>) /\ m \in Nat
          /\ <<m>> \in Seq(Nat) /\ <<>> \in Seq(Nat)
      <4>1. (m \in A => seqs[m] = <<m>>) /\ (m \notin A => seqs[m] = <<>>)
        BY <1>0, Zenon
      <4> QED
        BY <4>1
    <3>1. f[m] = IF m = 1 THEN seqs[m] ELSE f[m - 1] \o seqs[m]
      BY <2>1 DEF Flattens
    <3> HIDE DEF B
    <3>2. CASE m = 1
      <4>1. CASE m \in A
        <5>1. seqs[m] = <<m>> /\ B(m) = {m} /\ <<m>> \in Seq(Nat)
          BY <3>2, <3>a, <3>c, <3>e, <4>1
        <5>2. Enumerates(<<m>>, {m})
          BY DEF Enumerates
        <5>3. f[m] \in Seq(Nat) /\ Enumerates(f[m], B(m))
          BY <3>1, <3>2, <5>1, <5>2, Zenon
        <5> QED
          BY <5>3
      <4>2. CASE m \notin A
        <5>1. seqs[m] = <<>> /\ B(m) = {} /\ <<>> \in Seq(Nat)
          BY <3>2, <3>b, <3>c, <3>e, <4>2
        <5>2. Enumerates(<<>>, {})
          BY DEF Enumerates
        <5>3. f[m] \in Seq(Nat) /\ Enumerates(f[m], B(m))
          BY <3>1, <3>2, <5>1, <5>2, Zenon
        <5> QED
          BY <5>3
      <4> QED
        BY <4>1, <4>2
    <3>3. CASE m # 1
      <4>0. f[m - 1] \in Seq(Nat) /\ Enumerates(f[m - 1], B(m - 1)) /\ f[m] = f[m - 1] \o seqs[m]
        <5>1. m - 1 # 0
          BY <3>3
        <5> QED
          BY <3>1, <3>3, <3>d, <5>1, Zenon
      <4>1. CASE m \in A
        <5>1. seqs[m] = <<m>> /\ B(m) = B(m - 1) \cup {m} /\ m \notin B(m - 1) /\ m \in Nat
          BY <3>a, <3>e, <4>1
        <5>2. f[m - 1] \o <<m>> \in Seq(Nat) /\ Enumerates(f[m - 1] \o <<m>>, B(m - 1) \cup {m})
          BY <4>0, <5>1, EnumeratesMore
        <5>3. f[m] \in Seq(Nat) /\ Enumerates(f[m], B(m))
          BY <4>0, <5>1, <5>2, Zenon
        <5> QED
          BY <5>3
      <4>2. CASE m \notin A
        <5>1. seqs[m] = <<>> /\ B(m) = B(m - 1)
          BY <3>b, <3>e, <4>2
        <5>2. \A s \in Seq(Nat) : s \o <<>> = s
          OBVIOUS
        <5>3. f[m] = f[m - 1]
          BY <4>0, <5>1, <5>2, Zenon
        <5>4. f[m] \in Seq(Nat) /\ Enumerates(f[m], B(m))
          BY <4>0, <5>1, <5>3, Zenon
        <5> QED
          BY <5>4
      <4> QED
        BY <4>1, <4>2
    <3> QED
      BY <3>2, <3>3
  <2>4. n \in G
    <3>1. G \in SUBSET Nat
      OBVIOUS
    <3> HIDE DEF G
    <3>2. \A m \in 0..n : m \in G
      BY <2>2, <2>3, <3>1, InductionUpTo
    <3> QED
      BY <3>2
  <2>5. Enumerates(f[n], A)
    BY <1>2, <2>4, UpToGrows
  <2> QED
    BY <2>1, <2>5, Zenon DEF seqs
<1> QED
  BY <1>1, <1>2

(* A sequence enumerates one set only. *)
LEMMA EnumeratesOne ==
    ASSUME NEW q, NEW A, Enumerates(q, A)
    PROVE  {q[k] : k \in 1..Len(q)} = A
BY DEF Enumerates

(* Without its head, a sequence enumerates the other values. *)
LEMMA EnumeratesTail ==
    ASSUME NEW S, NEW q \in Seq(S), q # <<>>, NEW A, Enumerates(q, A)
    PROVE  Head(q) \in A /\ Tail(q) \in Seq(S) /\ Enumerates(Tail(q), A \ {Head(q)})
<1> DEFINE n == Len(q)
           t == Tail(q)
           h == Head(q)
<1>1. n \in Nat \ {0} /\ h = q[1] /\ t \in Seq(S) /\ Len(t) = n - 1 /\ \A j \in 1..(n - 1) : t[j] = q[j + 1]
  OBVIOUS
<1> HIDE DEF t, h
<1>2. \A j \in 1..(n - 1) : j + 1 \in 1..n /\ j + 1 # 1 /\ 1 \in 1..n
  BY <1>1
<1>3. h \in A
  BY <1>1 DEF Enumerates
<1>4. \A j \in 1..(n - 1) : t[j] \in A \ {h}
  BY <1>1, <1>2 DEF Enumerates
<1>5. ASSUME NEW x \in A \ {h} PROVE \E j \in 1..(n - 1) : t[j] = x
  <2>1. PICK j \in 1..n : q[j] = x
    BY DEF Enumerates
  <2>2. j - 1 \in 1..(n - 1) /\ (j - 1) + 1 = j
    BY <1>1, <2>1
  <2> QED
    BY <1>1, <2>1, <2>2
<1>6. ASSUME NEW j \in 1..(n - 1), NEW k \in 1..(n - 1), t[j] = t[k] PROVE j = k
  <2>1. j + 1 \in 1..n /\ k + 1 \in 1..n
    BY <1>2
  <2>2. q[j + 1] = q[k + 1]
    BY <1>1, <1>6
  <2>3. j + 1 = k + 1
    BY <2>1, <2>2, Zenon DEF Enumerates, n
  <2> QED
    BY <1>1, <2>3
<1>7. Enumerates(t, A \ {h})
  BY <1>1, <1>4, <1>5, <1>6 DEF Enumerates
<1> QED
  BY <1>1, <1>3, <1>7 DEF t, h

(***************************************************************************)
(* When every element of a finite set has before it a set of the others,    *)
(* and of any two one has the other and all of what is before the other     *)
(* before it, no two have as many before them, and every number below the   *)
(* number of elements is how many are before some element.                  *)
(***************************************************************************)
LEMMA RanksAreAll ==
    ASSUME NEW S, IsFiniteSet(S), NEW A \in [S -> SUBSET S],
           \A i \in S : i \notin A[i],
           \A i, j \in S : i # j => (j \in A[i] /\ A[j] \subseteq A[i]) \/ (i \in A[j] /\ A[i] \subseteq A[j])
    PROVE  /\ \A i, j \in S : Cardinality(A[i]) = Cardinality(A[j]) => i = j
           /\ \A i, j \in S : j \in A[i] /\ A[j] \subseteq A[i] => Cardinality(A[j]) < Cardinality(A[i])
           /\ \A m \in 1..Cardinality(S) : \E i \in S : Cardinality(A[i]) = m - 1
<1> DEFINE n == Cardinality(S)
<1>1. n \in Nat /\ IsFiniteSet(1..n) /\ Cardinality(1..n) = n
  BY FS_CardinalityType, FS_Interval
<1>2. \A i \in S : IsFiniteSet(A[i]) /\ Cardinality(A[i]) \in Nat
  BY FS_Subset, FS_CardinalityType
<1>3. ASSUME NEW i \in S, NEW j \in S, j \in A[i], A[j] \subseteq A[i]
      PROVE  Cardinality(A[j]) < Cardinality(A[i])
  <2>1. A[j] # A[i]
    BY <1>3
  <2>2. Cardinality(A[j]) <= Cardinality(A[i]) /\ (Cardinality(A[j]) = Cardinality(A[i]) => A[j] = A[i])
    BY <1>2, <1>3, FS_Subset
  <2> QED
    BY <1>2, <2>1, <2>2
<1>4. \A i, j \in S : Cardinality(A[i]) = Cardinality(A[j]) => i = j
  BY <1>2, <1>3
<1> DEFINE f == [i \in S |-> Cardinality(A[i]) + 1]
<1>5. ASSUME NEW i \in S PROVE f[i] \in 1..n
  <2>1. A[i] \subseteq S /\ A[i] # S
    OBVIOUS
  <2>2. Cardinality(A[i]) <= n /\ (Cardinality(A[i]) = n => A[i] = S)
    BY <2>1, FS_Subset
  <2> QED
    BY <1>1, <1>2, <2>1, <2>2
<1>6. f \in Injection(S, 1..n)
  <2>1. f \in [S -> 1..n]
    BY <1>5
  <2>2. \A i, j \in S : f[i] = f[j] => i = j
    BY <1>2, <1>4
  <2> QED
    BY <2>1, <2>2 DEF Injection, IsInjective
<1>7. f \in Surjection(S, 1..n)
  <2> HIDE DEF f
  <2> QED
    BY <1>1, <1>6, FS_Injection
<1>8. \A m \in 1..n : \E i \in S : f[i] = m
  BY <1>7 DEF Surjection
<1>9. ASSUME NEW m \in 1..n PROVE \E i \in S : Cardinality(A[i]) = m - 1
  <2>1. PICK i \in S : f[i] = m
    BY <1>8
  <2>2. Cardinality(A[i]) \in Nat /\ Cardinality(A[i]) + 1 = m
    BY <1>2, <2>1
  <2>3. Cardinality(A[i]) = m - 1
    BY <2>2
  <2> QED
    BY <2>3
<1> QED
  BY <1>3, <1>4, <1>9

(***************************************************************************)
(* The elements of a set, each at the place that is the number of the ones  *)
(* before it: all are there, and each comes after the ones before it.       *)
(***************************************************************************)
LEMMA SortedAscends ==
    ASSUME NEW S, IsFiniteSet(S), NEW A \in [S -> SUBSET S],
           \A i \in S : i \notin A[i],
           \A i, j \in S : i # j => (j \in A[i] /\ A[j] \subseteq A[i]) \/ (i \in A[j] /\ A[i] \subseteq A[j]),
           NEW s, s = [n \in 1..Cardinality(S) |-> s[n]],
           \A n \in 1..Cardinality(S) : (\E x \in S : Cardinality(A[x]) = n - 1) => s[n] \in S /\ Cardinality(A[s[n]]) = n - 1
    PROVE  /\ s \in Seq(S) /\ Len(s) = Cardinality(S)
           /\ \A x \in S : \E k \in 1..Len(s) : s[k] = x
           /\ \A j, k \in 1..Len(s) : j < k => s[j] \in A[s[k]]
<1> DEFINE n == Cardinality(S)
<1>1. n \in Nat
  BY FS_CardinalityType
<1>2. /\ \A i, j \in S : Cardinality(A[i]) = Cardinality(A[j]) => i = j
      /\ \A i, j \in S : j \in A[i] /\ A[j] \subseteq A[i] => Cardinality(A[j]) < Cardinality(A[i])
      /\ \A m \in 1..n : \E i \in S : Cardinality(A[i]) = m - 1
  BY RanksAreAll
<1>3. ASSUME NEW m \in 1..n PROVE s[m] \in S /\ Cardinality(A[s[m]]) = m - 1
  <2>1. \E x \in S : Cardinality(A[x]) = m - 1
    BY <1>2
  <2> QED
    BY <2>1
<1>4. s \in [1..n -> S]
  BY <1>3
<1>5. s \in Seq(S) /\ Len(s) = n
  <2> HIDE DEF n
  <2>1. \A q \in [1..n -> S] : q \in Seq(S) /\ Len(q) = n
    BY <1>1
  <2> QED
    BY <1>4, <2>1
<1>6. ASSUME NEW x \in S PROVE \E k \in 1..n : s[k] = x
  <2>1. IsFiniteSet(A[x]) /\ Cardinality(A[x]) \in Nat /\ Cardinality(A[x]) <= n /\ (Cardinality(A[x]) = n => A[x] = S)
    BY FS_Subset, FS_CardinalityType
  <2>2. A[x] # S
    OBVIOUS
  <2>3. Cardinality(A[x]) + 1 \in 1..n /\ (Cardinality(A[x]) + 1) - 1 = Cardinality(A[x])
    BY <1>1, <2>1, <2>2
  <2>4. s[Cardinality(A[x]) + 1] \in S /\ Cardinality(A[s[Cardinality(A[x]) + 1]]) = Cardinality(A[x])
    BY <1>3, <2>3
  <2>5. s[Cardinality(A[x]) + 1] = x
    BY <1>2, <2>4
  <2> QED
    BY <2>3, <2>5
<1>7. ASSUME NEW j \in 1..n, NEW k \in 1..n, j < k PROVE s[j] \in A[s[k]]
  <2>1. s[j] \in S /\ s[k] \in S /\ Cardinality(A[s[j]]) = j - 1 /\ Cardinality(A[s[k]]) = k - 1
    BY <1>3
  <2>2. s[j] # s[k]
    BY <1>1, <1>7, <2>1
  <2>3. ~(s[k] \in A[s[j]] /\ A[s[k]] \subseteq A[s[j]])
    BY <1>1, <1>2, <1>7, <2>1
  <2> QED
    BY <2>1, <2>2, <2>3
<1> QED
  BY <1>5, <1>6, <1>7

-----------------------------------------------------------------------------
(* Sequences of any values. *)

IsSeq(s) == \E S : s \in Seq(S)
Holds(s, x) == \E k \in DOMAIN s : x = s[k]

(* What two sequences hold. *)
LEMMA SeqsJoined ==
    ASSUME NEW s, NEW t, IsSeq(s), IsSeq(t)
    PROVE  IsSeq(s \o t) /\ \A i \in DOMAIN (s \o t) : Holds(s, (s \o t)[i]) \/ Holds(t, (s \o t)[i])
<1>1. PICK A : s \in Seq(A)
  BY DEF IsSeq
<1>2. PICK B : t \in Seq(B)
  BY DEF IsSeq
<1>3. s \in Seq(A \union B) /\ t \in Seq(A \union B)
  BY <1>1, <1>2
<1>4. s \o t \in Seq(A \union B)
  BY <1>3
<1>5. ASSUME NEW i \in DOMAIN (s \o t) PROVE Holds(s, (s \o t)[i]) \/ Holds(t, (s \o t)[i])
  <2>1. Len(s) \in Nat /\ Len(t) \in Nat /\ i \in 1..(Len(s) + Len(t)) /\ DOMAIN s = 1..Len(s) /\ DOMAIN t = 1..Len(t)
    BY <1>3, <1>5
  <2>2. CASE i <= Len(s)
    <3>1. i \in DOMAIN s /\ (s \o t)[i] = s[i]
      BY <1>3, <2>1, <2>2
    <3> QED
      BY <3>1 DEF Holds
  <2>3. CASE i > Len(s)
    <3>1. i - Len(s) \in DOMAIN t /\ (s \o t)[i] = t[i - Len(s)]
      BY <1>3, <2>1, <2>3
    <3> QED
      BY <3>1 DEF Holds
  <2> QED
    BY <2>1, <2>2, <2>3
<1> QED
  BY <1>4, <1>5 DEF IsSeq

(* What a sequence holds whose first or last is taken. *)
LEMMA SeqTaken ==
    ASSUME NEW s, IsSeq(s), s # <<>>
    PROVE  /\ IsSeq(Tail(s)) /\ \A x : Holds(s, x) => x = Head(s) \/ Holds(Tail(s), x)
           /\ IsSeq(Front(s)) /\ \A x : Holds(s, x) => x = Last(s) \/ Holds(Front(s), x)
<1>1. PICK A : s \in Seq(A)
  BY DEF IsSeq
<1>6. ASSUME NEW i \in DOMAIN s PROVE s[i] = Head(s) \/ Holds(Tail(s), s[i])
  <2>1. Len(s) \in Nat /\ i \in 1..Len(s) /\ Head(s) = s[1] /\ DOMAIN Tail(s) = 1..(Len(s) - 1)
    BY <1>1, <1>6
  <2>2. CASE i = 1
    BY <2>1, <2>2
  <2>3. CASE i # 1
    <3>1. i - 1 \in DOMAIN Tail(s) /\ Tail(s)[i - 1] = s[i]
      BY <1>1, <1>6, <2>1, <2>3
    <3> QED
      BY <3>1 DEF Holds
  <2> QED
    BY <2>2, <2>3
<1>7. ASSUME NEW i \in DOMAIN s PROVE s[i] = Last(s) \/ Holds(Front(s), s[i])
  <2>1. Len(s) \in Nat /\ i \in 1..Len(s) /\ DOMAIN Front(s) = 1..(Len(s) - 1)
    BY <1>1, <1>7 DEF Front
  <2>2. CASE i = Len(s)
    BY <2>2 DEF Last
  <2>3. CASE i # Len(s)
    <3>1. i \in DOMAIN Front(s) /\ Front(s)[i] = s[i]
      BY <1>1, <1>7, <2>1, <2>3 DEF Front
    <3> QED
      BY <3>1 DEF Holds
  <2> QED
    BY <2>2, <2>3
<1>8. Tail(s) \in Seq(A) /\ Front(s) \in Seq(A)
  BY <1>1 DEF Front
<1>9. ASSUME NEW x, Holds(s, x) PROVE (x = Head(s) \/ Holds(Tail(s), x)) /\ (x = Last(s) \/ Holds(Front(s), x))
  <2>1. PICK i \in DOMAIN s : x = s[i]
    BY <1>9 DEF Holds
  <2> QED
    BY <1>6, <1>7, <2>1, Zenon
<1> QED
  BY <1>8, <1>9 DEF IsSeq

(* What a sequence holds that another value is appended to. *)
LEMMA SeqAppended ==
    ASSUME NEW s, IsSeq(s), NEW x
    PROVE  /\ IsSeq(Append(s, x)) /\ Len(s) \in Nat /\ Len(Append(s, x)) = Len(s) + 1
           /\ DOMAIN s = 1..Len(s) /\ DOMAIN Append(s, x) = 1..(Len(s) + 1)
           /\ Append(s, x)[Len(s) + 1] = x /\ \A i \in 1..Len(s) : Append(s, x)[i] = s[i]
<1>1. PICK S : s \in Seq(S)
  BY DEF IsSeq
<1>2. s \in Seq(S \union {x}) /\ x \in S \union {x}
  BY <1>1
<1>3. Append(s, x) \in Seq(S \union {x})
  BY <1>2
<1>4. /\ Len(s) \in Nat /\ Len(Append(s, x)) = Len(s) + 1 /\ DOMAIN s = 1..Len(s) /\ DOMAIN Append(s, x) = 1..(Len(s) + 1)
      /\ Append(s, x)[Len(s) + 1] = x /\ \A i \in 1..Len(s) : Append(s, x)[i] = s[i]
  BY <1>2
<1> QED
  BY <1>3, <1>4 DEF IsSeq

-----------------------------------------------------------------------------
(* Sequences that are put together. *)

(* What s holds last of x and of what is in B is x. *)
LastIn(s, x, B) == \E j \in 1..Len(s) : s[j] = x /\ \A k \in j+1..Len(s) : s[k] \notin B
FreeOf(s, B) == \A k \in 1..Len(s) : s[k] \notin B

LEMMA SeqAt ==
    ASSUME NEW A, NEW s \in Seq(A)
    PROVE  Len(s) \in Nat /\ DOMAIN s = 1..Len(s) /\ \A i \in 1..Len(s) : s[i] \in A
OBVIOUS

LEMMA FunctionSeq ==
    ASSUME NEW A, NEW n \in Nat, NEW f \in [1..n -> A]
    PROVE  f \in Seq(A) /\ Len(f) = n
OBVIOUS

LEMMA RangeSeq ==
    ASSUME NEW A, NEW s \in Seq(A)
    PROVE  s \in Seq(Range(s)) /\ Range(s) \subseteq A
<1>1. Len(s) \in Nat /\ DOMAIN s = 1..Len(s) /\ \A i \in 1..Len(s) : s[i] \in A
  OBVIOUS
<1>2. s \in [1..Len(s) -> Range(s)]
  <2>1. s = [i \in 1..Len(s) |-> s[i]]
    OBVIOUS
  <2>2. \A i \in 1..Len(s) : s[i] \in Range(s)
    BY <1>1 DEF Range
  <2> QED
    BY <2>1, <2>2
<1>3. Range(s) \subseteq A
  BY <1>1 DEF Range
<1> QED
  BY <1>1, <1>2, <1>3, FunctionSeq

LEMMA JoinedAt ==
    ASSUME NEW A, NEW s \in Seq(A), NEW t \in Seq(A)
    PROVE  /\ s \o t \in Seq(A) /\ Len(s \o t) = Len(s) + Len(t) /\ Len(s) \in Nat /\ Len(t) \in Nat
           /\ \A i \in 1..Len(s) : (s \o t)[i] = s[i]
           /\ \A i \in 1..Len(t) : (s \o t)[Len(s) + i] = t[i]
           /\ \A i \in 1..Len(s \o t) : i > Len(s) => i - Len(s) \in 1..Len(t) /\ (s \o t)[i] = t[i - Len(s)]
OBVIOUS

LEMMA JoinedSeqs ==
    ASSUME NEW A, NEW s \in Seq(A), NEW t \in Seq(A)
    PROVE  /\ s \o t \in Seq(A)
           /\ Range(s \o t) = Range(s) \union Range(t)
           /\ \A B : FreeOf(s \o t, B) <=> FreeOf(s, B) /\ FreeOf(t, B)
           /\ \A x, B : LastIn(t, x, B) => LastIn(s \o t, x, B)
           /\ \A x, B : LastIn(s, x, B) /\ FreeOf(t, B) => LastIn(s \o t, x, B)
<1> DEFINE m == Len(s)
           n == Len(t)
           u == s \o t
<1>1. /\ u \in Seq(A) /\ Len(u) = m + n /\ m \in Nat /\ n \in Nat
      /\ \A i \in 1..m : u[i] = s[i]
      /\ \A i \in 1..n : u[m + i] = t[i]
      /\ \A i \in 1..Len(u) : i > m => i - m \in 1..n /\ u[i] = t[i - m]
  BY JoinedAt
<1>2. DOMAIN s = 1..m /\ DOMAIN t = 1..n /\ DOMAIN u = 1..(m + n)
  BY <1>1
<1> HIDE DEF m, n, u
<1>3. Range(u) = Range(s) \union Range(t)
  <2>1. ASSUME NEW i \in 1..(m + n) PROVE u[i] \in Range(s) \union Range(t)
    <3>1. CASE i <= m
      <4>1. i \in 1..m
        BY <1>1, <3>1
      <4> QED
        BY <1>1, <1>2, <4>1 DEF Range
    <3>2. CASE i > m
      BY <1>1, <1>2, <3>2 DEF Range
    <3> QED
      BY <1>1, <3>1, <3>2
  <2>2. ASSUME NEW i \in 1..m PROVE s[i] \in Range(u)
    <3>1. i \in 1..(m + n) /\ u[i] = s[i]
      BY <1>1
    <3> QED
      BY <1>2, <3>1 DEF Range
  <2>3. ASSUME NEW i \in 1..n PROVE t[i] \in Range(u)
    <3>1. m + i \in 1..(m + n) /\ u[m + i] = t[i]
      BY <1>1
    <3> QED
      BY <1>2, <3>1 DEF Range
  <2> QED
    BY <1>2, <2>1, <2>2, <2>3 DEF Range
<1>4. ASSUME NEW B PROVE FreeOf(u, B) <=> FreeOf(s, B) /\ FreeOf(t, B)
  <2>1. FreeOf(u, B) <=> \A x \in Range(u) : x \notin B
    BY <1>1, <1>2 DEF FreeOf, Range
  <2>2. FreeOf(s, B) <=> \A x \in Range(s) : x \notin B
    BY <1>2 DEF FreeOf, Range, m
  <2>3. FreeOf(t, B) <=> \A x \in Range(t) : x \notin B
    BY <1>2 DEF FreeOf, Range, n
  <2> QED
    BY <1>3, <2>1, <2>2, <2>3
<1>5. ASSUME NEW x, NEW B, LastIn(t, x, B) PROVE LastIn(u, x, B)
  <2>1. PICK j \in 1..n : t[j] = x /\ \A k \in j+1..n : t[k] \notin B
    BY <1>5 DEF LastIn, n
  <2>2. m + j \in 1..Len(u) /\ u[m + j] = x
    BY <1>1, <2>1
  <2>3. ASSUME NEW k \in (m + j)+1..Len(u) PROVE u[k] \notin B
    <3>1. k \in 1..Len(u) /\ k > m /\ k - m \in j+1..n
      BY <1>1, <2>1
    <3> QED
      BY <1>1, <2>1, <3>1
  <2> QED
    BY <2>2, <2>3 DEF LastIn
<1>6. ASSUME NEW x, NEW B, LastIn(s, x, B), FreeOf(t, B) PROVE LastIn(u, x, B)
  <2>1. PICK j \in 1..m : s[j] = x /\ \A k \in j+1..m : s[k] \notin B
    BY <1>6 DEF LastIn, m
  <2>2. j \in 1..Len(u) /\ u[j] = x
    BY <1>1, <2>1
  <2>3. ASSUME NEW k \in j+1..Len(u) PROVE u[k] \notin B
    <3>1. CASE k <= m
      <4>1. k \in 1..m /\ k \in j+1..m
        BY <1>1, <2>1, <3>1
      <4> QED
        BY <1>1, <2>1, <4>1
    <3>2. CASE k > m
      <4>1. k \in 1..Len(u)
        BY <1>1, <2>1
      <4> QED
        BY <1>1, <1>6, <3>2, <4>1 DEF FreeOf, n
    <3> QED
      BY <1>1, <3>1, <3>2
  <2> QED
    BY <2>2, <2>3 DEF LastIn
<1>7. u \in Seq(A)
  BY <1>1
<1> QED
  BY <1>3, <1>4, <1>5, <1>6, <1>7 DEF u

LEMMA NothingHeld ==
    /\ \A A : <<>> \in Seq(A)
    /\ Range(<<>>) = {}
    /\ \A B : FreeOf(<<>>, B)
<1>1. ASSUME NEW A PROVE <<>> \in Seq(A)
  OBVIOUS
<1>2. Len(<<>>) = 0 /\ 1..0 = {} /\ DOMAIN <<>> = {}
  OBVIOUS
<1>3. Range(<<>>) = {}
  BY <1>2 DEF Range
<1>4. \A B : FreeOf(<<>>, B)
  BY <1>2 DEF FreeOf
<1> QED
  BY <1>1, <1>3, <1>4

LEMMA OneHeld ==
    ASSUME NEW x
    PROVE  /\ \A A : x \in A => <<x>> \in Seq(A)
           /\ Range(<<x>>) = {x}
           /\ \A B : FreeOf(<<x>>, B) <=> x \notin B
           /\ \A B : LastIn(<<x>>, x, B)
<1>1. Len(<<x>>) = 1 /\ <<x>>[1] = x /\ DOMAIN <<x>> = {1}
  OBVIOUS
<1>2. Range(<<x>>) = {x}
  BY <1>1 DEF Range
<1>3. ASSUME NEW B PROVE (FreeOf(<<x>>, B) <=> x \notin B) /\ LastIn(<<x>>, x, B)
  <2>1. \A k \in 1..1 : k = 1
    OBVIOUS
  <2>2. 1 + 1..1 = {}
    OBVIOUS
  <2> QED
    BY <1>1, <2>1, <2>2 DEF FreeOf, LastIn
<1>4. ASSUME NEW A, x \in A PROVE <<x>> \in Seq(A)
  BY <1>4
<1> QED
  BY <1>2, <1>3, <1>4

LEMMA FlattenedSeqs ==
    ASSUME NEW A, NEW n \in Nat, NEW ss \in [1..n -> Seq(A)]
    PROVE  /\ FlattenSeq(ss) \in Seq(A)
           /\ \A x : x \in Range(FlattenSeq(ss)) <=> \E i \in 1..n : x \in Range(ss[i])
           /\ \A B : FreeOf(FlattenSeq(ss), B) <=> \A i \in 1..n : FreeOf(ss[i], B)
           /\ \A x, B : \A i \in 1..n : LastIn(ss[i], x, B) /\ (\A k \in i+1..n : FreeOf(ss[k], B)) => LastIn(FlattenSeq(ss), x, B)
<1>0. FlattenSeq(ss) \in Seq(A)
  BY FlattenSeqType
<1>1. CASE n = 0
  <2>1. ss = <<>> /\ 1..n = {}
    BY <1>1
  <2>2. FlattenSeq(ss) = <<>>
    BY <2>1 DEF FlattenSeq
  <2>3. \A x : x \notin Range(FlattenSeq(ss))
    BY <2>2, NothingHeld
  <2>4. \A B : FreeOf(FlattenSeq(ss), B)
    BY <2>2, NothingHeld
  <2> QED
    BY <1>0, <2>1, <2>3, <2>4
<1>2. CASE n # 0
  <2>1. PICK f : Flattens(f, ss, n) /\ FlattenSeq(ss) = f[n]
    BY <1>2, FlattenIsLast
  <2>2. \A m \in 1..n : f[m] = IF m = 1 THEN ss[m] ELSE f[m - 1] \o ss[m]
    BY <2>1 DEF Flattens
  <2> DEFINE Good(m) == /\ f[m] \in Seq(A)
                        /\ \A x : x \in Range(f[m]) <=> \E i \in 1..m : x \in Range(ss[i])
                        /\ \A B : FreeOf(f[m], B) <=> \A i \in 1..m : FreeOf(ss[i], B)
                        /\ \A x, B : \A i \in 1..m : LastIn(ss[i], x, B) /\ (\A k \in i+1..m : FreeOf(ss[k], B)) => LastIn(f[m], x, B)
             G == {m \in Nat : m = 0 \/ Good(m)}
  <2>3. 0 \in G
    OBVIOUS
  <2>4. ASSUME NEW m \in 1..n, m - 1 \in G PROVE m \in G
    <3>1. CASE m = 1
      <4>1. f[m] = ss[m] /\ ss[m] \in Seq(A) /\ 1..m = {m}
        BY <2>2, <3>1
      <4>2. Good(m)
        BY <4>1
      <4> QED
        BY <4>2
    <3>2. CASE m # 1
      <4>0. Good(m - 1)
        BY <2>4, <3>2
      <4> HIDE DEF Good
      <4>1. f[m] = f[m - 1] \o ss[m] /\ Good(m - 1) /\ ss[m] \in Seq(A)
        BY <2>2, <3>2, <4>0
      <4> USE DEF Good
      <4>2. \A i : i \in 1..m <=> i \in 1..(m - 1) \/ i = m
        OBVIOUS
      <4>3. /\ f[m] \in Seq(A)
            /\ Range(f[m]) = Range(f[m - 1]) \union Range(ss[m])
            /\ \A B : FreeOf(f[m], B) <=> FreeOf(f[m - 1], B) /\ FreeOf(ss[m], B)
            /\ \A x, B : LastIn(ss[m], x, B) => LastIn(f[m], x, B)
            /\ \A x, B : LastIn(f[m - 1], x, B) /\ FreeOf(ss[m], B) => LastIn(f[m], x, B)
        <5>1. f[m - 1] \in Seq(A)
          BY <4>1
        <5> QED
          BY <4>1, <5>1, JoinedSeqs
      <4>4. \A x : x \in Range(f[m]) <=> \E i \in 1..m : x \in Range(ss[i])
        BY <4>1, <4>2, <4>3
      <4>5. \A B : FreeOf(f[m], B) <=> \A i \in 1..m : FreeOf(ss[i], B)
        BY <4>1, <4>2, <4>3
      <4>6. ASSUME NEW x, NEW B, NEW i \in 1..m, LastIn(ss[i], x, B), \A k \in i+1..m : FreeOf(ss[k], B)
            PROVE  LastIn(f[m], x, B)
        <5>1. CASE i = m
          BY <4>3, <4>6, <5>1
        <5>2. CASE i # m
          <6>1. i \in 1..(m - 1) /\ m \in i+1..m /\ \A k \in i+1..(m - 1) : k \in i+1..m
            BY <5>2
          <6>2. LastIn(f[m - 1], x, B)
            BY <4>1, <4>6, <6>1
          <6> QED
            BY <4>3, <4>6, <6>1, <6>2
        <5> QED
          BY <5>1, <5>2
      <4>7. Good(m)
        BY <4>3, <4>4, <4>5, <4>6
      <4> QED
        BY <4>7
    <3> QED
      BY <3>1, <3>2
  <2>5. n \in G
    <3>1. G \in SUBSET Nat
      OBVIOUS
    <3> HIDE DEF G
    <3>2. \A m \in 0..n : m \in G
      BY <2>3, <2>4, <3>1, InductionUpTo
    <3> QED
      BY <3>2
  <2>6. Good(n)
    BY <1>2, <2>5
  <2> QED
    BY <2>1, <2>6
<1> QED
  BY <1>1, <1>2

-----------------------------------------------------------------------------
(* The evaluation of access rules *)

RuleRec == [path : Seq(Nat), policy : {Public, Forbidden}]

(* The loop of eval_policy over the first n rules. *)
Evaluates(f, rules, target, n) ==
    f = [i \in 0..n |-> IF i = 0 THEN Undecided ELSE Decide(f[i - 1], rules[i], target)]

LEMMA EvaluatesExists ==
    ASSUME NEW rules, NEW target, NEW n \in Nat
    PROVE  \E f : Evaluates(f, rules, target, n)
<1> DEFINE G == {m \in Nat : \E f : Evaluates(f, rules, target, m)}
<1>1. 0 \in G
  <2> DEFINE g == [i \in 0..0 |-> Undecided]
  <2>1. g = [i \in 0..0 |-> IF i = 0 THEN Undecided ELSE Decide(g[i - 1], rules[i], target)]
    OBVIOUS
  <2> HIDE DEF g
  <2>2. Evaluates(g, rules, target, 0)
    BY <2>1 DEF Evaluates
  <2> QED
    BY <2>2
<1>2. ASSUME NEW m \in 1..n, m - 1 \in G PROVE m \in G
  <2>1. PICK f : Evaluates(f, rules, target, m - 1)
    BY <1>2
  <2> DEFINE g == [i \in 0..m |-> IF i = 0 THEN Undecided ELSE Decide(f[i - 1], rules[i], target)]
  <2>2. \A i \in 0..(m - 1) : g[i] = f[i]
    <3>1. \A i \in 0..(m - 1) : f[i] = IF i = 0 THEN Undecided ELSE Decide(f[i - 1], rules[i], target)
      BY <2>1, Zenon DEF Evaluates
    <3>2. \A i \in 0..(m - 1) : i \in 0..m
      OBVIOUS
    <3> QED
      BY <3>1, <3>2
  <2>3. ASSUME NEW i \in 0..m PROVE g[i] = IF i = 0 THEN Undecided ELSE Decide(g[i - 1], rules[i], target)
    <3>1. CASE i = 0
      BY <3>1
    <3>2. CASE i # 0
      <4>1. i - 1 \in 0..(m - 1)
        BY <3>2
      <4>2. g[i - 1] = f[i - 1]
        BY <2>2, <4>1
      <4> QED
        BY <3>2, <4>2
    <3> QED
      BY <3>1, <3>2
  <2>4. Evaluates(g, rules, target, m)
    BY <2>3 DEF Evaluates
  <2> QED
    BY <2>4
<1>3. n \in G
  <2>1. G \in SUBSET Nat
    OBVIOUS
  <2> HIDE DEF G
  <2>2. \A m \in 0..n : m \in G
    BY <1>1, <1>2, <2>1, InductionUpTo
  <2> QED
    BY <2>2
<1> QED
  BY <1>3

(* What eval_policy returns is the policy the loop ends with. *)
LEMMA EvalIsLoop ==
    ASSUME NEW S, NEW rules \in Seq(S), NEW target
    PROVE  \E f : Evaluates(f, rules, target, Len(rules)) /\ eval_policy(rules, target) = f[Len(rules)].policy
<1> DEFINE best == CHOOSE f : Evaluates(f, rules, target, Len(rules))
<1>1. Len(rules) \in Nat
  OBVIOUS
<1>2. Evaluates(best, rules, target, Len(rules))
  BY <1>1, EvaluatesExists, Zenon
<1>3. eval_policy(rules, target) = best[Len(rules)].policy
  BY Zenon DEF eval_policy, Evaluates
<1> HIDE DEF best
<1> QED
  BY <1>2, <1>3

LEMMA RankType ==
    ASSUME NEW path \in Seq(Nat)
    PROVE  specificity_rank(path) \in Nat
<1>1. Len(path) \in Nat
  OBVIOUS
<1> QED
  BY <1>1 DEF specificity_rank

(* A rule's key has four numbers, compared from left to right. *)
LEMMA KeyType ==
    ASSUME NEW path \in Seq(Nat)
    PROVE  CanonicalKey(path) \in [1..4 -> Int]
<1>1. Len(path) \in Nat /\ \A i \in 1..4 : i <= Len(path) => path[i] \in Nat
  OBVIOUS
<1> QED
  BY <1>1 DEF CanonicalKey

KeyLess(a, b) ==
    \/ a[1] < b[1]
    \/ a[1] = b[1] /\ a[2] < b[2]
    \/ a[1] = b[1] /\ a[2] = b[2] /\ a[3] < b[3]
    \/ a[1] = b[1] /\ a[2] = b[2] /\ a[3] = b[3] /\ a[4] < b[4]

LEMMA KeyBeforeIs ==
    ASSUME NEW a \in [1..4 -> Int], NEW b \in [1..4 -> Int]
    PROVE  KeyBefore(a, b) <=> KeyLess(a, b)
<1>1. KeyBefore(a, b) =>  KeyLess(a, b)
  <2> SUFFICES ASSUME NEW i \in 1..4, a[i] < b[i], \A j \in 1..i-1 : a[j] = b[j] PROVE KeyLess(a, b)
    BY DEF KeyBefore
  <2>1. i = 1 \/ i = 2 \/ i = 3 \/ i = 4
    OBVIOUS
  <2>2. i > 1 => a[1] = b[1]
    OBVIOUS
  <2>3. i > 2 => a[2] = b[2]
    OBVIOUS
  <2>4. i > 3 => a[3] = b[3]
    OBVIOUS
  <2> QED
    BY <2>1, <2>2, <2>3, <2>4 DEF KeyLess
<1>2. KeyLess(a, b) => KeyBefore(a, b)
  <2>1. \A i \in 1..4 : \A j \in 1..i-1 : j \in 1..3 /\ j < i
    OBVIOUS
  <2>2. CASE a[1] < b[1]
    BY <2>1, <2>2 DEF KeyBefore
  <2>3. CASE a[1] = b[1] /\ a[2] < b[2]
    BY <2>1, <2>3 DEF KeyBefore
  <2>4. CASE a[1] = b[1] /\ a[2] = b[2] /\ a[3] < b[3]
    BY <2>1, <2>4 DEF KeyBefore
  <2>5. CASE a[1] = b[1] /\ a[2] = b[2] /\ a[3] = b[3] /\ a[4] < b[4]
    BY <2>1, <2>5 DEF KeyBefore
  <2> QED
    BY <2>2, <2>3, <2>4, <2>5 DEF KeyLess
<1> QED
  BY <1>1, <1>2

(* The order of the keys is total and strict. *)
LEMMA KeysOrdered ==
    ASSUME NEW a \in [1..4 -> Int], NEW b \in [1..4 -> Int], NEW c \in [1..4 -> Int]
    PROVE  /\ ~KeyBefore(a, a)
           /\ KeyBefore(a, b) /\ KeyBefore(b, c) => KeyBefore(a, c)
           /\ KeyBefore(a, b) \/ KeyBefore(b, a) \/ a = b
<1>1. /\ a[1] \in Int /\ a[2] \in Int /\ a[3] \in Int /\ a[4] \in Int
      /\ b[1] \in Int /\ b[2] \in Int /\ b[3] \in Int /\ b[4] \in Int
      /\ c[1] \in Int /\ c[2] \in Int /\ c[3] \in Int /\ c[4] \in Int
  OBVIOUS
<1>2. ~KeyLess(a, a)
  BY <1>1 DEF KeyLess
<1>3. KeyLess(a, b) /\ KeyLess(b, c) => KeyLess(a, c)
  BY <1>1 DEF KeyLess
<1>4. KeyLess(a, b) \/ KeyLess(b, a) \/ a = b
  <2>1. ~KeyLess(a, b) /\ ~KeyLess(b, a) => a[1] = b[1] /\ a[2] = b[2] /\ a[3] = b[3] /\ a[4] = b[4]
    BY <1>1 DEF KeyLess
  <2>2. a[1] = b[1] /\ a[2] = b[2] /\ a[3] = b[3] /\ a[4] = b[4] => \A i \in 1..4 : a[i] = b[i]
    OBVIOUS
  <2>3. (\A i \in 1..4 : a[i] = b[i]) => a = b
    OBVIOUS
  <2> QED
    BY <2>1, <2>2, <2>3
<1> QED
  BY <1>2, <1>3, <1>4, KeyBeforeIs

(***************************************************************************)
(* Sorting a file puts every rule in one place.                             *)
(***************************************************************************)
LEMMA SortPermutes ==
    ASSUME NEW rules \in Seq(RuleRec)
    PROVE  \E place \in [1..Len(rules) -> 1..Len(rules)] :
             /\ \A i, j \in 1..Len(rules) : place[i] = place[j] => i = j
             /\ \A i \in 1..Len(rules) : \E m \in 1..Len(rules) : place[m] = i
             /\ SortRules(rules) = [m \in 1..Len(rules) |-> rules[place[m]]]
             /\ \A i, j \in 1..Len(rules) : i < j =>
                  \/ KeyBefore(CanonicalKey(rules[place[i]].path), CanonicalKey(rules[place[j]].path))
                  \/ CanonicalKey(rules[place[i]].path) = CanonicalKey(rules[place[j]].path)
<1> DEFINE n      == Len(rules)
           key(i) == CanonicalKey(rules[i].path)
           A      == [i \in 1..n |-> Ahead(rules, i)]
<1>1. n \in Nat /\ DOMAIN rules = 1..n /\ \A i \in 1..n : rules[i].path \in Seq(Nat)
  <2>1. n \in Nat /\ DOMAIN rules = 1..n /\ \A i \in 1..n : rules[i] \in RuleRec
    OBVIOUS
  <2>2. \A r \in RuleRec : r.path \in Seq(Nat)
    BY DEF RuleRec
  <2> QED
    BY <2>1, <2>2
<1>2. \A i \in 1..n : key(i) \in [1..4 -> Int]
  BY <1>1, KeyType
<1> DEFINE k == [i \in 1..n |-> key(i)]
<1>3. \A i \in 1..n : A[i] = {j \in 1..n : KeyBefore(k[j], k[i]) \/ (k[j] = k[i] /\ j < i)}
  BY <1>1 DEF Ahead
<1>4. k \in [1..n -> [1..4 -> Int]]
  BY <1>2
<1> HIDE DEF n, k
<1>5. A \in [1..n -> SUBSET (1..n)]
  BY <1>1 DEF Ahead
<1> HIDE DEF A
<1>6. ASSUME NEW i \in 1..n PROVE i \notin A[i]
  <2>1. ~KeyBefore(k[i], k[i])
    BY <1>4, KeysOrdered
  <2>2. ~(i < i)
    BY <1>1
  <2> QED
    BY <1>3, <2>1, <2>2
<1>7. ASSUME NEW i \in 1..n, NEW j \in 1..n, KeyBefore(k[j], k[i]) \/ (k[j] = k[i] /\ j < i)
      PROVE  j \in A[i] /\ A[j] \subseteq A[i]
  <2>1. j \in A[i]
    BY <1>3, <1>7
  <2>2. ASSUME NEW h \in A[j] PROVE h \in A[i]
    <3>1. h \in 1..n /\ (KeyBefore(k[h], k[j]) \/ (k[h] = k[j] /\ h < j))
      BY <1>3, <2>2
    <3>2. k[h] \in [1..4 -> Int] /\ k[j] \in [1..4 -> Int] /\ k[i] \in [1..4 -> Int]
      BY <1>4, <3>1
    <3>3. KeyBefore(k[h], k[j]) /\ KeyBefore(k[j], k[i]) => KeyBefore(k[h], k[i])
      BY <3>2, KeysOrdered
    <3>4. KeyBefore(k[h], k[i]) \/ (k[h] = k[i] /\ h < i)
      BY <1>1, <1>7, <3>1, <3>3
    <3> QED
      BY <1>3, <3>1, <3>4
  <2> QED
    BY <2>1, <2>2
<1>8. ASSUME NEW i \in 1..n, NEW j \in 1..n, i # j
      PROVE  (j \in A[i] /\ A[j] \subseteq A[i]) \/ (i \in A[j] /\ A[i] \subseteq A[j])
  <2>1. k[j] \in [1..4 -> Int] /\ k[i] \in [1..4 -> Int]
    BY <1>4
  <2>2. KeyBefore(k[j], k[i]) \/ KeyBefore(k[i], k[j]) \/ k[i] = k[j]
    BY <2>1, KeysOrdered
  <2>3. j < i \/ i < j
    BY <1>1, <1>8
  <2> QED
    BY <1>7, <2>2, <2>3
<1>9. /\ \A i, j \in 1..n : Cardinality(A[i]) = Cardinality(A[j]) => i = j
      /\ \A i, j \in 1..n : j \in A[i] /\ A[j] \subseteq A[i] => Cardinality(A[j]) < Cardinality(A[i])
      /\ \A m \in 1..n : \E i \in 1..n : Cardinality(A[i]) = m - 1
  <2>1. IsFiniteSet(1..n) /\ Cardinality(1..n) = n
    BY <1>1, FS_Interval
  <2> DEFINE S == 1..n
  <2>2. /\ IsFiniteSet(S) /\ Cardinality(S) = n /\ A \in [S -> SUBSET S] /\ \A i \in S : i \notin A[i]
        /\ \A i, j \in S : i # j => (j \in A[i] /\ A[j] \subseteq A[i]) \/ (i \in A[j] /\ A[i] \subseteq A[j])
    BY <1>5, <1>6, <1>8, <2>1
  <2> HIDE DEF S
  <2>3. /\ \A i, j \in S : Cardinality(A[i]) = Cardinality(A[j]) => i = j
        /\ \A i, j \in S : j \in A[i] /\ A[j] \subseteq A[i] => Cardinality(A[j]) < Cardinality(A[i])
        /\ \A m \in 1..Cardinality(S) : \E i \in S : Cardinality(A[i]) = m - 1
    BY <2>2, RanksAreAll
  <2>4. /\ \A i, j \in S : Cardinality(A[i]) = Cardinality(A[j]) => i = j
        /\ \A i, j \in S : j \in A[i] /\ A[j] \subseteq A[i] => Cardinality(A[j]) < Cardinality(A[i])
        /\ \A m \in 1..n : \E i \in S : Cardinality(A[i]) = m - 1
    BY <2>2, <2>3, Zenon
  <2> QED
    BY <2>4, Zenon DEF S
<1> DEFINE place == [m \in 1..n |-> CHOOSE i \in 1..n : Cardinality(A[i]) = m - 1]
<1>10. \A m \in 1..n : place[m] \in 1..n /\ Cardinality(A[place[m]]) = m - 1
  BY <1>9
<1>11. SortRules(rules) = [m \in 1..n |-> rules[place[m]]]
  <2>1. \A i \in 1..n : A[i] = Ahead(rules, i)
    BY DEF A
  <2>2. ASSUME NEW m \in 1..n
        PROVE  (CHOOSE i \in 1..n : Cardinality(Ahead(rules, i)) = m - 1) = place[m]
    <3>1. \A i \in 1..n : (Cardinality(Ahead(rules, i)) = m - 1) <=> (Cardinality(A[i]) = m - 1)
      BY <2>1, Zenon
    <3>2. (CHOOSE i \in 1..n : Cardinality(Ahead(rules, i)) = m - 1) = CHOOSE i \in 1..n : Cardinality(A[i]) = m - 1
      BY <3>1, Zenon
    <3> QED
      BY <3>2
  <2>3. SortRules(rules) = [m \in 1..n |-> rules[CHOOSE i \in 1..n : Cardinality(Ahead(rules, i)) = m - 1]]
    <3>1. SortRules(rules) = [m \in DOMAIN rules |-> rules[CHOOSE i \in DOMAIN rules : Cardinality(Ahead(rules, i)) = m - 1]]
      BY Zenon DEF SortRules
    <3>2. DOMAIN rules = 1..n
      BY <1>1
    <3> QED
      BY <3>1, <3>2
  <2> HIDE DEF place
  <2> QED
    BY <2>2, <2>3, Zenon
<1> HIDE DEF place
<1>12. place \in [1..n -> 1..n]
  BY <1>10 DEF place
<1>13. ASSUME NEW i \in 1..n, NEW j \in 1..n, place[i] = place[j] PROVE i = j
  <2>1. i - 1 = j - 1
    BY <1>10, <1>13
  <2> QED
    BY <1>1, <2>1
<1>14. place \in Injection(1..n, 1..n)
  BY <1>12, <1>13 DEF Injection, IsInjective
<1>15. IsFiniteSet(1..n)
  BY <1>1, FS_Interval
<1>16. place \in Surjection(1..n, 1..n)
  BY <1>14, <1>15, FS_Injection
<1>17. \A i \in 1..n : \E m \in 1..n : place[m] = i
  BY <1>16 DEF Surjection
<1>18. ASSUME NEW i \in 1..n, NEW j \in 1..n, i < j
       PROVE  KeyBefore(k[place[i]], k[place[j]]) \/ k[place[i]] = k[place[j]]
  <2> DEFINE a == place[i]
             c == place[j]
  <2>1. a \in 1..n /\ c \in 1..n /\ a # c
    BY <1>1, <1>10, <1>13, <1>18
  <2>2. Cardinality(A[a]) = i - 1 /\ Cardinality(A[c]) = j - 1
    BY <1>10
  <2> HIDE DEF a, c
  <2>3. ~(Cardinality(A[c]) < Cardinality(A[a]))
    BY <1>1, <1>18, <2>2
  <2>4. a \in A[c]
    BY <1>8, <1>9, <2>1, <2>3
  <2> QED
    BY <1>3, <2>1, <2>4 DEF a, c
<1>19. \A i \in 1..n : k[place[i]] = CanonicalKey(rules[place[i]].path)
  BY <1>10 DEF k
<1>20. \A i, j \in 1..n : i < j => \/ KeyBefore(CanonicalKey(rules[place[i]].path), CanonicalKey(rules[place[j]].path))
                                   \/ CanonicalKey(rules[place[i]].path) = CanonicalKey(rules[place[j]].path)
  BY <1>18, <1>19
<1> QED
  BY <1>11, <1>12, <1>13, <1>17, <1>20 DEF n

-----------------------------------------------------------------------------
(* What a file says of a path. *)

FileRec == [commented : BOOLEAN, rules : Seq(RuleRec)]

Unique(rules) == \A i, j \in DOMAIN rules : rules[i].path = rules[j].path => i = j

(* In a file with one rule for a path at most, that rule is what it says. *)
LEMMA LastOfUnique ==
    ASSUME NEW rules \in Seq(RuleRec), Unique(rules)
    PROVE  /\ \A i \in DOMAIN rules : LastPolicy(rules, rules[i].path) = rules[i].policy
           /\ \A x : (\A i \in DOMAIN rules : rules[i].path # x) => LastPolicy(rules, x) = NoDecision
<1>1. ASSUME NEW i \in DOMAIN rules PROVE LastPolicy(rules, rules[i].path) = rules[i].policy
  <2>1. Hits(rules, rules[i].path) = {i}
    BY DEF Hits, Unique
  <2>2. i \in Nat
    OBVIOUS
  <2>3. Max({i}) = i
    BY <2>2 DEF Max
  <2> QED
    BY <2>1, <2>3 DEF LastPolicy
<1>2. ASSUME NEW x, \A i \in DOMAIN rules : rules[i].path # x PROVE LastPolicy(rules, x) = NoDecision
  BY <1>2 DEF LastPolicy, Hits
<1> QED
  BY <1>1, <1>2

(* Sorting keeps what a file says. *)
LEMMA SortKeeps ==
    ASSUME NEW rules \in Seq(RuleRec)
    PROVE  /\ SortRules(rules) \in Seq(RuleRec)
           /\ Unique(rules) => /\ Unique(SortRules(rules))
                               /\ \A x : LastPolicy(SortRules(rules), x) = LastPolicy(rules, x)
<1> DEFINE n == Len(rules)
           sorted == SortRules(rules)
<1>1. PICK place \in [1..n -> 1..n] :
        /\ \A i, j \in 1..n : place[i] = place[j] => i = j
        /\ \A i \in 1..n : \E m \in 1..n : place[m] = i
        /\ sorted = [m \in 1..n |-> rules[place[m]]]
  BY SortPermutes
<1>2. n \in Nat /\ DOMAIN rules = 1..n /\ \A i \in 1..n : rules[i] \in RuleRec
  OBVIOUS
<1> HIDE DEF n, sorted
<1>3. sorted \in Seq(RuleRec) /\ DOMAIN sorted = 1..n /\ \A m \in 1..n : sorted[m] = rules[place[m]]
  <2>1. \A m \in 1..n : rules[place[m]] \in RuleRec
    BY <1>1, <1>2
  <2>2. sorted \in [1..n -> RuleRec]
    BY <1>1, <2>1
  <2> QED
    BY <1>1, <1>2, <2>2
<1>4. ASSUME Unique(rules) PROVE Unique(sorted)
  <2> SUFFICES ASSUME NEW i \in 1..n, NEW j \in 1..n, sorted[i].path = sorted[j].path PROVE i = j
    BY <1>3 DEF Unique
  <2>1. place[i] \in 1..n /\ place[j] \in 1..n /\ rules[place[i]].path = rules[place[j]].path
    BY <1>1, <1>3
  <2>2. place[i] = place[j]
    BY <1>2, <1>4, <2>1 DEF Unique
  <2> QED
    BY <1>1, <2>2
<1>5. ASSUME Unique(rules), NEW x PROVE LastPolicy(sorted, x) = LastPolicy(rules, x)
  <2>1. CASE \E i \in 1..n : rules[i].path = x
    <3>1. PICK i \in 1..n : rules[i].path = x
      BY <2>1
    <3>2. PICK m \in 1..n : place[m] = i
      BY <1>1
    <3>3. sorted[m] = rules[i]
      BY <1>3, <3>2
    <3>4. LastPolicy(sorted, sorted[m].path) = sorted[m].policy
      BY <1>3, <1>4, <1>5, LastOfUnique
    <3>5. LastPolicy(rules, rules[i].path) = rules[i].policy
      BY <1>2, <1>5, LastOfUnique
    <3> QED
      BY <3>1, <3>3, <3>4, <3>5
  <2>2. CASE \A i \in 1..n : rules[i].path # x
    <3>1. \A m \in DOMAIN sorted : sorted[m].path # x
      BY <1>1, <1>3, <2>2
    <3>2. LastPolicy(sorted, x) = NoDecision
      BY <1>3, <1>4, <1>5, <3>1, LastOfUnique
    <3>3. LastPolicy(rules, x) = NoDecision
      BY <1>2, <1>5, <2>2, LastOfUnique
    <3> QED
      BY <3>2, <3>3
  <2> QED
    BY <2>1, <2>2
<1> QED
  BY <1>3, <1>4, <1>5 DEF sorted

(* The rule that is put changes what is said of its path, and of no other. *)
LEMMA PutKeeps ==
    ASSUME NEW rules \in Seq(RuleRec), NEW path \in Seq(Nat), NEW pol \in {Public, Forbidden},
           NEW hits, hits = {} \/ hits = Hits(rules, path)
    PROVE  /\ PutFirst(rules, hits, path, pol) \in Seq(RuleRec)
           /\ Unique(rules) /\ hits = Hits(rules, path) =>
                /\ Unique(PutFirst(rules, hits, path, pol))
                /\ \A x : LastPolicy(PutFirst(rules, hits, path, pol), x) = IF x = path THEN pol ELSE LastPolicy(rules, x)
<1> DEFINE n == Len(rules)
           r == Rule(path, pol)
           put == PutFirst(rules, hits, path, pol)
<1>1. n \in Nat /\ DOMAIN rules = 1..n /\ \A i \in 1..n : rules[i] \in RuleRec
  OBVIOUS
<1>2. r \in RuleRec /\ r.path = path /\ r.policy = pol
  BY DEF Rule, RuleRec
<1> HIDE DEF n, r
<1>3. CASE hits = {}
  <2>1. put = Append(rules, r)
    BY <1>3 DEF PutFirst, r
  <2> HIDE DEF put
  <2>2. /\ put \in Seq(RuleRec) /\ DOMAIN put = 1..(n + 1)
        /\ \A i \in 1..n : put[i] = rules[i]
        /\ put[n + 1] = r
    BY <1>2, <2>1 DEF n
  <2>3. ASSUME Unique(rules), hits = Hits(rules, path)
        PROVE  Unique(put) /\ \A x : LastPolicy(put, x) = IF x = path THEN pol ELSE LastPolicy(rules, x)
    <3>1. \A i \in 1..n : rules[i].path # path
      BY <1>1, <1>3, <2>3 DEF Hits
    <3>2. \A i \in 1..(n + 1) : i = n + 1 \/ i \in 1..n
      BY <1>1
    <3>3. Unique(put)
      <4> SUFFICES ASSUME NEW i \in 1..(n + 1), NEW j \in 1..(n + 1), put[i].path = put[j].path PROVE i = j
        BY <2>2 DEF Unique
      <4>1. CASE i \in 1..n /\ j \in 1..n
        BY <1>1, <2>2, <2>3, <4>1 DEF Unique
      <4> QED
        BY <1>2, <2>2, <3>1, <3>2, <4>1
    <3>4. ASSUME NEW x PROVE LastPolicy(put, x) = IF x = path THEN pol ELSE LastPolicy(rules, x)
      <4>1. CASE x = path
        <5>1. n + 1 \in DOMAIN put /\ put[n + 1].path = path /\ put[n + 1].policy = pol
          BY <1>1, <1>2, <2>2
        <5> QED
          BY <2>2, <3>3, <4>1, <5>1, LastOfUnique
      <4>2. CASE x # path /\ \E i \in 1..n : rules[i].path = x
        <5>1. PICK i \in 1..n : rules[i].path = x
          BY <4>2
        <5>2. i \in DOMAIN put /\ put[i] = rules[i] /\ i \in DOMAIN rules
          BY <1>1, <2>2
        <5>3. LastPolicy(put, put[i].path) = put[i].policy
          BY <2>2, <3>3, <5>2, LastOfUnique
        <5>4. LastPolicy(rules, rules[i].path) = rules[i].policy
          BY <2>3, <5>2, LastOfUnique
        <5> QED
          BY <4>2, <5>1, <5>2, <5>3, <5>4
      <4>3. CASE x # path /\ \A i \in 1..n : rules[i].path # x
        <5>1. \A i \in DOMAIN put : put[i].path # x
          BY <1>2, <2>2, <3>2, <4>3
        <5>2. LastPolicy(put, x) = NoDecision
          BY <2>2, <3>3, <5>1, LastOfUnique
        <5>3. LastPolicy(rules, x) = NoDecision
          BY <1>1, <2>3, <4>3, LastOfUnique
        <5> QED
          BY <4>3, <5>2, <5>3
      <4> QED
        BY <4>1, <4>2, <4>3
    <3> QED
      BY <3>3, <3>4
  <2> QED
    BY <2>2, <2>3 DEF put
<1>4. CASE hits # {}
  <2>1. hits = Hits(rules, path)
    BY <1>4
  <2> DEFINE h == Min(hits)
  <2>2. h \in hits
    <3>1. hits \in SUBSET Nat
      BY <1>1, <2>1 DEF Hits
    <3>2. \E m \in hits : \A k \in hits : m <= k
      BY <1>4, <3>1, LeastNumber
    <3> QED
      BY <3>2 DEF Min
  <2> HIDE DEF h
  <2>3. h \in 1..n /\ rules[h].path = path
    BY <1>1, <2>1, <2>2 DEF Hits
  <2>4. put = [rules EXCEPT ![h].policy = pol]
    BY <1>4 DEF PutFirst, SetPolicy, h
  <2> HIDE DEF put
  <2>5. rules[h] = [path |-> rules[h].path, policy |-> rules[h].policy]
    BY <1>1, <2>3 DEF RuleRec
  <2>6. put[h].path = path /\ put[h].policy = pol /\ put[h] \in RuleRec
    <3>1. put[h] = [rules[h] EXCEPT !.policy = pol]
      BY <1>1, <2>3, <2>4
    <3>2. rules[h] \in RuleRec
      BY <1>1, <2>3
    <3> QED
      BY <2>3, <2>5, <3>1, <3>2 DEF RuleRec
  <2>7. DOMAIN put = 1..n /\ \A i \in 1..n : i # h => put[i] = rules[i]
    BY <1>1, <2>4
  <2>8. put \in Seq(RuleRec)
    <3>1. put \in [1..n -> RuleRec]
      <4>1. put = [i \in 1..n |-> put[i]]
        BY <1>1, <2>4
      <4> QED
        BY <1>1, <2>6, <2>7, <4>1
    <3> QED
      BY <1>1, <3>1
  <2>9. ASSUME Unique(rules)
        PROVE  Unique(put) /\ \A x : LastPolicy(put, x) = IF x = path THEN pol ELSE LastPolicy(rules, x)
    <3>1. \A i \in 1..n : put[i].path = rules[i].path
      BY <2>3, <2>6, <2>7
    <3>2. Unique(put)
      BY <1>1, <2>7, <2>9, <3>1 DEF Unique
    <3>3. ASSUME NEW x PROVE LastPolicy(put, x) = IF x = path THEN pol ELSE LastPolicy(rules, x)
      <4>1. CASE x = path
        BY <2>3, <2>6, <2>7, <2>8, <3>2, <4>1, LastOfUnique
      <4>2. CASE x # path /\ \E i \in 1..n : rules[i].path = x
        <5>1. PICK i \in 1..n : rules[i].path = x
          BY <4>2
        <5>2. i \in DOMAIN put /\ put[i] = rules[i] /\ i \in DOMAIN rules
          BY <1>1, <2>3, <2>7, <4>2, <5>1
        <5>3. LastPolicy(put, put[i].path) = put[i].policy
          BY <2>8, <3>2, <5>2, LastOfUnique
        <5>4. LastPolicy(rules, rules[i].path) = rules[i].policy
          BY <2>9, <5>2, LastOfUnique
        <5> QED
          BY <4>2, <5>1, <5>2, <5>3, <5>4
      <4>3. CASE x # path /\ \A i \in 1..n : rules[i].path # x
        <5>1. \A i \in DOMAIN put : put[i].path # x
          BY <2>7, <3>1, <4>3
        <5>2. LastPolicy(put, x) = NoDecision
          BY <2>8, <3>2, <5>1, LastOfUnique
        <5>3. LastPolicy(rules, x) = NoDecision
          BY <1>1, <2>9, <4>3, LastOfUnique
        <5> QED
          BY <4>3, <5>2, <5>3
      <4> QED
        BY <4>1, <4>2, <4>3
    <3> QED
      BY <3>2, <3>3
  <2> QED
    BY <2>8, <2>9 DEF put
<1> QED
  BY <1>3, <1>4

(* upsert_policy, in a file with comments and in one without. *)
LEMMA UpsertKeeps ==
    ASSUME NEW file \in FileRec, NEW meant, meant.names \in Seq(Nat), NEW pol \in {Public, Forbidden}
    PROVE  /\ upsert_policy(file, meant, pol) \in FileRec
           /\ Unique(file.rules) /\ meant.plain =>
                /\ Unique(upsert_policy(file, meant, pol).rules)
                /\ \A x : LastPolicy(upsert_policy(file, meant, pol).rules, x) =
                            IF x = meant.names THEN pol ELSE LastPolicy(file.rules, x)
<1> DEFINE new == upsert_policy(file, meant, pol)
           lines == PutFirst(file.rules, SpelledHits(file.rules, meant), meant.names, pol)
           anew == PutFirst(file.rules, Hits(file.rules, meant.names), meant.names, pol)
<1>1. file.rules \in Seq(RuleRec) /\ file.commented \in BOOLEAN /\ file = [commented |-> file.commented, rules |-> file.rules]
  BY DEF FileRec
<1>2. new = [file EXCEPT !.rules = IF file.commented THEN lines ELSE SortRules(anew)]
  BY <1>1 DEF upsert_policy, upsert_preserving_lines, upsert_rule
<1>3. /\ lines \in Seq(RuleRec)
      /\ Unique(file.rules) /\ meant.plain =>
           Unique(lines) /\ \A x : LastPolicy(lines, x) = IF x = meant.names THEN pol ELSE LastPolicy(file.rules, x)
  <2>1. SpelledHits(file.rules, meant) = {} \/ SpelledHits(file.rules, meant) = Hits(file.rules, meant.names)
    BY DEF SpelledHits
  <2>2. meant.plain => SpelledHits(file.rules, meant) = Hits(file.rules, meant.names)
    BY DEF SpelledHits
  <2> QED
    BY <1>1, <2>1, <2>2, PutKeeps
<1>4. /\ anew \in Seq(RuleRec)
      /\ Unique(file.rules) =>
           Unique(anew) /\ \A x : LastPolicy(anew, x) = IF x = meant.names THEN pol ELSE LastPolicy(file.rules, x)
  BY <1>1, PutKeeps
<1> HIDE DEF lines, anew, new
<1>5. /\ SortRules(anew) \in Seq(RuleRec)
      /\ Unique(file.rules) =>
           /\ Unique(SortRules(anew))
           /\ \A x : LastPolicy(SortRules(anew), x) = IF x = meant.names THEN pol ELSE LastPolicy(file.rules, x)
  BY <1>4, SortKeeps, Zenon
<1>6. new.rules = (IF file.commented THEN lines ELSE SortRules(anew)) /\ new.commented = file.commented
  BY <1>1, <1>2
<1>7. new \in FileRec
  <2>1. (IF file.commented THEN lines ELSE SortRules(anew)) \in Seq(RuleRec)
    BY <1>3, <1>5
  <2> QED
    BY <1>1, <1>2, <2>1 DEF FileRec
<1>8. CASE file.commented
  BY <1>3, <1>6, <1>7, <1>8 DEF new
<1>9. CASE ~file.commented
  BY <1>5, <1>6, <1>7, <1>9 DEF new
<1> QED
  BY <1>8, <1>9

-----------------------------------------------------------------------------
(* Files that say the same and are sorted are the same. *)

Short(rules) == \A i \in DOMAIN rules : Len(rules[i].path) <= 3
SaySame(f, g) == \A x : LastPolicy(f, x) = LastPolicy(g, x)

LEMMA KeysTellApart ==
    ASSUME NEW a \in Seq(Nat), NEW b \in Seq(Nat), Len(a) <= 3, Len(b) <= 3, CanonicalKey(a) = CanonicalKey(b)
    PROVE  a = b
<1> DEFINE letter(p, i) == IF i <= Len(p) /\ ~(i = 2 /\ AnyFlow(p)) THEN p[i] ELSE -1
           rank(p) == IF p = <<>> THEN 0 ELSE IF AnyFlow(p) THEN 1 ELSE Len(p) + 1
<1>1. ASSUME NEW p \in Seq(Nat) PROVE CanonicalKey(p) = <<rank(p), letter(p, 1), letter(p, 2), letter(p, 3)>>
  <2>1. p = <<>> => ~AnyFlow(p)
    BY DEF AnyFlow
  <2>2. CASE p = <<>>
    BY <2>1, <2>2, Zenon DEF CanonicalKey
  <2>3. CASE AnyFlow(p)
    BY <2>1, <2>3, Zenon DEF CanonicalKey
  <2>4. CASE p # <<>> /\ ~AnyFlow(p)
    BY <2>4, Zenon DEF CanonicalKey
  <2> QED
    BY <2>2, <2>3, <2>4
<1>2. rank(a) = rank(b) /\ letter(a, 1) = letter(b, 1) /\ letter(a, 2) = letter(b, 2) /\ letter(a, 3) = letter(b, 3)
  <2>1. <<rank(a), letter(a, 1), letter(a, 2), letter(a, 3)>> = <<rank(b), letter(b, 1), letter(b, 2), letter(b, 3)>>
    <3>1. CanonicalKey(a) = <<rank(a), letter(a, 1), letter(a, 2), letter(a, 3)>>
      BY <1>1
    <3>2. CanonicalKey(b) = <<rank(b), letter(b, 1), letter(b, 2), letter(b, 3)>>
      BY <1>1
    <3> HIDE DEF rank, letter
    <3> QED
      BY <3>1, <3>2, Zenon
  <2> HIDE DEF rank, letter
  <2> QED
    BY <2>1
<1>3. Len(a) \in 0..3 /\ Len(b) \in 0..3
  <2> HIDE DEF letter, rank
  <2> DEFINE m == Len(a)
             n == Len(b)
  <2>1. m \in Nat /\ n \in Nat /\ m <= 3 /\ n <= 3
    BY SeqAt
  <2> HIDE DEF m, n
  <2>2. m \in 0..3 /\ n \in 0..3
    BY <2>1
  <2> QED
    BY <2>2 DEF m, n
<1>4. \A p \in {a, b} : AnyFlow(p) <=> Len(p) = 2 /\ p[2] = 0
  BY DEF AnyFlow, Wild
<1>5. Len(a) = 0 <=> a = <<>>
  OBVIOUS
<1>6. Len(b) = 0 <=> b = <<>>
  OBVIOUS
<1>7. Len(a) = Len(b)
  BY <1>2, <1>3, <1>4, <1>5, <1>6
<1>8. \A i \in 1..Len(a) : a[i] = b[i]
  <2>1. \A i \in 1..Len(a) : i = 1 \/ i = 2 \/ i = 3
    BY <1>3
  <2>2. AnyFlow(a) <=> AnyFlow(b)
    BY <1>2, <1>3, <1>4, <1>5, <1>6, <1>7
  <2>3. Len(a) >= 1 => a[1] = b[1]
    BY <1>2, <1>3, <1>7
  <2>4. Len(a) >= 2 => a[2] = b[2]
    BY <1>2, <1>3, <1>4, <1>7, <2>2
  <2>5. Len(a) >= 3 => a[3] = b[3]
    BY <1>2, <1>3, <1>7
  <2> TAKE i \in 1..Len(a)
  <2>6. Len(a) \in Nat /\ 1 <= i /\ i <= Len(a) /\ i \in Nat
    OBVIOUS
  <2>7. CASE i = 1
    BY <2>3, <2>6, <2>7
  <2>8. CASE i = 2
    BY <2>4, <2>6, <2>8
  <2>9. CASE i = 3
    BY <2>5, <2>6, <2>9
  <2> QED
    BY <2>1, <2>7, <2>8, <2>9
<1>9. a = [i \in 1..Len(a) |-> a[i]] /\ b = [i \in 1..Len(b) |-> b[i]]
  OBVIOUS
<1> QED
  BY <1>7, <1>8, <1>9, Zenon

Rising(rules) ==
    \A i, j \in 1..Len(rules) : i < j => KeyBefore(CanonicalKey(rules[i].path), CanonicalKey(rules[j].path))

(* Sequences of rules that rise and hold the same are the same. *)
LEMMA RisingPrefix ==
    ASSUME NEW s \in Seq(RuleRec), NEW t \in Seq(RuleRec), Rising(s), Rising(t), Range(s) = Range(t)
    PROVE  Len(s) <= Len(t) /\ \A i \in 1..Len(s) : s[i] = t[i]
<1> DEFINE m == Len(s)
           n == Len(t)
           key(r) == CanonicalKey(r.path)
<1>1. /\ m \in Nat /\ DOMAIN s = 1..m /\ \A i \in 1..m : s[i] \in RuleRec
      /\ n \in Nat /\ DOMAIN t = 1..n /\ \A i \in 1..n : t[i] \in RuleRec
  BY SeqAt
<1>2. \A r \in RuleRec : key(r) \in [1..4 -> Int]
  BY KeyType DEF RuleRec
<1>3. \A q, r \in RuleRec : ~KeyBefore(key(r), key(r)) /\ ~(KeyBefore(key(q), key(r)) /\ KeyBefore(key(r), key(q)))
  BY <1>2, KeysOrdered
<1>4. /\ \A i, j \in 1..m : i < j => KeyBefore(key(s[i]), key(s[j]))
      /\ \A i, j \in 1..n : i < j => KeyBefore(key(t[i]), key(t[j]))
  BY DEF Rising
<1>5. /\ \A i \in 1..m : \E a \in 1..n : t[a] = s[i]
      /\ \A i \in 1..n : \E c \in 1..m : s[c] = t[i]
  BY <1>1 DEF Range
<1> HIDE DEF key, m, n
<1>6. ASSUME NEW i \in 1..m, \A j \in 1..(i - 1) : j <= n /\ s[j] = t[j] PROVE i <= n /\ s[i] = t[i]
  <2>1. PICK a \in 1..n : t[a] = s[i]
    BY <1>5
  <2>2. a >= i
    <3>1. SUFFICES ASSUME a < i PROVE FALSE
      BY <1>1
    <3>2. a \in 1..(i - 1) /\ a \in 1..m
      BY <1>1, <3>1
    <3>3. s[a] = s[i]
      BY <1>6, <2>1, <3>2
    <3> QED
      BY <1>1, <1>3, <1>4, <3>1, <3>2, <3>3
  <2>3. i \in 1..n
    BY <1>1, <2>2
  <2>4. PICK c \in 1..m : s[c] = t[i]
    BY <1>5, <2>3
  <2>5. c >= i
    <3>1. SUFFICES ASSUME c < i PROVE FALSE
      BY <1>1
    <3>2. c \in 1..(i - 1) /\ c \in 1..n
      BY <1>1, <2>3, <3>1
    <3>3. t[c] = t[i]
      BY <1>6, <2>4, <3>2
    <3> QED
      BY <1>1, <1>3, <1>4, <2>3, <3>1, <3>2, <3>3
  <2>6. CASE a = i
    BY <1>1, <2>1, <2>3, <2>6
  <2>7. CASE a > i
    <3>1. KeyBefore(key(t[i]), key(s[i]))
      BY <1>4, <2>1, <2>3, <2>7
    <3>2. c = i \/ KeyBefore(key(s[i]), key(t[i]))
      BY <1>1, <1>4, <2>4, <2>5
    <3>3. t[i] \in RuleRec /\ s[i] \in RuleRec
      BY <1>1, <2>3
    <3> QED
      BY <1>3, <2>4, <3>1, <3>2, <3>3
  <2> QED
    BY <1>1, <2>2, <2>6, <2>7
<1> DEFINE G == {k \in Nat : \A j \in 1..k : j <= n /\ s[j] = t[j]}
<1>7. 0 \in G
  OBVIOUS
<1>8. ASSUME NEW k \in 1..m, k - 1 \in G PROVE k \in G
  <2>1. k <= n /\ s[k] = t[k]
    BY <1>6, <1>8
  <2>2. \A j \in 1..k : j = k \/ j \in 1..(k - 1)
    OBVIOUS
  <2>3. \A j \in 1..(k - 1) : j <= n /\ s[j] = t[j]
    BY <1>8
  <2> QED
    BY <2>1, <2>2, <2>3
<1>9. m \in G
  <2>1. G \in SUBSET Nat /\ m \in Nat
    BY <1>1
  <2> HIDE DEF G
  <2>2. \A k \in 0..m : k \in G
    BY <1>7, <1>8, <2>1, InductionUpTo
  <2> QED
    BY <2>1, <2>2
<1>10. m <= n
  <2>1. CASE m = 0
    BY <1>1, <2>1
  <2>2. CASE m # 0
    BY <1>1, <1>9, <2>2
  <2> QED
    BY <2>1, <2>2
<1> QED
  BY <1>9, <1>10 DEF m, n

LEMMA RisingSame ==
    ASSUME NEW s \in Seq(RuleRec), NEW t \in Seq(RuleRec), Rising(s), Rising(t), Range(s) = Range(t)
    PROVE  s = t
<1>1. Len(s) <= Len(t) /\ \A i \in 1..Len(s) : s[i] = t[i]
  BY RisingPrefix
<1>2. Len(t) <= Len(s)
  BY RisingPrefix
<1> QED
  BY <1>1, <1>2

(* A file with one rule for a path at most holds what it says. *)
LEMMA SaysAll ==
    ASSUME NEW f \in Seq(RuleRec), Unique(f), NEW g \in Seq(RuleRec), Unique(g), SaySame(f, g)
    PROVE  Range(f) \subseteq Range(g) /\ \A i \in DOMAIN f : \E j \in DOMAIN g : g[j].path = f[i].path
<1> SUFFICES ASSUME NEW i \in DOMAIN f PROVE \E j \in DOMAIN g : g[j] = f[i] /\ g[j].path = f[i].path
  BY DEF Range
<1>1. f[i] \in RuleRec /\ f[i].policy \in {Public, Forbidden} /\ f[i] = [path |-> f[i].path, policy |-> f[i].policy]
  <2>1. f[i] \in RuleRec
    BY SeqAt
  <2> QED
    BY <2>1 DEF RuleRec
<1>2. LastPolicy(g, f[i].path) = f[i].policy
  BY LastOfUnique DEF SaySame
<1>3. f[i].policy # NoDecision
  BY <1>1 DEF Public, Forbidden, NoDecision
<1>4. PICK j \in DOMAIN g : g[j].path = f[i].path
  BY <1>2, <1>3, LastOfUnique
<1>5. g[j].policy = f[i].policy
  BY <1>2, <1>4, LastOfUnique
<1>6. g[j] = [path |-> g[j].path, policy |-> g[j].policy]
  <2>1. g[j] \in RuleRec
    BY SeqAt
  <2> QED
    BY <2>1 DEF RuleRec
<1> QED
  BY <1>1, <1>4, <1>5, <1>6

LEMMA SortRises ==
    ASSUME NEW rules \in Seq(RuleRec), Unique(rules), Short(rules)
    PROVE  Rising(SortRules(rules)) /\ Short(SortRules(rules))
<1> DEFINE n == Len(rules)
           s == SortRules(rules)
<1>1. n \in Nat /\ DOMAIN rules = 1..n /\ \A i \in 1..n : rules[i] \in RuleRec
  BY SeqAt
<1>2. PICK place \in [1..n -> 1..n] :
        /\ \A i, j \in 1..n : place[i] = place[j] => i = j
        /\ s = [m \in 1..n |-> rules[place[m]]]
        /\ \A i, j \in 1..n : i < j => \/ KeyBefore(CanonicalKey(rules[place[i]].path), CanonicalKey(rules[place[j]].path))
                                       \/ CanonicalKey(rules[place[i]].path) = CanonicalKey(rules[place[j]].path)
  BY SortPermutes
<1> HIDE DEF n, s
<1>3. Len(s) = n /\ DOMAIN s = 1..n /\ \A i \in 1..n : s[i] = rules[place[i]] /\ place[i] \in 1..n
  BY <1>1, <1>2
<1>4. ASSUME NEW i \in 1..n, NEW j \in 1..n, i < j PROVE KeyBefore(CanonicalKey(s[i].path), CanonicalKey(s[j].path))
  <2> DEFINE a == rules[place[i]].path
             b == rules[place[j]].path
  <2>1. a \in Seq(Nat) /\ b \in Seq(Nat) /\ Len(a) <= 3 /\ Len(b) <= 3
    BY <1>1, <1>3 DEF RuleRec, Short
  <2>2. a # b
    <3>1. place[i] # place[j]
      BY <1>1, <1>2, <1>4
    <3> QED
      BY <1>1, <1>3, <3>1 DEF Unique
  <2>3. CanonicalKey(a) # CanonicalKey(b)
    BY <2>1, <2>2, KeysTellApart
  <2> QED
    BY <1>2, <1>3, <1>4, <2>3
<1> QED
  BY <1>1, <1>3, <1>4 DEF Rising, Short, s

-----------------------------------------------------------------------------
(* Two files, one of which has been through a rule that both are still to go through. *)

PathsIn(rules) == [i \in DOMAIN rules |-> rules[i].path]

LEMMA PathsTyped ==
    ASSUME NEW f \in Seq(RuleRec)
    PROVE  /\ PathsIn(f) \in Seq(Seq(Nat)) /\ Len(PathsIn(f)) = Len(f) /\ DOMAIN PathsIn(f) = DOMAIN f
           /\ \A q : Hits(f, q) = {} <=> ~Holds(PathsIn(f), q)
<1>1. Len(f) \in Nat /\ DOMAIN f = 1..Len(f) /\ \A i \in 1..Len(f) : f[i] \in RuleRec
  BY SeqAt
<1>2. \A r \in RuleRec : r.path \in Seq(Nat)
  BY DEF RuleRec
<1>3. PathsIn(f) \in [1..Len(f) -> Seq(Nat)]
  BY <1>1, <1>2 DEF PathsIn
<1>4. PathsIn(f) \in Seq(Seq(Nat)) /\ Len(PathsIn(f)) = Len(f)
  BY <1>1, <1>3, FunctionSeq
<1>5. \A q : Hits(f, q) = {} <=> ~Holds(PathsIn(f), q)
  BY DEF Hits, Holds, PathsIn
<1> QED
  BY <1>1, <1>3, <1>4, <1>5

LEMMA SamePathsSame ==
    ASSUME NEW f \in Seq(RuleRec), Unique(f), NEW g \in Seq(RuleRec), Unique(g), PathsIn(f) = PathsIn(g), SaySame(f, g)
    PROVE  f = g
<1>1. /\ Len(f) \in Nat /\ DOMAIN f = 1..Len(f) /\ \A i \in 1..Len(f) : f[i] \in RuleRec
      /\ Len(g) \in Nat /\ DOMAIN g = 1..Len(g) /\ \A i \in 1..Len(g) : g[i] \in RuleRec
      /\ Len(f) = Len(g)
  BY SeqAt, PathsTyped
<1>2. ASSUME NEW i \in 1..Len(f) PROVE f[i] = g[i]
  <2>1. PathsIn(f)[i] = f[i].path /\ PathsIn(g)[i] = g[i].path
    BY <1>1 DEF PathsIn
  <2>2. f[i].path = g[i].path
    BY <2>1
  <2>3. LastPolicy(f, f[i].path) = f[i].policy /\ LastPolicy(g, g[i].path) = g[i].policy
    BY <1>1, LastOfUnique
  <2>4. f[i].policy = g[i].policy
    BY <2>2, <2>3 DEF SaySame
  <2>5. f[i] = [path |-> f[i].path, policy |-> f[i].policy] /\ g[i] = [path |-> g[i].path, policy |-> g[i].policy]
    BY <1>1 DEF RuleRec
  <2> QED
    BY <2>2, <2>4, <2>5
<1>3. f = [i \in 1..Len(f) |-> f[i]] /\ g = [i \in 1..Len(g) |-> g[i]]
  BY <1>1
<1> QED
  BY <1>1, <1>2, <1>3

LEMMA PathsPut ==
    ASSUME NEW f \in Seq(RuleRec), NEW path \in Seq(Nat), NEW pol \in {Public, Forbidden}
    PROVE  PathsIn(PutFirst(f, Hits(f, path), path, pol)) = IF Holds(PathsIn(f), path) THEN PathsIn(f) ELSE Append(PathsIn(f), path)
<1> DEFINE n == Len(f)
           put == PutFirst(f, Hits(f, path), path, pol)
<1>1. n \in Nat /\ DOMAIN f = 1..n /\ \A i \in 1..n : f[i] \in RuleRec
  BY SeqAt
<1>2. /\ PathsIn(f) \in Seq(Seq(Nat)) /\ Len(PathsIn(f)) = n
      /\ \A q : Hits(f, q) = {} <=> ~Holds(PathsIn(f), q)
  BY PathsTyped
<1>3. CASE Hits(f, path) = {}
  <2> DEFINE r == Rule(path, pol)
  <2>1. put = Append(f, r)
    BY <1>3 DEF PutFirst
  <2>2. r \in RuleRec /\ r.path = path
    BY DEF Rule, RuleRec
  <2> HIDE DEF r, put
  <2>3. put \in Seq(RuleRec) /\ DOMAIN put = 1..(n + 1) /\ (\A i \in 1..n : put[i] = f[i]) /\ put[n + 1] = r
    BY <2>1, <2>2
  <2>4. PathsIn(put) = [i \in 1..(n + 1) |-> put[i].path]
    BY <2>3 DEF PathsIn
  <2> DEFINE P == PathsIn(f)
  <2>5. Append(P, path) = [i \in 1..(n + 1) |-> IF i <= n THEN P[i] ELSE path]
    <3> HIDE DEF P, n
    <3>1. P \in Seq(Seq(Nat)) /\ Len(P) = n
      BY <1>2 DEF P
    <3> DEFINE T == Append(P, path)
    <3>2. T \in Seq(Seq(Nat)) /\ Len(T) = n + 1 /\ \A i \in 1..(n + 1) : T[i] = IF i <= n THEN P[i] ELSE path
      BY <1>1, <3>1
    <3> HIDE DEF T
    <3>3. T = [i \in 1..Len(T) |-> T[i]]
      BY <3>2
    <3>4. T = [i \in 1..(n + 1) |-> IF i <= n THEN P[i] ELSE path]
      BY <3>2, <3>3
    <3> QED
      BY <3>4 DEF T
  <2>6. \A i \in 1..n : P[i] = f[i].path
    BY <1>1 DEF PathsIn
  <2> HIDE DEF P
  <2>7. \A i \in 1..(n + 1) : put[i].path = IF i <= n THEN P[i] ELSE path
    BY <1>1, <2>2, <2>3, <2>6
  <2>8. PathsIn(put) = Append(P, path)
    BY <2>4, <2>5, <2>7
  <2> QED
    BY <1>2, <1>3, <2>8 DEF P, put
<1>4. CASE Hits(f, path) # {}
  <2>1. put = SetPolicy(f, Min(Hits(f, path)), pol)
    BY <1>4 DEF PutFirst
  <2> DEFINE m == Min(Hits(f, path))
  <2>2. put = [f EXCEPT ![m].policy = pol]
    BY <2>1 DEF SetPolicy
  <2> HIDE DEF m, put
  <2>3. DOMAIN put = 1..n /\ \A i \in 1..n : put[i].path = f[i].path
    <3>1. \A i \in 1..n : put[i] = IF i = m THEN [f[i] EXCEPT !.policy = pol] ELSE f[i]
      BY <1>1, <2>2
    <3>2. \A r \in RuleRec : [r EXCEPT !.policy = pol].path = r.path
      BY DEF RuleRec
    <3> QED
      BY <1>1, <2>2, <3>1, <3>2
  <2>4. PathsIn(put) = PathsIn(f)
    BY <1>1, <2>3 DEF PathsIn
  <2> QED
    BY <1>2, <1>4, <2>4 DEF put
<1> QED
  BY <1>3, <1>4

(* What a plain rule does to a file. *)
LEMMA UpsertMakes ==
    ASSUME NEW file \in FileRec, Unique(file.rules), NEW meant, meant.names \in Seq(Nat), meant.plain, NEW pol \in {Public, Forbidden}
    PROVE  LET new == upsert_policy(file, meant, pol)
           IN /\ new.commented = file.commented
              /\ file.commented => PathsIn(new.rules) = IF Holds(PathsIn(file.rules), meant.names) THEN PathsIn(file.rules)
                                                        ELSE Append(PathsIn(file.rules), meant.names)
              /\ ~file.commented /\ Short(file.rules) /\ Len(meant.names) <= 3 =>
                   Rising(new.rules) /\ Short(new.rules)
<1> DEFINE new == upsert_policy(file, meant, pol)
           put == PutFirst(file.rules, Hits(file.rules, meant.names), meant.names, pol)
<1>1. file.rules \in Seq(RuleRec) /\ file.commented \in BOOLEAN /\ file = [commented |-> file.commented, rules |-> file.rules]
  BY DEF FileRec
<1>2. new = [file EXCEPT !.rules = IF file.commented THEN put ELSE SortRules(put)]
  BY <1>1 DEF upsert_policy, upsert_preserving_lines, upsert_rule, SpelledHits
<1>3. put \in Seq(RuleRec) /\ Unique(put)
  BY <1>1, PutKeeps
<1>4. PathsIn(put) = IF Holds(PathsIn(file.rules), meant.names) THEN PathsIn(file.rules) ELSE Append(PathsIn(file.rules), meant.names)
  BY <1>1, PathsPut
<1>5. Short(file.rules) /\ Len(meant.names) <= 3 => Short(put)
  <2> SUFFICES ASSUME Short(file.rules), Len(meant.names) <= 3 PROVE Short(put)
    OBVIOUS
  <2> DEFINE P == PathsIn(file.rules)
             Q == PathsIn(put)
  <2>1. /\ P \in Seq(Seq(Nat)) /\ DOMAIN P = DOMAIN file.rules /\ DOMAIN Q = DOMAIN put
        /\ DOMAIN P = 1..Len(P) /\ Len(P) \in Nat
    BY <1>1, <1>3, PathsTyped, SeqAt
  <2>2. \A i \in DOMAIN P : Len(P[i]) <= 3
    BY <2>1 DEF PathsIn, Short
  <2>3. Q = P \/ Q = Append(P, meant.names)
    BY <1>4
  <2>4. \A i \in DOMAIN put : put[i].path = Q[i]
    BY DEF PathsIn
  <2> HIDE DEF P, Q, put
  <2>5. ASSUME NEW i \in DOMAIN Q PROVE Len(Q[i]) <= 3
    <3>1. CASE Q = P
      BY <2>2, <3>1
    <3>2. CASE Q = Append(P, meant.names)
      <4>1. i \in 1..(Len(P) + 1) /\ Q[i] = IF i <= Len(P) THEN P[i] ELSE meant.names
        BY <2>1, <3>2
      <4> QED
        BY <2>1, <2>2, <4>1
    <3> QED
      BY <2>3, <3>1, <3>2
  <2> QED
    BY <2>1, <2>4, <2>5 DEF Short
<1> HIDE DEF put, new
<1>6. new.rules = (IF file.commented THEN put ELSE SortRules(put)) /\ new.commented = file.commented
  BY <1>1, <1>2
<1>7. Short(put) => Rising(SortRules(put)) /\ Short(SortRules(put))
  BY <1>3, SortRises
<1> QED
  BY <1>4, <1>5, <1>6, <1>7 DEF new, put

LEMMA HoldsMore ==
    ASSUME NEW A, NEW s \in Seq(A), NEW a \in A
    PROVE  \A x : Holds(Append(s, a), x) <=> Holds(s, x) \/ x = a
<1>1. /\ Len(s) \in Nat /\ DOMAIN s = 1..Len(s) /\ DOMAIN Append(s, a) = 1..(Len(s) + 1)
      /\ \A i \in 1..Len(s) : Append(s, a)[i] = s[i]
      /\ Append(s, a)[Len(s) + 1] = a
  OBVIOUS
<1>2. \A i \in 1..(Len(s) + 1) : i \in 1..Len(s) \/ i = Len(s) + 1
  BY <1>1
<1>3. Len(s) + 1 \in 1..(Len(s) + 1) /\ \A i \in 1..Len(s) : i \in 1..(Len(s) + 1)
  BY <1>1
<1> DEFINE t == Append(s, a)
<1> HIDE DEF t
<1>4. /\ DOMAIN t = 1..(Len(s) + 1) /\ (\A i \in 1..Len(s) : t[i] = s[i]) /\ t[Len(s) + 1] = a
  BY <1>1 DEF t
<1>5. \A x : Holds(t, x) <=> Holds(s, x) \/ x = a
  BY <1>1, <1>2, <1>3, <1>4 DEF Holds
<1> QED
  BY <1>5 DEF t

(* A path is in one place of the paths of a file with one rule for a path at most. *)
LEMMA NotTwice ==
    ASSUME NEW g \in Seq(RuleRec), Unique(g), NEW P \in Seq(Seq(Nat)), NEW q \in Seq(Nat), PathsIn(g) = Append(P, q)
    PROVE  ~Holds(P, q)
<1> SUFFICES ASSUME NEW k \in DOMAIN P, P[k] = q PROVE FALSE
  BY DEF Holds
<1>1. /\ Len(P) \in Nat /\ k \in 1..Len(P) /\ DOMAIN PathsIn(g) = 1..(Len(P) + 1)
      /\ PathsIn(g)[k] = q /\ PathsIn(g)[Len(P) + 1] = q
  OBVIOUS
<1>2. DOMAIN g = 1..(Len(P) + 1) /\ g[k].path = q /\ g[Len(P) + 1].path = q
  <2>1. DOMAIN PathsIn(g) = DOMAIN g /\ \A i \in DOMAIN g : PathsIn(g)[i] = g[i].path
    BY DEF PathsIn
  <2>2. k \in 1..(Len(P) + 1) /\ Len(P) + 1 \in 1..(Len(P) + 1)
    BY <1>1
  <2> QED
    BY <1>1, <2>1, <2>2
<1>3. k # Len(P) + 1 /\ k \in 1..(Len(P) + 1) /\ Len(P) + 1 \in 1..(Len(P) + 1)
  BY <1>1
<1> QED
  BY <1>2, <1>3 DEF Unique

(* What a plain rule says, in a file with one rule for a path at most. *)
LEMMA UpsertSays ==
    ASSUME NEW file \in FileRec, Unique(file.rules), NEW meant, meant.names \in Seq(Nat), meant.plain, NEW pol \in {Public, Forbidden}
    PROVE  /\ upsert_policy(file, meant, pol) \in FileRec
           /\ Unique(upsert_policy(file, meant, pol).rules)
           /\ \A x : LastPolicy(upsert_policy(file, meant, pol).rules, x) = IF x = meant.names THEN pol ELSE LastPolicy(file.rules, x)
BY UpsertKeeps

(* A file that was emptied decides nothing. *)
EmptySays == \A x : LastPolicy(EmptyFile.rules, x) = NoDecision

LEMMA EmptyFileGood == EmptyFile \in FileRec /\ Unique(EmptyFile.rules) /\ EmptySays
<1>1. EmptyFile.rules = <<>> /\ DOMAIN <<>> = {} /\ EmptyFile \in FileRec
  BY DEF EmptyFile, FileRec
<1> QED
  BY <1>1 DEF Unique, EmptySays, LastPolicy, Hits

=============================================================================

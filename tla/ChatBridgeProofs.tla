-------------------------- MODULE ChatBridgeProofs ---------------------------
(***************************************************************************)
(* Proofs about ChatBridge, for any messages, claims, interrupts, replies  *)
(* and killed commands: the type invariant, how often a prompt is given to *)
(* the agent, and that what the phone shows as completed was recorded.     *)
(***************************************************************************)
EXTENDS ChatBridge, FiniteSetTheorems, SequenceTheorems, TLAPS

-----------------------------------------------------------------------------
(* Induction over the naturals, for a set instead of a predicate.           *)

(* Every set of naturals that is not empty has a least element.             *)
LEMMA Least ==
    ASSUME NEW T \in SUBSET Nat, T # {}
    PROVE  \E x \in T : \A y \in T : x <= y
<1> DEFINE R == {p \in Nat \X Nat : p[1] < p[2]}
<1>1. IsWellFoundedOn(R, Nat)
  BY NatLessThanWellFounded DEF OpToRel
<1>2. \E x \in T : \A y \in T : ~ (<<y, x>> \in R)
  <2> HIDE DEF R
  <2> QED
    BY <1>1, WFMin
<1>3. \A x, y \in T : ~ (<<y, x>> \in R) => x <= y
  <2> SUFFICES ASSUME NEW x \in T, NEW y \in T, ~ (<<y, x>> \in R) PROVE x <= y
    OBVIOUS
  <2>1. <<y, x>> \in Nat \X Nat /\ <<y, x>>[1] = y /\ <<y, x>>[2] = x
    OBVIOUS
  <2>2. ~ (y < x)
    BY <2>1
  <2> QED
    BY <2>2
<1> HIDE DEF R
<1> QED
  BY <1>2, <1>3

(* A set that has 0 and with each of its members the next has them all.     *)
LEMMA InductiveSet ==
    ASSUME NEW S \in SUBSET Nat, 0 \in S, \A n \in S : n + 1 \in S
    PROVE  S = Nat
<1> SUFFICES ASSUME Nat \ S # {} PROVE FALSE
  OBVIOUS
<1>1. PICK x \in Nat \ S : \A y \in Nat \ S : x <= y
  BY Least
<1>2. x # 0 /\ x - 1 \in Nat
  BY <1>1
<1>3. x - 1 \in S
  BY <1>1, <1>2
<1> QED
  BY <1>2, <1>3

-----------------------------------------------------------------------------
(* FlattenSeq: the joined text of several prompts.                          *)

(* What is joined up to each of the first n prompts.                        *)
Joins(q, g, n) ==
    \A i \in 1 .. n : g[i] = IF i = 1 THEN q[i] ELSE g[i - 1] \o q[i]

(* The recursion of FlattenSeq has a solution, up to each prompt.           *)
LEMMA JoinsExist ==
    ASSUME NEW M, NEW q \in Seq(Seq(M)), NEW n \in Nat
    PROVE  n + 1 <= Len(q) => \E g \in [1 .. n + 1 -> Seq(M)] : Joins(q, g, n + 1)
<1> DEFINE Solved(k) == k + 1 <= Len(q) => \E g \in [1 .. k + 1 -> Seq(M)] : Joins(q, g, k + 1)
           S == {k \in Nat : Solved(k)}
<1>1. Solved(0)
  <2> SUFFICES ASSUME 1 <= Len(q) PROVE \E g \in [1 .. 0 + 1 -> Seq(M)] : Joins(q, g, 0 + 1)
    OBVIOUS
  <2> DEFINE g == [i \in 1 .. 0 + 1 |-> q[1]]
  <2>1. g \in [1 .. 0 + 1 -> Seq(M)]
    OBVIOUS
  <2>2. Joins(q, g, 0 + 1)
    BY DEF Joins
  <2> QED
    BY <2>1, <2>2
<1>2. ASSUME NEW k \in Nat, Solved(k) PROVE Solved(k + 1)
  <2> SUFFICES ASSUME (k + 1) + 1 <= Len(q)
               PROVE  \E h \in [1 .. (k + 1) + 1 -> Seq(M)] : Joins(q, h, (k + 1) + 1)
    OBVIOUS
  <2>1. PICK g \in [1 .. k + 1 -> Seq(M)] : Joins(q, g, k + 1)
    BY <1>2
  <2> DEFINE last == g[k + 1] \o q[k + 2]
             h == [i \in 1 .. (k + 1) + 1 |-> IF i <= k + 1 THEN g[i] ELSE last]
  <2>2. last \in Seq(M)
    OBVIOUS
  <2> HIDE DEF last
  <2>3. h \in [1 .. (k + 1) + 1 -> Seq(M)]
    BY <2>2
  <2>4. ASSUME NEW i \in 1 .. (k + 1) + 1
        PROVE  h[i] = IF i = 1 THEN q[i] ELSE h[i - 1] \o q[i]
    <3>1. CASE i = k + 2
      <4>1. h[i] = last /\ i # 1 /\ h[i - 1] = g[k + 1]
        BY <3>1
      <4> QED
        BY <3>1, <4>1 DEF last
    <3>2. CASE i <= k + 1
      <4>1. h[i] = g[i] /\ (i # 1 => h[i - 1] = g[i - 1])
        BY <3>2
      <4>2. i \in 1 .. k + 1
        BY <3>2
      <4>3. g[i] = IF i = 1 THEN q[i] ELSE g[i - 1] \o q[i]
        BY <2>1, <4>2 DEF Joins
      <4> HIDE DEF h
      <4> QED
        BY <4>1, <4>3
    <3> QED
      BY <3>1, <3>2
  <2> HIDE DEF h
  <2> QED
    BY <2>3, <2>4 DEF Joins
<1> HIDE DEF Solved
<1>3. S = Nat
  <2>1. 0 \in S /\ \A k \in S : k + 1 \in S
    BY <1>1, <1>2
  <2> HIDE DEF S
  <2> QED
    BY <2>1, InductiveSet DEF S
<1>4. Solved(n)
  BY <1>3
<1> QED
  BY <1>4 DEF Solved

(* FlattenSeq is the last of the joined prompts.                            *)
LEMMA FlattenJoins ==
    ASSUME NEW M, NEW q \in Seq(Seq(M)), q # <<>>
    PROVE  \E g \in [1 .. Len(q) -> Seq(M)] :
              Joins(q, g, Len(q)) /\ FlattenSeq(q) = g[Len(q)]
<1> DEFINE After1(g) == [i \in 1 .. Len(q) |-> IF i = 1 THEN q[i] ELSE g[i - 1] \o q[i]]
           f == CHOOSE g : g = After1(g)
<1>1. Len(q) \in Nat /\ Len(q) # 0 /\ Len(q) - 1 \in Nat /\ (Len(q) - 1) + 1 = Len(q)
  OBVIOUS
<1>2. PICK g \in [1 .. Len(q) -> Seq(M)] : Joins(q, g, Len(q))
  <2>1. PICK n \in Nat : n + 1 = Len(q)
    BY <1>1
  <2>2. n + 1 <= Len(q)
    BY <1>1, <2>1
  <2>3. \E g \in [1 .. n + 1 -> Seq(M)] : Joins(q, g, n + 1)
    BY <2>2, JoinsExist
  <2> QED
    BY <2>1, <2>3, Zenon
<1>3. g = After1(g)
  BY <1>2, Zenon DEF Joins
<1>4. f = After1(f)
  BY <1>3, Zenon
<1>5. FlattenSeq(q) = f[Len(q)]
  BY <1>1 DEF FlattenSeq
<1> HIDE DEF f
<1>6. Joins(q, f, Len(q))
  BY <1>4 DEF Joins
<1>7. \A n \in Nat : n + 1 <= Len(q) => f[n + 1] \in Seq(M)
  <2> DEFINE S == {n \in Nat : n + 1 <= Len(q) => f[n + 1] \in Seq(M)}
  <2>1. 0 \in S
    <3>1. 1 \in 1 .. Len(q) /\ q[1] \in Seq(M) /\ 0 + 1 = 1
      BY <1>1
    <3>2. f[1] = q[1]
      BY <1>6, <3>1 DEF Joins
    <3> QED
      BY <3>1, <3>2
  <2>2. ASSUME NEW n \in S PROVE n + 1 \in S
    <3> SUFFICES ASSUME (n + 1) + 1 <= Len(q) PROVE f[(n + 1) + 1] \in Seq(M)
      OBVIOUS
    <3>1. f[n + 1] \in Seq(M) /\ q[n + 2] \in Seq(M)
      BY <2>2
    <3>2. n + 2 \in 1 .. Len(q) /\ n + 2 # 1 /\ (n + 2) - 1 = n + 1 /\ (n + 1) + 1 = n + 2
      BY <1>1
    <3>3. f[n + 2] = f[n + 1] \o q[n + 2]
      BY <1>6, <3>2 DEF Joins
    <3>4. f[n + 1] \o q[n + 2] \in Seq(M)
      BY <3>1
    <3> QED
      BY <3>2, <3>3, <3>4
  <2> HIDE DEF S
  <2>3. S = Nat
    BY <2>1, <2>2, InductiveSet DEF S
  <2> QED
    BY <2>3 DEF S
<1>8. f \in [1 .. Len(q) -> Seq(M)]
  <2>1. \A i \in 1 .. Len(q) : f[i] \in Seq(M)
    <3> SUFFICES ASSUME NEW i \in 1 .. Len(q) PROVE f[i] \in Seq(M)
      OBVIOUS
    <3>1. PICK n \in Nat : n + 1 = i /\ n + 1 <= Len(q)
      <4>1. i - 1 \in Nat /\ (i - 1) + 1 = i /\ i <= Len(q)
        BY <1>1
      <4> QED
        BY <4>1
    <3> QED
      BY <1>7, <3>1
  <2> QED
    BY <1>4, <2>1
<1> QED
  BY <1>5, <1>6, <1>8, SMTT(30)

(* Joined prompts are a prompt.                                             *)
LEMMA FlattenType ==
    ASSUME NEW M, NEW q \in Seq(Seq(M))
    PROVE  FlattenSeq(q) \in Seq(M)
<1>1. CASE q = <<>>
  BY <1>1 DEF FlattenSeq
<1>2. CASE q # <<>>
  <2>1. Len(q) \in 1 .. Len(q)
    BY <1>2
  <2>2. PICK g \in [1 .. Len(q) -> Seq(M)] : FlattenSeq(q) = g[Len(q)]
    BY <1>2, FlattenJoins
  <2> QED
    BY <2>1, <2>2
<1> QED
  BY <1>1, <1>2

-----------------------------------------------------------------------------
(* Counting.                                                                *)

(* The places of a sequence, and of two sequences one after the other.      *)
LEMMA Spots ==
    ASSUME NEW S, NEW q \in Seq(S), NEW r \in Seq(S)
    PROVE  /\ Len(q) \in Nat /\ Len(r) \in Nat
           /\ DOMAIN q = 1 .. Len(q) /\ DOMAIN r = 1 .. Len(r)
           /\ q \o r \in Seq(S) /\ Len(q \o r) = Len(q) + Len(r)
           /\ DOMAIN (q \o r) = 1 .. Len(q) + Len(r)
           /\ \A i \in 1 .. Len(q) : (q \o r)[i] = q[i]
           /\ \A i \in 1 .. Len(r) : (q \o r)[i + Len(q)] = r[i]
OBVIOUS

(* A set that is put next to a copy of another.                             *)
LEMMA SideBySide ==
    ASSUME NEW A, NEW B, NEW C, IsFiniteSet(A), IsFiniteSet(B), A \cap C = {},
           NEW f \in [B -> C], \A x, y \in B : f[x] = f[y] => x = y,
           \A z \in C : \E x \in B : f[x] = z
    PROVE  IsFiniteSet(A \cup C) /\ Cardinality(A \cup C) = Cardinality(A) + Cardinality(B)
<1>1. ExistsBijection(B, C)
  BY DEF ExistsBijection, Bijection, Injection, IsInjective, Surjection
<1>2. IsFiniteSet(C) /\ Cardinality(C) = Cardinality(B)
  BY <1>1, FS_Bijection
<1>3. Cardinality(A) \in Nat /\ Cardinality(B) \in Nat
  BY FS_CardinalityType
<1>4. Cardinality(A \cap C) = 0
  BY FS_EmptySet
<1>5. /\ IsFiniteSet(A \cup C)
      /\ Cardinality(A \cup C) = Cardinality(A) + Cardinality(C) - Cardinality(A \cap C)
  BY <1>2, FS_Union
<1> QED
  BY <1>2, <1>3, <1>4, <1>5

(* What is counted is finite.                                               *)
LEMMA CountNat ==
    ASSUME NEW E, NEW q \in Seq(E), NEW S
    PROVE  IsFiniteSet({i \in DOMAIN q : q[i] \in S}) /\ Count(q, S) \in Nat
<1>1. IsFiniteSet(1 .. Len(q)) /\ DOMAIN q = 1 .. Len(q)
  BY FS_Interval
<1>2. {i \in DOMAIN q : q[i] \in S} \in SUBSET (1 .. Len(q))
  BY <1>1
<1> QED
  BY <1>1, <1>2, FS_Subset, FS_CardinalityType DEF Count

(* An element counts once or not at all.                                    *)
LEMMA CountOne ==
    ASSUME NEW x, NEW S
    PROVE  /\ Count(<<>>, S) = 0
           /\ Count(<<x>>, S) = IF x \in S THEN 1 ELSE 0
<1>1. {i \in DOMAIN <<>> : <<>>[i] \in S} = {}
  OBVIOUS
<1>2. {i \in DOMAIN <<x>> : <<x>>[i] \in S} = IF x \in S THEN {1} ELSE {}
  OBVIOUS
<1> QED
  BY <1>1, <1>2, FS_EmptySet, FS_Singleton DEF Count

(* Two queues one after the other.                                          *)
LEMMA CountConcat ==
    ASSUME NEW E, NEW q \in Seq(E), NEW r \in Seq(E), NEW S
    PROVE  Count(q \o r, S) = Count(q, S) + Count(r, S)
<1> DEFINE n == Len(q)
           A == {i \in DOMAIN q : q[i] \in S}
           B == {i \in DOMAIN r : r[i] \in S}
           C == {i \in n + 1 .. n + Len(r) : (q \o r)[i] \in S}
           f == [i \in B |-> i + n]
<1>1. n \in Nat /\ Len(r) \in Nat
  BY Spots
<1>2. \A i \in B : i + n \in C
  BY Spots
<1>3. f \in [B -> C]
  BY <1>2
<1>4. \A x, y \in B : f[x] = f[y] => x = y
  BY Spots
<1>5. \A z \in C : \E x \in B : f[x] = z
  <2> SUFFICES ASSUME NEW z \in C PROVE \E x \in B : f[x] = z
    OBVIOUS
  <2>1. z - n \in 1 .. Len(r) /\ (z - n) + n = z
    BY <1>1
  <2>2. z - n \in B
    BY <2>1, Spots
  <2> QED
    BY <2>1, <2>2
<1>6. A \cap C = {}
  BY <1>1, Spots
<1>7. {i \in DOMAIN (q \o r) : (q \o r)[i] \in S} = A \cup C
  <2>1. DOMAIN (q \o r) = (1 .. n) \cup (n + 1 .. n + Len(r))
    BY <1>1, Spots
  <2>2. \A i \in 1 .. n : (q \o r)[i] \in S <=> i \in A
    BY <1>1, Spots
  <2>3. \A i \in A : i \in 1 .. n
    BY Spots
  <2> QED
    BY <2>1, <2>2, <2>3
<1>8. IsFiniteSet(A) /\ IsFiniteSet(B)
  BY CountNat
<1> HIDE DEF A, B, C, f, n
<1>9. Cardinality(A \cup C) = Cardinality(A) + Cardinality(B)
  BY <1>3, <1>4, <1>5, <1>6, <1>8, SideBySide, Zenon
<1> QED
  BY <1>7, <1>9 DEF Count, A, B

(* What arrives at the end, and what is taken from the front.               *)
LEMMA CountAppend ==
    ASSUME NEW E, NEW q \in Seq(E), NEW x \in E, NEW S
    PROVE  Count(Append(q, x), S) = Count(q, S) + IF x \in S THEN 1 ELSE 0
<1>1. Append(q, x) = q \o <<x>> /\ <<x>> \in Seq(E)
  OBVIOUS
<1>2. Count(q \o <<x>>, S) = Count(q, S) + Count(<<x>>, S)
  BY <1>1, CountConcat
<1> QED
  BY <1>1, <1>2, CountOne

LEMMA HeadAndTail ==
    ASSUME NEW E, NEW q \in Seq(E), q # <<>>
    PROVE  /\ Head(q) \in E /\ <<Head(q)>> \in Seq(E) /\ Tail(q) \in Seq(E)
           /\ q = <<Head(q)>> \o Tail(q)
<1>1. /\ Head(q) \in E /\ <<Head(q)>> \in Seq(E) /\ Tail(q) \in Seq(E)
      /\ Len(Tail(q)) = Len(q) - 1 /\ Len(q) \in Nat /\ Len(q) >= 1
      /\ \A i \in 1 .. Len(q) - 1 : Tail(q)[i] = q[i + 1]
  OBVIOUS
<1> DEFINE r == <<Head(q)>> \o Tail(q)
<1>2. r \in Seq(E) /\ Len(r) = Len(q)
  BY <1>1
<1>3. ASSUME NEW i \in 1 .. Len(q) PROVE r[i] = q[i]
  <2>1. CASE i = 1
    BY <1>1, <2>1
  <2>2. CASE i # 1
    <3>1. i - 1 \in 1 .. Len(Tail(q)) /\ i = (i - 1) + 1
      BY <1>1, <2>2
    <3>2. r[(i - 1) + 1] = Tail(q)[i - 1]
      BY <1>1, <3>1
    <3> QED
      BY <1>1, <3>1, <3>2
  <2> QED
    BY <2>1, <2>2
<1> QED
  BY <1>1, <1>2, <1>3, SeqEqual

LEMMA CountTail ==
    ASSUME NEW E, NEW q \in Seq(E), q # <<>>, NEW S
    PROVE  Count(q, S) = Count(Tail(q), S) + IF Head(q) \in S THEN 1 ELSE 0
<1>1. /\ q = <<Head(q)>> \o Tail(q) /\ <<Head(q)>> \in Seq(E) /\ Tail(q) \in Seq(E)
  BY HeadAndTail
<1>2. Count(q, S) = Count(<<Head(q)>>, S) + Count(Tail(q), S)
  BY <1>1, CountConcat, Zenon
<1>3. Count(Tail(q), S) \in Nat
  BY <1>1, CountNat
<1> QED
  BY <1>2, <1>3, CountOne

-----------------------------------------------------------------------------
(* FlattenSeq of prompts that come one after the other.                     *)

(* The recursion has one solution.                                          *)
LEMMA FlattenUnique ==
    ASSUME NEW M, NEW q \in Seq(Seq(M)), q # <<>>, NEW h, Joins(q, h, Len(q))
    PROVE  FlattenSeq(q) = h[Len(q)]
<1>1. PICK g \in [1 .. Len(q) -> Seq(M)] : Joins(q, g, Len(q)) /\ FlattenSeq(q) = g[Len(q)]
  BY FlattenJoins
<1>2. Len(q) \in Nat /\ Len(q) # 0
  OBVIOUS
<1> DEFINE S == {n \in Nat : n + 1 <= Len(q) => g[n + 1] = h[n + 1]}
<1>3. 0 \in S
  <2>1. 1 \in 1 .. Len(q) /\ 0 + 1 = 1
    BY <1>2
  <2>2. g[1] = q[1] /\ h[1] = q[1]
    BY <1>1, <2>1 DEF Joins
  <2> QED
    BY <2>1, <2>2
<1>4. ASSUME NEW n \in S PROVE n + 1 \in S
  <2> SUFFICES ASSUME (n + 1) + 1 <= Len(q) PROVE g[(n + 1) + 1] = h[(n + 1) + 1]
    OBVIOUS
  <2>1. n + 2 \in 1 .. Len(q) /\ n + 2 # 1 /\ (n + 2) - 1 = n + 1 /\ (n + 1) + 1 = n + 2
    BY <1>2
  <2>2. g[n + 1] = h[n + 1]
    BY <1>2, <1>4
  <2>3. g[n + 2] = g[n + 1] \o q[n + 2] /\ h[n + 2] = h[n + 1] \o q[n + 2]
    BY <1>1, <2>1 DEF Joins
  <2> QED
    BY <2>1, <2>2, <2>3
<1> HIDE DEF S
<1>5. S = Nat
  BY <1>3, <1>4, InductiveSet DEF S
<1>6. PICK n \in Nat : n + 1 = Len(q)
  <2>1. Len(q) - 1 \in Nat /\ (Len(q) - 1) + 1 = Len(q)
    BY <1>2
  <2> QED
    BY <2>1
<1>7. g[n + 1] = h[n + 1]
  <2>1. n \in S /\ n + 1 <= Len(q)
    BY <1>2, <1>5, <1>6
  <2> QED
    BY <2>1 DEF S
<1> QED
  BY <1>1, <1>6, <1>7

LEMMA FlattenOne ==
    ASSUME NEW M, NEW p \in Seq(M)
    PROVE  FlattenSeq(<<p>>) = p
<1> DEFINE q == <<p>>
           h == [i \in 1 .. 1 |-> p]
<1>1. q \in Seq(Seq(M)) /\ q # <<>> /\ Len(q) = 1
  OBVIOUS
<1>2. Joins(q, h, Len(q))
  BY <1>1 DEF Joins
<1>3. FlattenSeq(q) = h[Len(q)]
  BY <1>1, <1>2, FlattenUnique
<1> QED
  BY <1>1, <1>3

LEMMA FlattenConcat ==
    ASSUME NEW M, NEW q \in Seq(Seq(M)), NEW r \in Seq(Seq(M))
    PROVE  FlattenSeq(q \o r) = FlattenSeq(q) \o FlattenSeq(r)
<1> DEFINE F == FlattenSeq(q)
           qr == q \o r
<1>0. F \in Seq(M) /\ FlattenSeq(r) \in Seq(M)
  BY FlattenType
<1>1. CASE q = <<>>
  <2>1. F = <<>> /\ q \o r = r
    BY <1>1 DEF FlattenSeq
  <2> HIDE DEF F
  <2>2. F \o FlattenSeq(r) = FlattenSeq(r)
    BY <1>0, <2>1
  <2> QED
    BY <2>1, <2>2 DEF F
<1>2. CASE r = <<>>
  <2>1. FlattenSeq(r) = <<>> /\ q \o r = q
    BY <1>2 DEF FlattenSeq
  <2> HIDE DEF F
  <2>2. F \o FlattenSeq(r) = F
    BY <1>0, <2>1
  <2> QED
    BY <2>1, <2>2 DEF F
<1>3. CASE q # <<>> /\ r # <<>>
  <2>1. PICK g \in [1 .. Len(q) -> Seq(M)] : Joins(q, g, Len(q)) /\ F = g[Len(q)]
    BY <1>3, FlattenJoins
  <2>2. PICK h \in [1 .. Len(r) -> Seq(M)] :
            Joins(r, h, Len(r)) /\ FlattenSeq(r) = h[Len(r)]
    BY <1>3, FlattenJoins
  <2>3. /\ Len(q) \in Nat /\ Len(q) >= 1 /\ Len(r) \in Nat /\ Len(r) >= 1
        /\ qr \in Seq(Seq(M)) /\ Len(qr) = Len(q) + Len(r) /\ qr # <<>>
    BY <1>3
  <2> DEFINE k == [i \in 1 .. Len(q) + Len(r) |->
                     IF i <= Len(q) THEN g[i] ELSE F \o h[i - Len(q)]]
  <2>4. ASSUME NEW i \in 1 .. Len(qr)
        PROVE  k[i] = IF i = 1 THEN qr[i] ELSE k[i - 1] \o qr[i]
    <3>0. i \in 1 .. Len(q) + Len(r)
      BY <2>3
    <3>1. CASE i <= Len(q)
      <4>1. i \in 1 .. Len(q) /\ qr[i] = q[i]
        BY <2>3, <3>1, Spots
      <4>2. k[i] = g[i] /\ (i # 1 => k[i - 1] = g[i - 1])
        BY <2>3, <3>0, <3>1
      <4>3. g[i] = IF i = 1 THEN q[i] ELSE g[i - 1] \o q[i]
        BY <2>1, <4>1 DEF Joins
      <4> HIDE DEF k, qr
      <4> QED
        BY <4>1, <4>2, <4>3
    <3>2. CASE i > Len(q)
      <4>1. PICK j \in 1 .. Len(r) : i = j + Len(q)
        <5>1. i - Len(q) \in 1 .. Len(r) /\ i = (i - Len(q)) + Len(q)
          BY <2>3, <3>0, <3>2
        <5> QED
          BY <5>1
      <4>2. qr[i] = r[j] /\ i # 1 /\ i - Len(q) = j
        BY <2>3, <4>1, Spots
      <4>3. k[i] = F \o h[j]
        BY <2>3, <3>0, <3>2, <4>2
      <4>4. h[j] = IF j = 1 THEN r[j] ELSE h[j - 1] \o r[j]
        BY <2>2 DEF Joins
      <4>5. r[j] \in Seq(M)
        OBVIOUS
      <4>6. CASE j = 1
        <5>1. k[i - 1] = F
          BY <2>1, <2>3, <4>1, <4>6
        <5> HIDE DEF k, qr, F
        <5> QED
          BY <4>2, <4>3, <4>4, <4>6, <5>1
      <4>7. CASE j # 1
        <5>1. j - 1 \in 1 .. Len(r) /\ (i - 1) - Len(q) = j - 1 /\ i - 1 > Len(q)
               /\ i - 1 \in 1 .. Len(q) + Len(r)
          BY <2>3, <3>0, <4>1, <4>7
        <5>2. PICK x \in 1 .. Len(q) + Len(r) : x = i - 1
          BY <5>1
        <5>3. ~ (x <= Len(q)) /\ x - Len(q) = j - 1
          BY <2>3, <5>1, <5>2
        <5>4. k[x] = F \o h[x - Len(q)]
          BY <5>3, Zenon
        <5>5. PICK b \in Seq(M) : b = h[j - 1]
          BY <2>2, <5>1
        <5> HIDE DEF k, qr, F
        <5>6. (F \o b) \o r[j] = F \o (b \o r[j])
          <6>1. ASSUME NEW a \in Seq(M), NEW d \in Seq(M), NEW c \in Seq(M)
                PROVE  (a \o d) \o c = a \o (d \o c)
            <7>1. /\ (a \o d) \o c \in Seq(M) /\ a \o (d \o c) \in Seq(M)
                  /\ Len((a \o d) \o c) = Len(a \o (d \o c))
              OBVIOUS
            <7>2. \A n \in 1 .. Len((a \o d) \o c) : ((a \o d) \o c)[n] = (a \o (d \o c))[n]
              BY SMTT(60)
            <7> QED
              BY <7>1, <7>2, SeqEqual
          <6>2. PICK a \in Seq(M), c \in Seq(M) : a = F /\ c = r[j]
            BY <1>0, <4>5
          <6>3. (a \o b) \o c = a \o (b \o c)
            BY <6>1, Zenon
          <6> QED
            BY <6>2, <6>3, Zenon
        <5> QED
          BY <4>2, <4>3, <4>4, <4>7, <5>2, <5>3, <5>4, <5>5, <5>6
      <4> QED
        BY <4>6, <4>7
    <3> QED
      BY <2>3, <3>0, <3>1, <3>2
  <2>5. Joins(qr, k, Len(qr))
    <3> HIDE DEF k, qr
    <3> QED
      BY <2>4 DEF Joins
  <2>6. k[Len(qr)] = F \o h[Len(r)]
    <3>1. /\ Len(q) + Len(r) \in 1 .. Len(q) + Len(r) /\ ~ (Len(q) + Len(r) <= Len(q))
          /\ (Len(q) + Len(r)) - Len(q) = Len(r)
      BY <2>3
    <3> HIDE DEF F
    <3> QED
      BY <2>3, <3>1
  <2> HIDE DEF k, F, qr
  <2>7. FlattenSeq(qr) = k[Len(qr)]
    BY <2>3, <2>5, FlattenUnique
  <2> QED
    BY <2>2, <2>6, <2>7 DEF F, qr
<1> QED
  BY <1>1, <1>2, <1>3

-----------------------------------------------------------------------------
(* How often a message is in some prompts.                                  *)

LEMMA TimesNat ==
    ASSUME NEW q \in Seq(Prompts), NEW m
    PROVE  Times(q, m) \in Nat
<1>1. FlattenSeq(q) \in Seq(Messages)
  BY FlattenType DEF Prompts
<1> QED
  BY <1>1, CountNat DEF Times

LEMMA TimesNone == \A m : Times(<<>>, m) = 0
<1>1. FlattenSeq(<<>>) = <<>>
  BY DEF FlattenSeq
<1> QED
  BY <1>1, CountOne DEF Times

LEMMA TimesConcat ==
    ASSUME NEW q \in Seq(Prompts), NEW r \in Seq(Prompts), NEW m
    PROVE  Times(q \o r, m) = Times(q, m) + Times(r, m)
<1>1. FlattenSeq(q) \in Seq(Messages) /\ FlattenSeq(r) \in Seq(Messages)
  BY FlattenType DEF Prompts
<1>2. FlattenSeq(q \o r) = FlattenSeq(q) \o FlattenSeq(r)
  BY FlattenConcat DEF Prompts
<1>3. \A S : Count(FlattenSeq(q) \o FlattenSeq(r), S) = Count(FlattenSeq(q), S) + Count(FlattenSeq(r), S)
  BY <1>1, CountConcat
<1> QED
  BY <1>2, <1>3 DEF Times

LEMMA TimesAppend ==
    ASSUME NEW q \in Seq(Prompts), NEW p \in Prompts, NEW m
    PROVE  Times(Append(q, p), m) = Times(q, m) + Times(<<p>>, m)
<1>1. Append(q, p) = q \o <<p>> /\ <<p>> \in Seq(Prompts)
  OBVIOUS
<1> QED
  BY <1>1, TimesConcat, Zenon

LEMMA TimesTail ==
    ASSUME NEW q \in Seq(Prompts), q # <<>>, NEW m
    PROVE  Times(q, m) = Times(<<Head(q)>>, m) + Times(Tail(q), m)
<1>1. /\ q = <<Head(q)>> \o Tail(q) /\ <<Head(q)>> \in Seq(Prompts)
      /\ Tail(q) \in Seq(Prompts)
  BY HeadAndTail
<1>2. Times(<<Head(q)>> \o Tail(q), m) = Times(<<Head(q)>>, m) + Times(Tail(q), m)
  BY <1>1, TimesConcat
<1> QED
  BY <1>1, <1>2

(* A message in one prompt, also in one that others were joined to.         *)
LEMMA TimesPrompt ==
    ASSUME NEW p \in Prompts, NEW m
    PROVE  Times(<<p>>, m) = Count(p, {m}) /\ Times(<<p>>, m) \in Nat
<1>1. FlattenSeq(<<p>>) = p
  BY FlattenOne DEF Prompts
<1> QED
  BY <1>1, CountNat DEF Times, Prompts

LEMMA TimesOne ==
    ASSUME NEW n \in Messages, NEW m
    PROVE  Times(<< <<n>> >>, m) = IF n = m THEN 1 ELSE 0
<1>1. <<n>> \in Prompts
  BY DEF Prompts
<1>2. Times(<< <<n>> >>, m) = Count(<<n>>, {m})
  BY <1>1, TimesPrompt
<1> QED
  BY <1>2, CountOne

LEMMA TimesJoin ==
    ASSUME NEW p \in Prompts, NEW r \in Prompts, NEW m
    PROVE  p \o r \in Prompts /\ Times(<<p \o r>>, m) = Times(<<p>>, m) + Times(<<r>>, m)
<1>1. p \o r \in Prompts /\ p \in Seq(Messages) /\ r \in Seq(Messages)
  BY DEF Prompts
<1>2. Count(p \o r, {m}) = Count(p, {m}) + Count(r, {m})
  BY <1>1, CountConcat
<1> QED
  BY <1>1, <1>2, TimesPrompt

LEMMA TimesFlatten ==
    ASSUME NEW q \in Seq(Prompts), NEW m
    PROVE  FlattenSeq(q) \in Prompts /\ Times(<<FlattenSeq(q)>>, m) = Times(q, m)
<1>1. FlattenSeq(q) \in Prompts
  BY FlattenType DEF Prompts
<1> QED
  BY <1>1, TimesPrompt DEF Times

(* The prompts that events carry.                                           *)
LEMMA CarriedType == \A e \in Events \cup Subs : Carried(e) \in Prompts
  BY DEF Carried, Events, Subs, Prompts, Messages

LEMMA CarryType ==
    ASSUME NEW q \in Seq(Events \cup Subs)
    PROVE  /\ Carry(q) \in Seq(Prompts) /\ Len(Carry(q)) = Len(q)
           /\ \A i \in 1 .. Len(q) : Carry(q)[i] = Carried(q[i])
<1>1. DOMAIN q = 1 .. Len(q) /\ Len(q) \in Nat /\ \A i \in 1 .. Len(q) : q[i] \in Events \cup Subs
  OBVIOUS
<1>2. Carry(q) \in [1 .. Len(q) -> Prompts]
  BY <1>1, CarriedType DEF Carry
<1> QED
  BY <1>1, <1>2 DEF Carry

LEMMA CarryConcat ==
    ASSUME NEW q \in Seq(Events \cup Subs), NEW r \in Seq(Events \cup Subs)
    PROVE  Carry(q \o r) = Carry(q) \o Carry(r)
<1> DEFINE E == Events \cup Subs
<1>1. q \o r \in Seq(E) /\ Len(q \o r) = Len(q) + Len(r) /\ Len(q) \in Nat /\ Len(r) \in Nat
  OBVIOUS
<1>2. /\ Carry(q) \in Seq(Prompts) /\ Carry(r) \in Seq(Prompts)
      /\ Len(Carry(q)) = Len(q) /\ Len(Carry(r)) = Len(r)
      /\ Carry(q \o r) \in Seq(Prompts) /\ Len(Carry(q \o r)) = Len(q) + Len(r)
  BY <1>1, CarryType
<1>3. ASSUME NEW i \in 1 .. Len(q) + Len(r)
      PROVE  Carry(q \o r)[i] = (Carry(q) \o Carry(r))[i]
  <2>1. Carry(q \o r)[i] = Carried((q \o r)[i])
    BY <1>1, CarryType
  <2>2. CASE i <= Len(q)
    <3>1. i \in 1 .. Len(q) /\ (q \o r)[i] = q[i]
      BY <1>1, <2>2, Spots
    <3>2. (Carry(q) \o Carry(r))[i] = Carry(q)[i]
      BY <1>1, <1>2, <3>1, Spots
    <3> QED
      BY <2>1, <3>1, <3>2, CarryType
  <2>3. CASE i > Len(q)
    <3>1. PICK j \in 1 .. Len(r) : i = j + Len(q)
      <4>1. i - Len(q) \in 1 .. Len(r) /\ i = (i - Len(q)) + Len(q)
        BY <1>1, <2>3
      <4> QED
        BY <4>1
    <3>2. (q \o r)[i] = r[j] /\ (Carry(q) \o Carry(r))[i] = Carry(r)[j]
      BY <1>1, <1>2, <3>1, Spots
    <3> QED
      BY <2>1, <3>2, CarryType
  <2>4. i <= Len(q) \/ i > Len(q)
    BY <1>1
  <2> QED
    BY <2>2, <2>3, <2>4, Zenon
<1>4. Carry(q) \o Carry(r) \in Seq(Prompts) /\ Len(Carry(q) \o Carry(r)) = Len(q) + Len(r)
  BY <1>2, Spots
<1> QED
  BY <1>2, <1>3, <1>4, SeqEqual

LEMMA CarryOne ==
    ASSUME NEW e \in Events \cup Subs
    PROVE  Carry(<<e>>) = <<Carried(e)>> /\ Carry(<<>>) = <<>>
  BY CarriedType DEF Carry

LEMMA LoadConcat ==
    ASSUME NEW q \in Seq(Events \cup Subs), NEW r \in Seq(Events \cup Subs), NEW m
    PROVE  /\ Times(Carry(q \o r), m) = Times(Carry(q), m) + Times(Carry(r), m)
           /\ Times(Carry(q), m) \in Nat
<1>1. Carry(q) \in Seq(Prompts) /\ Carry(r) \in Seq(Prompts)
  BY CarryType
<1>2. Times(Carry(q) \o Carry(r), m) = Times(Carry(q), m) + Times(Carry(r), m)
  BY <1>1, TimesConcat
<1> QED
  BY <1>1, <1>2, CarryConcat, TimesNat

LEMMA LoadAppend ==
    ASSUME NEW q \in Seq(Events \cup Subs), NEW e \in Events \cup Subs, NEW m
    PROVE  Times(Carry(Append(q, e)), m) = Times(Carry(q), m) + Times(<<Carried(e)>>, m)
<1>1. Append(q, e) = q \o <<e>> /\ <<e>> \in Seq(Events \cup Subs)
  OBVIOUS
<1>2. Times(Carry(q \o <<e>>), m) = Times(Carry(q), m) + Times(Carry(<<e>>), m)
  BY <1>1, LoadConcat
<1> QED
  BY <1>1, <1>2, CarryOne

LEMMA LoadTail ==
    ASSUME NEW q \in Seq(Events \cup Subs), q # <<>>, NEW m
    PROVE  Times(Carry(q), m) = Times(<<Carried(Head(q))>>, m) + Times(Carry(Tail(q)), m)
<1>1. /\ q = <<Head(q)>> \o Tail(q) /\ <<Head(q)>> \in Seq(Events \cup Subs)
      /\ Tail(q) \in Seq(Events \cup Subs) /\ Head(q) \in Events \cup Subs
  BY HeadAndTail
<1>2. Times(Carry(<<Head(q)>> \o Tail(q)), m)
        = Times(Carry(<<Head(q)>>), m) + Times(Carry(Tail(q)), m)
  BY <1>1, LoadConcat
<1> QED
  BY <1>1, <1>2, CarryOne

-----------------------------------------------------------------------------
(* The types of what is in the queues.                                      *)

LEMMA EventKinds ==
    /\ \A e \in Events : /\ e[1] \in {"interrupt", "remote", "turn"}
                         /\ e[1] = "remote" => e[2] \in Remote /\ e = <<"remote", e[2]>>
                         /\ e[1] = "turn" => e[2] \in Prompts /\ e = <<"turn", e[2]>>
                         /\ e[1] = "interrupt" => e = <<"interrupt">>
    /\ <<"interrupt">> \in Events
    /\ \A m \in Remote : <<"remote", m>> \in Events
    /\ \A p \in Prompts : <<"turn", p>> \in Events
  BY DEF Events

LEMMA SubKinds ==
    /\ \A e \in Subs : /\ e[1] \in {"interrupt", "input"}
                       /\ e[1] = "input" => e[2] \in Prompts /\ e = <<"input", e[2]>>
                       /\ e[1] = "interrupt" => e = <<"interrupt">>
    /\ <<"interrupt">> \in Subs
    /\ \A p \in Prompts : <<"input", p>> \in Subs
  BY DEF Subs

LEMMA NoteKinds ==
    /\ \A n \in Notes : /\ n[1] \in {"delta", "final", "user", "started", "ended", "interrupted"}
                        /\ n[1] = "user" => n[2] \in Prompts /\ n = <<"user", n[2]>>
                        /\ n[1] \in {"started", "ended", "interrupted"} =>
                              n[2] \in Nat /\ n = <<n[1], n[2]>>
                        /\ n[1] = "delta" => n = <<"delta">>
                        /\ n[1] = "final" => n = <<"final">>
    /\ <<"delta">> \in Notes /\ <<"final">> \in Notes
    /\ \A p \in Prompts : <<"user", p>> \in Notes
    /\ \A i \in Nat : {<<"started", i>>, <<"ended", i>>, <<"interrupted", i>>} \subseteq Notes
  BY DEF Notes

LEMMA OutboundKinds ==
    /\ \A e \in Outbound :
          /\ e[1] \in {"record", "delta", "final", "complete", "claimed", "user"}
          /\ e[1] = "claimed" => e[2] \in Remote /\ e = <<"claimed", e[2]>>
          /\ e[1] = "user" => e[2] \in Prompts /\ e = <<"user", e[2]>>
          /\ e[1] = "delta" => e = <<"delta">>
          /\ e[1] = "final" => e = <<"final">>
    /\ {<<"record">>, <<"delta">>, <<"final">>, <<"complete">>} \subseteq Outbound
    /\ \A m \in Remote : <<"claimed", m>> \in Outbound
    /\ \A p \in Prompts : <<"user", p>> \in Outbound
  BY DEF Outbound

LEMMA CommandKinds ==
    /\ \A c \in Commands :
          /\ c[1] \in {"start", "delta", "close", "write", "complete"}
          /\ c[1] = "start" <=> c = <<"start">>
          /\ c[1] = "complete" => c[2] \in Remote /\ c = <<"complete", c[2]>>
    /\ {<<"start">>, <<"delta">>, <<"close">>, <<"write">>} \subseteq Commands
    /\ \A m \in Remote : <<"complete", m>> \in Commands
  BY DEF Commands

LEMMA Queues ==
    ASSUME NEW E, NEW q \in Seq(E)
    PROVE  /\ q # <<>> => Head(q) \in E /\ Tail(q) \in Seq(E)
           /\ \A e \in E : Append(q, e) \in Seq(E) /\ <<e>> \in Seq(E)
           /\ \A r \in Seq(E) : q \o r \in Seq(E)
           /\ <<>> \in Seq(E)
OBVIOUS

LEMMA EmptyQueue == \A E : <<>> \in Seq(E)
OBVIOUS

LEMMA LoadedStore == \A x \in Loaded : x # <<>> => x[1] \in Store /\ x = <<x[1]>>
  BY DEF Loaded

(* The messages that were joined.                                           *)
LEMMA Contents ==
    ASSUME NEW q \in Seq(Prompts)
    PROVE  ToSet(FlattenSeq(q)) \subseteq Messages
<1>1. FlattenSeq(q) \in Seq(Messages)
  BY FlattenType DEF Prompts
<1>2. ASSUME NEW s \in Seq(Messages) PROVE ToSet(s) \subseteq Messages
  BY DEF ToSet
<1> QED
  BY <1>1, <1>2

(* The notifications of the prompts that a turn ends with.                  *)
Announced(q) == [i \in DOMAIN q |-> <<"user", q[i]>>]

LEMMA AnnouncedType ==
    ASSUME NEW q \in Seq(Prompts)
    PROVE  /\ Announced(q) \in Seq(Notes) /\ Len(Announced(q)) = Len(q)
           /\ \A i \in 1 .. Len(q) : Announced(q)[i] = <<"user", q[i]>>
<1>1. DOMAIN q = 1 .. Len(q) /\ Len(q) \in Nat /\ \A i \in 1 .. Len(q) : q[i] \in Prompts
  OBVIOUS
<1>2. Announced(q) \in [1 .. Len(q) -> Notes]
  BY <1>1, NoteKinds DEF Announced
<1> QED
  BY <1>1, <1>2 DEF Announced

(* A prompt that is submitted.                                              *)
LEMMA SubmittedType ==
    ASSUME NEW w \in Widgets, NEW p \in Prompts
    PROVE  /\ Submitted(w, p) \in Widgets /\ Submitted(w, p).turn = w.turn
           /\ Submitted(w, p).queued = w.queued /\ Submitted(w, p).composer = w.composer
           /\ Submitted(w, p).steers = IF w.running THEN Append(w.steers, p) ELSE w.steers
<1>1. Append(w.steers, p) \in Seq(Prompts) /\ w.running \in BOOLEAN
  BY Queues DEF Widgets
<1>2. CASE w.running
  BY <1>1, <1>2 DEF Submitted, Widgets
<1>3. CASE ~w.running
  BY <1>1, <1>3 DEF Submitted, Widgets
<1> QED
  BY <1>1, <1>2, <1>3

-----------------------------------------------------------------------------
(* Shapes, action by action.                                                *)

LEMMA InitShapes == Init => Shapes
<1> SUFFICES ASSUME Init PROVE Shapes
  OBVIOUS
<1>1. cast \in Cast
  BY ChatAssumption DEF Init
<1>2. store \in Store
  BY DEF Init, Store
<1>3. poll \in Loaded /\ snap \in Loaded
  BY DEF Init, Loaded
<1>4. outbound \in Seq(Outbound) /\ events \in Seq(Events) /\ notes \in Seq(Notes)
      /\ chan \in Seq(Notes)
  BY DEF Init
<1>5. pub \in Publishers
  BY DEF Init, Publishers
<1>6. tui \in Widgets
  BY DEF Init, Widgets, Prompts
<1>7. core \in Sessions
  BY DEF Init, Sessions
<1>8. hist \in Histories
  BY DEF Init, Histories
<1> QED
  BY <1>1, <1>2, <1>3, <1>4, <1>5, <1>6, <1>7, <1>8 DEF Shapes

LEMMA PostShapes == ASSUME Shapes, NEW m \in Remote, Post(m) PROVE Shapes'
<1>1. store' \in Store
  BY DEF Shapes, Post, Store
<1>2. hist' \in Histories
  BY DEF Shapes, Post, Histories, Messages
<1> QED
  BY <1>1, <1>2 DEF Shapes, Post

LEMMA LoadClaimShapes == ASSUME Shapes, LoadClaim PROVE Shapes'
<1>1. poll' = <<store>> /\ UNCHANGED <<cast, store, snap, outbound, pub, events, notes, chan,
                                        tui, core, hist>>
  BY Zenon DEF LoadClaim
<1> QED
  BY <1>1 DEF Shapes, Loaded

LEMMA SaveClaimShapes == ASSUME Shapes, SaveClaim PROVE Shapes'
<1>1. PICK m \in FirstInLine(poll[1]), arrives \in BOOLEAN :
         /\ store' = [poll[1] EXCEPT !.msg[m] = "claimed"]
         /\ outbound' = IF arrives THEN Append(outbound, <<"claimed", m>>) ELSE outbound
         /\ events' = IF arrives THEN Append(events, <<"remote", m>>) ELSE events
         /\ hist' = [hist EXCEPT !.claims[m] = @ + 1,
                                 !.given = IF arrives THEN @ \cup {m} ELSE @,
                                 !.faults = IF arrives THEN @ ELSE @ + 1,
                                 !.damaged = Damage(poll[1])]
  BY DEF SaveClaim
<1>2. m \in Remote
  BY DEF FirstInLine
<1>3. store' \in Store
  BY <1>1, LoadedStore DEF SaveClaim, Shapes, Store
<1>4. outbound' \in Seq(Outbound) /\ events' \in Seq(Events)
  BY <1>1, <1>2, Queues, OutboundKinds, EventKinds DEF Shapes
<1>5. hist' \in Histories
  <2> DEFINE c == [hist.claims EXCEPT ![m] = @ + 1]
             g == IF arrives THEN hist.given \cup {m} ELSE hist.given
             f == IF arrives THEN hist.faults ELSE hist.faults + 1
             d == Damage(poll[1])
  <2>1. hist.claims \in [Remote -> Nat] /\ hist.given \in SUBSET Messages /\ hist.faults \in Nat
    BY DEF Shapes, Histories
  <2>2. c \in [Remote -> Nat]
    BY <1>2, <2>1
  <2>3. g \in SUBSET Messages
    BY <1>2, <2>1 DEF Messages
  <2>4. f \in Nat
    BY <2>1
  <2>5. d \in BOOLEAN
    BY DEF Damage
  <2>6. hist' = [hist EXCEPT !.claims = c, !.given = g, !.faults = f, !.damaged = d]
    BY <1>1
  <2> HIDE DEF c, g, f, d
  <2> QED
    BY <2>2, <2>3, <2>4, <2>5, <2>6 DEF Shapes, Histories
<1> QED
  BY <1>3, <1>4, <1>5 DEF Shapes, SaveClaim, Loaded

LEMMA TodoType ==
    ASSUME pub \in Publishers, NEW e \in Outbound
    PROVE  /\ Todo(e) \in Seq(Commands)
           /\ StartsFirst(Todo(e))
           /\ Starting(Todo(e)) = 1 => e \in Signals
<1> DEFINE start == IF pub.reply = 0 THEN << <<"start">> >> ELSE <<>>
<1>1. CASE e[1] = "claimed"
  BY <1>1 DEF Todo, Starting, StartsFirst
<1>2. CASE e[1] = "record"
  BY <1>2, CommandKinds DEF Todo, Starting, StartsFirst
<1>3. CASE e[1] = "user"
  <2>1. TakesFront(e[2]) => Head(pub.pending) \in Remote
    BY DEF TakesFront, Publishers
  <2> QED
    BY <1>3, <2>1, CommandKinds DEF Todo, Starting, StartsFirst
<1>4. CASE e[1] = "delta"
  BY <1>4, CommandKinds, OutboundKinds DEF Todo, Starting, StartsFirst, Signals
<1>5. CASE e[1] = "final"
  BY <1>5, CommandKinds, OutboundKinds DEF Todo, Starting, StartsFirst, Signals
<1>6. CASE e[1] = "complete"
  BY <1>6, CommandKinds DEF Todo, Starting, StartsFirst
<1> QED
  BY <1>1, <1>2, <1>3, <1>4, <1>5, <1>6, OutboundKinds

LEMMA ReceiveShapes == ASSUME Shapes, Receive PROVE Shapes'
<1> DEFINE e == Head(outbound)
<1>1. e \in Outbound /\ outbound' = Tail(outbound) /\ outbound' \in Seq(Outbound)
  BY Queues DEF Shapes, Receive
<1>2. Todo(e) \in Seq(Commands)
  BY <1>1, TodoType DEF Shapes
<1>3. /\ e[1] = "claimed" => Append(pub.pending, e[2]) \in Seq(Remote)
      /\ TakesFront(e[2]) => Tail(pub.pending) \in Seq(Remote)
  BY <1>1, OutboundKinds, Queues DEF Shapes, Publishers, TakesFront
<1>4. pub' \in Publishers
  BY <1>2, <1>3 DEF Receive, Shapes, Publishers
<1> QED
  BY <1>1, <1>4 DEF Shapes, Receive

LEMMA SkipShapes == ASSUME Shapes, Skip PROVE Shapes'
<1>1. Tail(pub.todo) \in Seq(Commands)
  BY Queues DEF Shapes, Skip, Publishers
<1>2. pub' \in Publishers
  BY <1>1 DEF Shapes, Skip, Publishers
<1> QED
  BY <1>2 DEF Shapes, Skip

LEMMA LoadCommandShapes == ASSUME Shapes, LoadCommand PROVE Shapes'
  BY DEF Shapes, LoadCommand, Loaded

(* What the publisher's command leaves behind, if its reply is one of the   *)
(* replies.                                                                 *)
LEMMA CommandShapes ==
    ASSUME Shapes, snap # <<>>, pub.todo # <<>>,
           Head(pub.todo) = <<"start">> => pub.started + 1 \in Replies
    PROVE  LET c == Head(pub.todo)
           IN /\ c \in Commands /\ Changed(snap[1], c) \in Store
              /\ After(c, TRUE) \in Publishers /\ After(c, FALSE) \in Publishers
<1> DEFINE c == Head(pub.todo)
           s == snap[1]
<1>1. /\ c \in Commands /\ Tail(pub.todo) \in Seq(Commands)
  BY Queues DEF Shapes, Publishers
<1>2. s \in Store
  BY LoadedStore DEF Shapes
<1>3. pub.reply \in {0} \cup Replies /\ pub.started \in Nat /\ pub.delta \in BOOLEAN
  BY DEF Shapes, Publishers
<1>4. Changed(s, c) \in Store
  <2>1. s.rep \in [Replies -> {"none", "streaming", "completed"}]
        /\ s.msg \in [Remote -> {"none", "queued", "claimed", "completed"}]
    BY <1>2 DEF Store
  <2>2. ASSUME NEW r PROVE /\ [s EXCEPT !.rep[r] = "streaming"] \in Store
                           /\ [s EXCEPT !.rep[r] = "completed"] \in Store
    BY <1>2, <2>1 DEF Store
  <2>3. ASSUME NEW r PROVE [s EXCEPT !.msg[r] = "completed"] \in Store
    BY <1>2, <2>1 DEF Store
  <2> HIDE DEF c, s
  <2>4. c[1] \in {"start", "delta", "close", "write", "complete"}
    BY <1>1, CommandKinds
  <2> QED
    BY <1>2, <2>2, <2>3, <2>4 DEF Changed
<1>5. ASSUME NEW a \in BOOLEAN PROVE After(c, a) \in Publishers
  <2> DEFINE n == IF c[1] = "start" THEN pub.started + 1 ELSE pub.started
             r == CASE c[1] = "start" -> IF a THEN pub.started + 1 ELSE 0
                    [] c[1] = "close" -> 0
                    [] OTHER -> pub.reply
             d == CASE c[1] = "start" -> FALSE
                    [] c[1] = "delta" -> TRUE
                    [] c[1] = "close" -> FALSE
                    [] OTHER -> pub.delta
  <2>1. n \in Nat
    BY <1>3
  <2>2. r \in {0} \cup Replies
    <3>1. c[1] = "start" => pub.started + 1 \in Replies
      BY <1>1, CommandKinds
    <3> QED
      BY <1>3, <3>1
  <2>3. d \in BOOLEAN
    BY <1>3
  <2>4. After(c, a) = [pub EXCEPT !.todo = Tail(pub.todo), !.started = n, !.reply = r, !.delta = d]
    BY DEF After
  <2> HIDE DEF n, r, d
  <2> QED
    BY <1>1, <2>1, <2>2, <2>3, <2>4 DEF Shapes, Publishers
<1> QED
  BY <1>1, <1>4, <1>5

LEMMA SaveCommandShapes ==
    ASSUME Shapes, SaveCommand, pub.todo # <<>>,
           Head(pub.todo) = <<"start">> => pub.started + 1 \in Replies
    PROVE  Shapes'
<1> DEFINE c == Head(pub.todo)
           d == Damage(snap[1]) \/ Refused(snap[1], c)
<1>1. store' \in Store /\ pub' \in Publishers
  BY CommandShapes DEF SaveCommand, Shapes
<1>2. d \in BOOLEAN
  BY DEF Damage, Refused
<1>3. hist' = [hist EXCEPT !.damaged = d]
  BY DEF SaveCommand
<1> HIDE DEF d
<1>4. hist' \in Histories
  BY <1>2, <1>3 DEF Shapes, Histories
<1> QED
  BY <1>1, <1>4 DEF Shapes, SaveCommand, Loaded

LEMMA KillCommandShapes ==
    ASSUME Shapes, KillCommand, pub.todo # <<>>,
           Head(pub.todo) = <<"start">> => pub.started + 1 \in Replies
    PROVE  Shapes'
<1> DEFINE c == Head(pub.todo)
<1>1. store' \in Store /\ pub' \in Publishers
  <2>1. /\ Changed(snap[1], c) \in Store /\ After(c, FALSE) \in Publishers
    BY CommandShapes DEF KillCommand
  <2>2. store' \in {store, IF Refused(snap[1], c) THEN store ELSE Changed(snap[1], c)}
        /\ pub' = After(c, FALSE)
    BY DEF KillCommand
  <2>3. store \in Store
    BY DEF Shapes
  <2> HIDE DEF c
  <2> QED
    BY <2>1, <2>2, <2>3
<1>2. hist' \in Histories
  <2>1. PICK n \in Nat : n = hist.faults + 1
    BY DEF Shapes, Histories
  <2>2. hist' = [hist EXCEPT !.faults = n, !.damaged = TRUE]
    BY <2>1 DEF KillCommand
  <2> QED
    BY <2>2 DEF Shapes, Histories
<1> QED
  BY <1>1, <1>2 DEF Shapes, KillCommand, Loaded

LEMMA SubmitRemoteShapes == ASSUME Shapes, SubmitRemote PROVE Shapes'
<1> DEFINE m == Head(events)[2]
           w == Submitted(tui, <<m>>)
           stop == m \in Pausing /\ tui.running
           last == IF stop THEN << <<"interrupt">> >> ELSE <<>>
           b == w.resubmit \/ stop
<1>1. /\ Head(events) \in Events /\ Tail(events) \in Seq(Events) /\ Head(events)[1] = "remote"
  BY Queues DEF Shapes, SubmitRemote
<1>2. m \in Remote /\ <<m>> \in Prompts
  BY <1>1, EventKinds DEF Prompts, Messages
<1>3. w \in Widgets
  BY <1>2, SubmittedType DEF Shapes
<1>4. b \in BOOLEAN
  BY Zenon
<1>5. tui' = [w EXCEPT !.resubmit = b]
  BY DEF SubmitRemote
<1>6. tui' \in Widgets
  <2> HIDE DEF w, b
  <2> QED
    BY <1>3, <1>4, <1>5 DEF Widgets
<1>7. events' \in Seq(Events)
  <2>1. last \in Seq(Events) /\ << <<"turn", <<m>> >> >> \in Seq(Events)
    BY <1>2, EventKinds, Queues
  <2>2. events' = (Tail(events) \o << <<"turn", <<m>> >> >>) \o last
    BY DEF SubmitRemote
  <2> HIDE DEF last, m
  <2> QED
    BY <1>1, <2>1, <2>2, Queues
<1> QED
  BY <1>6, <1>7 DEF Shapes, SubmitRemote, bridge

LEMMA SubmitTurnShapes == ASSUME Shapes, SubmitTurn PROVE Shapes'
<1> DEFINE p == Head(events)[2]
<1>1. Head(events) \in Events /\ Tail(events) \in Seq(Events) /\ Head(events)[1] = "turn"
  BY Queues DEF Shapes, SubmitTurn
<1>2. p \in Prompts
  BY <1>1, EventKinds
<1>3. Append(core.pending, p) \in Seq(Prompts) /\ Append(core.subs, <<"input", p>>) \in Seq(Subs)
      /\ core.turn \in Nat
  BY <1>2, SubKinds, Queues DEF Shapes, Sessions
<1> HIDE DEF p
<1>4. core' \in Sessions /\ tui' \in Widgets
  <2>1. CASE tui.turn # 0 /\ core.turn # 0
    <3>1. /\ core' = [core EXCEPT !.pending = Append(core.pending, p)]
          /\ tui' = [tui EXCEPT !.turn = core.turn]
      BY <2>1 DEF SubmitTurn, p
    <3> QED
      BY <1>3, <3>1 DEF Shapes, Sessions, Widgets
  <2>2. CASE ~(tui.turn # 0 /\ core.turn # 0)
    <3>1. /\ core' = [core EXCEPT !.subs = Append(core.subs, <<"input", p>>)]
          /\ tui' = [tui EXCEPT !.turn = 0]
      BY <2>2 DEF SubmitTurn, p
    <3>2. PICK q \in Seq(Subs) : q = Append(core.subs, <<"input", p>>)
      BY <1>3
    <3>3. core' = [core EXCEPT !.subs = q]
      BY <3>1, <3>2
    <3> QED
      BY <3>1, <3>3 DEF Shapes, Sessions, Widgets
  <2> QED
    BY <2>1, <2>2
<1> QED
  BY <1>1, <1>4 DEF Shapes, SubmitTurn, bridge

LEMMA SubmitInterruptShapes == ASSUME Shapes, SubmitInterrupt PROVE Shapes'
<1>1. Tail(events) \in Seq(Events) /\ Append(tui.requests, tui.turn) \in Seq(Nat)
  BY Queues DEF Shapes, SubmitInterrupt, Widgets
<1>2. tui' \in Widgets
  BY <1>1 DEF SubmitInterrupt, Shapes, Widgets
<1> QED
  BY <1>1, <1>2 DEF Shapes, SubmitInterrupt, bridge

LEMMA RequestInterruptShapes == ASSUME Shapes, RequestInterrupt PROVE Shapes'
<1>1. Tail(tui.requests) \in Seq(Nat) /\ Append(core.subs, <<"interrupt">>) \in Seq(Subs)
      /\ core.turn \in Nat
  BY SubKinds, Queues DEF Shapes, RequestInterrupt, Widgets, Sessions
<1>2. tui' \in Widgets
  BY <1>1 DEF RequestInterrupt, Shapes, Widgets
<1>3. core' \in Sessions
  BY <1>1 DEF RequestInterrupt, Shapes, Sessions
<1> QED
  BY <1>2, <1>3 DEF Shapes, RequestInterrupt, bridge

LEMMA RouteShapes == ASSUME Shapes, Route PROVE Shapes'
<1>1. Head(notes) \in Notes /\ Tail(notes) \in Seq(Notes)
  BY Queues DEF Shapes, Route
<1>2. Append(chan, Head(notes)) \in Seq(Notes)
  BY <1>1, Queues DEF Shapes
<1>3. tui' \in Widgets
  BY <1>1, NoteKinds DEF Route, Shapes, Widgets
<1> QED
  BY <1>1, <1>2, <1>3 DEF Shapes, Route, bridge

LEMMA HandleShapes ==
    ASSUME Shapes, NEW kind, Handle(kind)
    PROVE  /\ Head(chan) \in Notes /\ chan' \in Seq(Notes)
           /\ Published(Head(chan)) \in Seq(Outbound) /\ outbound' \in Seq(Outbound)
<1>1. Head(chan) \in Notes /\ Tail(chan) \in Seq(Notes)
  BY Queues DEF Shapes, Handle
<1>2. Published(Head(chan)) \in Seq(Outbound)
  <2>1. PICK n \in Notes : n = Head(chan)
    BY <1>1
  <2>2. n[1] = "user" => n[2] \in Prompts
    BY NoteKinds
  <2>3. /\ << <<"record">> >> \in Seq(Outbound) /\ << <<"delta">> >> \in Seq(Outbound)
        /\ << <<"final">> >> \in Seq(Outbound)
        /\ << <<"record">>, <<"complete">> >> \in Seq(Outbound)
    BY OutboundKinds
  <2>4. n[1] = "user" => << <<"user", n[2]>> >> \in Seq(Outbound)
    BY <2>2, OutboundKinds
  <2>5. Published(n) \in Seq(Outbound)
    BY <2>3, <2>4 DEF Published
  <2> QED
    BY <2>1, <2>5
<1> QED
  BY <1>1, <1>2, Queues DEF Handle, Shapes

LEMMA HandleStartedShapes == ASSUME Shapes, HandleStarted PROVE Shapes'
<1>1. chan' \in Seq(Notes) /\ outbound' \in Seq(Outbound)
  BY HandleShapes DEF HandleStarted
<1>2. tui' \in Widgets
  BY DEF HandleStarted, Shapes, Widgets
<1> QED
  BY <1>1, <1>2 DEF Shapes, HandleStarted

LEMMA HandleUserMessageShapes == ASSUME Shapes, HandleUserMessage PROVE Shapes'
<1>1. chan' \in Seq(Notes) /\ outbound' \in Seq(Outbound)
  BY HandleShapes DEF HandleUserMessage
<1>2. PICK q \in Seq(Prompts) : tui' = [tui EXCEPT !.steers = q]
  <2>1. tui.steers \in Seq(Prompts) /\ (tui.steers # <<>> => Tail(tui.steers) \in Seq(Prompts))
    BY Queues DEF Shapes, Widgets
  <2> QED
    BY <2>1 DEF HandleUserMessage
<1>3. tui' \in Widgets
  BY <1>2 DEF Shapes, Widgets
<1> QED
  BY <1>1, <1>3 DEF Shapes, HandleUserMessage

LEMMA HandleAgentMessageShapes == ASSUME Shapes, HandleAgentMessage PROVE Shapes'
<1>1. chan' \in Seq(Notes) /\ outbound' \in Seq(Outbound)
  BY HandleShapes DEF HandleAgentMessage
<1> QED
  BY <1>1 DEF Shapes, HandleAgentMessage

LEMMA IdleType ==
    ASSUME Shapes
    PROVE  /\ Idle \in Widgets /\ Idle.turn = tui.turn /\ Idle.queued = tui.queued
           /\ Idle.steers = tui.steers /\ Idle.composer = tui.composer /\ ~Idle.running
  BY DEF Shapes, Idle, Widgets

LEMMA HandleEndedShapes == ASSUME Shapes, HandleEnded PROVE Shapes'
<1>1. chan' \in Seq(Notes) /\ outbound' \in Seq(Outbound)
  BY HandleShapes DEF HandleEnded
<1>2. CASE tui.queued = <<>>
  <2>1. tui' \in Widgets /\ events' = events
    BY <1>2, IdleType DEF HandleEnded
  <2> QED
    BY <1>1, <2>1 DEF Shapes, HandleEnded
<1>3. CASE tui.queued # <<>>
  <2> DEFINE p == Head(tui.queued)
             w == Submitted(Idle, p)
  <2>1. p \in Prompts /\ Tail(tui.queued) \in Seq(Prompts)
    BY <1>3, Queues DEF Shapes, Widgets
  <2>2. w \in Widgets /\ w.queued = tui.queued
    BY <2>1, IdleType, SubmittedType
  <2>3. tui' = [w EXCEPT !.queued = Tail(@)]
    BY <1>3 DEF HandleEnded
  <2>4. events' \in Seq(Events)
    <3>1. events' = Append(events, <<"turn", p>>)
      BY <1>3 DEF HandleEnded
    <3> QED
      BY <2>1, <3>1, EventKinds, Queues DEF Shapes
  <2>5. tui' \in Widgets
    <3> HIDE DEF w
    <3> QED
      BY <2>1, <2>2, <2>3 DEF Widgets
  <2> QED
    BY <1>1, <2>4, <2>5 DEF Shapes, HandleEnded
<1> QED
  BY <1>2, <1>3

LEMMA RestoredType == ASSUME Shapes PROVE Restored \in Prompts
<1>1. tui.steers \in Seq(Prompts) /\ tui.queued \in Seq(Prompts) /\ tui.composer \in Prompts
  BY DEF Shapes, Widgets
<1>2. tui.steers \o tui.queued \in Seq(Prompts)
  BY <1>1, Queues
<1>3. FlattenSeq(tui.steers \o tui.queued) \in Prompts
  BY <1>2, FlattenType DEF Prompts
<1> QED
  BY <1>1, <1>3, TimesJoin DEF Restored

LEMMA Emptied ==
    ASSUME NEW w \in Widgets, NEW p \in Prompts
    PROVE  /\ [w EXCEPT !.steers = <<>>] \in Widgets
           /\ [w EXCEPT !.steers = <<>>, !.queued = <<>>, !.composer = p] \in Widgets
<1>1. ASSUME NEW q \in Seq(Prompts)
      PROVE  /\ [w EXCEPT !.steers = q] \in Widgets
             /\ [w EXCEPT !.steers = q, !.queued = q, !.composer = p] \in Widgets
  BY DEF Widgets
<1>2. <<>> \in Seq(Prompts)
  OBVIOUS
<1> QED
  BY <1>1, <1>2

LEMMA HandleInterruptedShapes == ASSUME Shapes, HandleInterrupted PROVE Shapes'
<1>1. chan' \in Seq(Notes) /\ outbound' \in Seq(Outbound)
  BY HandleShapes DEF HandleInterrupted
<1>2. CASE tui.resubmit /\ tui.steers # <<>>
  <2> DEFINE p == FlattenSeq(tui.steers)
             w == [Idle EXCEPT !.steers = <<>>]
  <2>1. p \in Prompts
    BY FlattenType DEF Shapes, Widgets, Prompts
  <2>2. w \in Widgets
    BY <2>1, IdleType, Emptied
  <2>3. tui' = Submitted(w, p) /\ events' = Append(events, <<"turn", p>>)
    BY <1>2 DEF HandleInterrupted
  <2> HIDE DEF p, w
  <2>4. tui' \in Widgets
    BY <2>1, <2>2, <2>3, SubmittedType
  <2>5. events' \in Seq(Events)
    BY <2>1, <2>3, EventKinds, Queues DEF Shapes
  <2> QED
    BY <1>1, <2>4, <2>5 DEF Shapes, HandleInterrupted
<1>3. CASE ~(tui.resubmit /\ tui.steers # <<>>)
  <2>1. tui' = [Idle EXCEPT !.steers = <<>>, !.queued = <<>>, !.composer = Restored]
        /\ events' = events
    BY <1>3 DEF HandleInterrupted
  <2>2. tui' \in Widgets
    BY <2>1, IdleType, RestoredType, Emptied
  <2> QED
    BY <1>1, <2>1, <2>2 DEF Shapes, HandleInterrupted
<1> QED
  BY <1>2, <1>3

LEMMA EnterShapes == ASSUME Shapes, NEW p \in Local, Enter(p) PROVE Shapes'
<1> DEFINE prompt == tui.composer \o <<p>>
           w == [tui EXCEPT !.composer = <<>>]
<1>1. p \in Messages /\ tui.composer \in Prompts /\ <<p>> \in Prompts /\ <<>> \in Prompts
  BY DEF Messages, Prompts, Shapes, Widgets
<1>2. prompt \in Prompts
  BY <1>1, TimesJoin
<1>3. w \in Widgets /\ w.queued = tui.queued /\ tui.queued \in Seq(Prompts)
  BY <1>1 DEF Shapes, Widgets
<1>4. hist' \in Histories
  <2>1. PICK t \in SUBSET Messages : t = hist.typed \cup {p}
    BY <1>1 DEF Shapes, Histories
  <2>2. hist' = [hist EXCEPT !.typed = t]
    BY <2>1 DEF Enter
  <2> QED
    BY <2>2 DEF Shapes, Histories
<1>5. CASE tui.starting /\ ~tui.running
  <2>1. tui' = [w EXCEPT !.queued = Append(@, prompt)] /\ events' = events
    BY <1>5 DEF Enter
  <2> HIDE DEF w, prompt
  <2>2. Append(w.queued, prompt) \in Seq(Prompts)
    BY <1>2, <1>3, Queues
  <2>3. tui' \in Widgets
    BY <1>3, <2>1, <2>2 DEF Widgets
  <2> QED
    BY <1>4, <2>1, <2>3 DEF Shapes, Enter, bridge
<1>6. CASE ~(tui.starting /\ ~tui.running)
  <2>1. tui' = Submitted(w, prompt) /\ events' = Append(events, <<"turn", prompt>>)
    BY <1>6 DEF Enter
  <2> HIDE DEF w, prompt
  <2>2. tui' \in Widgets /\ events' \in Seq(Events)
    BY <1>2, <1>3, <2>1, SubmittedType, EventKinds, Queues DEF Shapes
  <2> QED
    BY <1>4, <2>2 DEF Shapes, Enter, bridge
<1> QED
  BY <1>5, <1>6

LEMMA EscapeShapes == ASSUME Shapes, Escape PROVE Shapes'
<1>1. events' \in Seq(Events)
  BY EventKinds, Queues DEF Escape, Shapes
<1>2. PICK b \in BOOLEAN : tui' = [tui EXCEPT !.resubmit = b]
  <2>1. (tui.resubmit \/ tui.steers # <<>>) \in BOOLEAN
    OBVIOUS
  <2> QED
    BY <2>1 DEF Escape
<1>3. tui' \in Widgets
  BY <1>2 DEF Shapes, Widgets
<1>4. PICK n \in Nat : hist' = [hist EXCEPT !.escapes = n]
  <2>1. hist.escapes + 1 \in Nat
    BY DEF Shapes, Histories
  <2> QED
    BY <2>1 DEF Escape
<1>5. hist' \in Histories
  BY <1>4 DEF Shapes, Histories
<1> QED
  BY <1>1, <1>3, <1>5 DEF Shapes, Escape, bridge

LEMMA HandleInputShapes == ASSUME Shapes, HandleInput PROVE Shapes'
<1> DEFINE p == Head(core.subs)[2]
<1>1. Head(core.subs) \in Subs /\ Tail(core.subs) \in Seq(Subs)
  BY Queues DEF Shapes, Sessions, HandleInput
<1>2. p \in Prompts
  BY <1>1, SubKinds DEF HandleInput
<1>3. /\ Append(core.pending, p) \in Seq(Prompts) /\ <<p>> \in Seq(Prompts)
      /\ core.last + 1 \in Nat
  BY <1>2, Queues DEF Shapes, Sessions
<1> HIDE DEF p
<1>4. CASE core.turn # 0
  <2>1. core' = [core EXCEPT !.subs = Tail(@), !.pending = Append(@, p)] /\ notes' = notes
    BY <1>4 DEF HandleInput, p
  <2>2. core' \in Sessions
    BY <1>1, <1>3, <2>1 DEF Shapes, Sessions
  <2> QED
    BY <2>1, <2>2 DEF Shapes, HandleInput, bridge
<1>5. CASE core.turn = 0
  <2>1. /\ core' = [core EXCEPT !.subs = Tail(@), !.pending = <<p>>, !.turn = core.last + 1,
                                !.last = @ + 1]
        /\ notes' = Append(notes, <<"started", core.last + 1>>)
    BY <1>5 DEF HandleInput, p
  <2>2. core' \in Sessions
    BY <1>1, <1>3, <2>1 DEF Shapes, Sessions
  <2>3. notes' \in Seq(Notes)
    BY <1>3, <2>1, NoteKinds, Queues DEF Shapes
  <2> QED
    BY <2>2, <2>3 DEF Shapes, HandleInput, bridge
<1> QED
  BY <1>4, <1>5

LEMMA HandleInterruptShapes == ASSUME Shapes, HandleInterrupt PROVE Shapes'
<1>1. Tail(core.subs) \in Seq(Subs)
  BY Queues DEF Shapes, Sessions, HandleInterrupt
<1>2. CASE core.turn = 0
  <2>1. core' = [core EXCEPT !.subs = Tail(@)] /\ notes' = notes /\ hist' = hist
    BY <1>2 DEF HandleInterrupt
  <2>2. core' \in Sessions
    BY <1>1, <2>1 DEF Shapes, Sessions
  <2> QED
    BY <2>1, <2>2 DEF Shapes, HandleInterrupt, bridge
<1>3. CASE core.turn # 0
  <2> DEFINE lost == hist.dropped \cup (ToSet(FlattenSeq(core.pending))
                                           \ ToSet(FlattenSeq(tui.steers)))
  <2>1. core' \in Sessions
    <3>1. core' = [core EXCEPT !.subs = Tail(@), !.turn = 0, !.pending = <<>>, !.speaking = FALSE]
      BY <1>3 DEF HandleInterrupt
    <3>2. PICK q \in Seq(Prompts) : q = <<>>
      BY EmptyQueue
    <3>3. core' = [core EXCEPT !.subs = Tail(@), !.turn = 0, !.pending = q, !.speaking = FALSE]
      BY <3>1, <3>2
    <3> QED
      BY <1>1, <3>3 DEF Shapes, Sessions
  <2>2. notes' \in Seq(Notes)
    <3>1. notes' = Append(notes, <<"interrupted", core.turn>>) /\ core.turn \in Nat
      BY <1>3 DEF HandleInterrupt, Shapes, Sessions
    <3> QED
      BY <3>1, NoteKinds, Queues DEF Shapes
  <2>3. lost \in SUBSET Messages
    <3>1. hist.dropped \in SUBSET Messages /\ core.pending \in Seq(Prompts)
      BY DEF Shapes, Histories, Sessions
    <3>2. ToSet(FlattenSeq(core.pending)) \subseteq Messages
      BY <3>1, Contents
    <3> QED
      BY <3>1, <3>2
  <2>4. hist' \in Histories
    <3>1. hist' = [hist EXCEPT !.interrupts = @ + 1, !.dropped = lost]
      BY <1>3 DEF HandleInterrupt
    <3>2. PICK n \in Nat : n = hist.interrupts + 1
      BY DEF Shapes, Histories
    <3> HIDE DEF lost
    <3>3. hist' = [hist EXCEPT !.interrupts = n, !.dropped = lost]
      BY <3>1, <3>2
    <3> QED
      BY <2>3, <3>3 DEF Shapes, Histories
  <2> QED
    BY <2>1, <2>2, <2>4 DEF Shapes, HandleInterrupt, bridge
<1> QED
  BY <1>2, <1>3

(* The prompts that are recorded.                                           *)
LEMMA RecordedShapes ==
    ASSUME Shapes, NEW q \in Seq(Prompts), hist' = Recorded(hist, q)
    PROVE  hist' \in Histories
<1>1. hist.recorded \o q \in Seq(Prompts)
  BY Queues DEF Shapes, Histories
<1> QED
  BY <1>1 DEF Shapes, Histories, Recorded

LEMMA RecordInputShapes == ASSUME Shapes, RecordInput PROVE Shapes'
<1> DEFINE p == Head(core.pending)
<1>1. p \in Prompts /\ Tail(core.pending) \in Seq(Prompts) /\ <<p>> \in Seq(Prompts)
  BY Queues DEF Shapes, Sessions, RecordInput
<1>2. core' \in Sessions
  BY <1>1 DEF RecordInput, Shapes, Sessions
<1>3. notes' \in Seq(Notes)
  BY <1>1, NoteKinds, Queues DEF RecordInput, Shapes
<1>4. hist' \in Histories
  BY <1>1, RecordedShapes DEF RecordInput
<1> QED
  BY <1>2, <1>3, <1>4 DEF Shapes, RecordInput, bridge

LEMMA SpeakShapes == ASSUME Shapes, Speak PROVE Shapes'
<1>1. PICK b \in BOOLEAN, n \in Nat, e \in Notes :
         core' = [core EXCEPT !.speaking = b, !.spoken = n] /\ notes' = Append(notes, e)
  <2>1. /\ core.speaking \in BOOLEAN /\ core.spoken \in Nat /\ core.spoken + 1 \in Nat
        /\ <<"delta">> \in Notes /\ <<"final">> \in Notes
    BY NoteKinds DEF Shapes, Sessions
  <2>2. CASE /\ core' = [core EXCEPT !.speaking = TRUE, !.spoken = @ + 1]
             /\ notes' = Append(notes, <<"delta">>)
    BY <2>1, <2>2
  <2>3. CASE /\ core' = [core EXCEPT !.speaking = FALSE] /\ notes' = Append(notes, <<"final">>)
    <3>1. core' = [core EXCEPT !.speaking = FALSE, !.spoken = core.spoken]
      BY <2>3 DEF Shapes, Sessions
    <3> QED
      BY <2>1, <2>3, <3>1
  <2>4. CASE /\ core' = [core EXCEPT !.spoken = @ + 1] /\ notes' = Append(notes, <<"final">>)
    <3>1. core' = [core EXCEPT !.speaking = core.speaking, !.spoken = core.spoken + 1]
      BY <2>4 DEF Shapes, Sessions
    <3> QED
      BY <2>1, <2>4, <3>1
  <2> QED
    BY <2>2, <2>3, <2>4 DEF Speak
<1>2. notes' \in Seq(Notes)
  BY <1>1, Queues DEF Shapes
<1>3. core' \in Sessions
  BY <1>1 DEF Shapes, Sessions
<1> QED
  BY <1>2, <1>3 DEF Shapes, Speak, bridge

LEMMA EndTurnShapes == ASSUME Shapes, EndTurn PROVE Shapes'
<1>1. core.pending \in Seq(Prompts) /\ core.turn \in Nat
  BY DEF Shapes, Sessions
<1>2. notes' \in Seq(Notes)
  <2>1. notes' = notes \o Announced(core.pending) \o << <<"ended", core.turn>> >>
    BY DEF EndTurn, Announced
  <2>2. Announced(core.pending) \in Seq(Notes) /\ << <<"ended", core.turn>> >> \in Seq(Notes)
    BY <1>1, AnnouncedType, NoteKinds, Queues
  <2> QED
    BY <2>1, <2>2, Queues DEF Shapes
<1>3. core' \in Sessions
  <2>1. PICK q \in Seq(Prompts) : q = <<>>
    BY EmptyQueue
  <2>2. core' = [core EXCEPT !.turn = 0, !.pending = q, !.speaking = FALSE]
    BY <2>1 DEF EndTurn
  <2> QED
    BY <2>2 DEF Shapes, Sessions
<1>4. hist' \in Histories
  BY <1>1, RecordedShapes DEF EndTurn
<1> QED
  BY <1>2, <1>3, <1>4 DEF Shapes, EndTurn, bridge

-----------------------------------------------------------------------------
(* The turns that are known have begun.                                     *)

LEMMA BegunConcat ==
    ASSUME NEW q \in Seq(Notes), NEW r \in Seq(Notes), NEW n
    PROVE  Begun(q \o r, n) <=> Begun(q, n) /\ Begun(r, n)
<1>1. /\ DOMAIN q = 1 .. Len(q) /\ DOMAIN r = 1 .. Len(r) /\ Len(q) \in Nat /\ Len(r) \in Nat
      /\ DOMAIN (q \o r) = 1 .. Len(q) + Len(r)
      /\ \A i \in 1 .. Len(q) : (q \o r)[i] = q[i]
      /\ \A i \in 1 .. Len(r) : (q \o r)[i + Len(q)] = r[i]
  BY Spots
<1>2. ASSUME Begun(q, n), Begun(r, n) PROVE Begun(q \o r, n)
  <2> SUFFICES ASSUME NEW i \in 1 .. Len(q) + Len(r), (q \o r)[i][1] = "started"
               PROVE  (q \o r)[i][2] <= n
    BY <1>1 DEF Begun
  <2>1. CASE i <= Len(q)
    <3>1. i \in 1 .. Len(q)
      BY <1>1, <2>1
    <3> QED
      BY <1>1, <1>2, <3>1 DEF Begun
  <2>2. CASE ~(i <= Len(q))
    <3>1. PICK j \in 1 .. Len(r) : j + Len(q) = i
      <4>1. i - Len(q) \in 1 .. Len(r) /\ (i - Len(q)) + Len(q) = i
        BY <1>1, <2>2
      <4> QED
        BY <4>1
    <3> QED
      BY <1>1, <1>2, <3>1 DEF Begun
  <2> QED
    BY <2>1, <2>2
<1>3. ASSUME Begun(q \o r, n) PROVE Begun(q, n) /\ Begun(r, n)
  <2>1. \A i \in 1 .. Len(q) : i \in DOMAIN (q \o r)
    BY <1>1
  <2>2. \A i \in 1 .. Len(r) : i + Len(q) \in DOMAIN (q \o r)
    BY <1>1
  <2> QED
    BY <1>1, <1>3, <2>1, <2>2 DEF Begun
<1> QED
  BY <1>2, <1>3

LEMMA BegunAppend ==
    ASSUME NEW q \in Seq(Notes), NEW e \in Notes, NEW n, Begun(q, n),
           e[1] = "started" => e[2] <= n
    PROVE  Begun(Append(q, e), n)
<1>1. Append(q, e) = q \o <<e>> /\ <<e>> \in Seq(Notes) /\ Begun(<<e>>, n)
  BY DEF Begun
<1> QED
  BY <1>1, BegunConcat

LEMMA BegunTail ==
    ASSUME NEW q \in Seq(Notes), q # <<>>, NEW n, Begun(q, n)
    PROVE  Begun(Tail(q), n) /\ (Head(q)[1] = "started" => Head(q)[2] <= n)
<1>1. q = <<Head(q)>> \o Tail(q) /\ <<Head(q)>> \in Seq(Notes) /\ Tail(q) \in Seq(Notes)
  BY HeadAndTail
<1>2. Begun(<<Head(q)>> \o Tail(q), n)
  BY <1>1
<1>3. Begun(<<Head(q)>>, n) /\ Begun(Tail(q), n)
  BY <1>1, <1>2, BegunConcat
<1> QED
  BY <1>3 DEF Begun

LEMMA BegunAside ==
    ASSUME TurnsBegun, notes' = notes, tui'.turn = tui.turn, core'.turn = core.turn,
           core'.last = core.last
    PROVE  TurnsBegun'
  BY DEF TurnsBegun

LEMMA NextTurnsBegun == ASSUME TypeInv, Next PROVE TurnsBegun'
<1> USE DEF TypeInv
<1>0. /\ tui.turn \in Nat /\ core.turn \in Nat /\ core.last \in Nat /\ notes \in Seq(Notes)
      /\ core.pending \in Seq(Prompts)
  BY DEF Shapes, Widgets, Sessions
<1>1. CASE \/ \E m \in Remote : Post(m)
           \/ LoadClaim \/ SaveClaim \/ Receive \/ Skip \/ LoadCommand \/ SaveCommand \/ KillCommand
           \/ HandleAgentMessage
  <2>1. notes' = notes /\ tui' = tui /\ core' = core
    BY <1>1, Zenon DEF Post, LoadClaim, SaveClaim, Receive, Skip, LoadCommand, SaveCommand,
      KillCommand, HandleAgentMessage
  <2> QED
    BY <2>1, BegunAside
<1>2. CASE \E p \in Local : Enter(p)
  <2> PICK p \in Local : Enter(p)
    BY <1>2
  <2> DEFINE w == [tui EXCEPT !.composer = <<>>]
             r == tui.composer \o <<p>>
  <2>1. w.turn = tui.turn /\ Submitted(w, r).turn = w.turn
        /\ [w EXCEPT !.queued = Append(@, r)].turn = w.turn
    BY DEF Submitted, Shapes, Widgets
  <2>2. notes' = notes /\ core' = core
        /\ tui' \in {Submitted(w, r), [w EXCEPT !.queued = Append(@, r)]}
    BY DEF Enter
  <2> HIDE DEF w, r
  <2>3. tui'.turn = tui.turn
    BY <2>1, <2>2
  <2> QED
    BY <2>2, <2>3, BegunAside
<1>3. CASE Escape
  <2>1. tui'.turn = tui.turn
    BY <1>3 DEF Escape, Shapes, Widgets
  <2> QED
    BY <1>3, <2>1, BegunAside DEF Escape
<1>4. CASE SubmitRemote
  <2> DEFINE w == Submitted(tui, <<Head(events)[2]>>)
  <2>1. w.turn = tui.turn
    BY DEF Submitted, Shapes, Widgets
  <2>2. w \in [DOMAIN w -> {w[x] : x \in DOMAIN w}] /\ tui'.turn = w.turn
    BY <1>4 DEF SubmitRemote, Submitted, Shapes, Widgets
  <2> QED
    BY <1>4, <2>1, <2>2, BegunAside DEF SubmitRemote
<1>5. CASE SubmitTurn
  <2>1. /\ tui'.turn \in {0, core.turn} /\ core'.turn = core.turn /\ core'.last = core.last
        /\ notes' = notes
    BY <1>5 DEF SubmitTurn, Shapes, Widgets, Sessions
  <2> QED
    BY <1>0, <2>1 DEF TurnsBegun
<1>6. CASE SubmitInterrupt
  <2>1. tui'.turn = tui.turn
    BY <1>6 DEF SubmitInterrupt, Shapes, Widgets
  <2> QED
    BY <1>6, <2>1, BegunAside DEF SubmitInterrupt
<1>7. CASE RequestInterrupt
  <2>1. tui'.turn = tui.turn /\ core'.turn = core.turn /\ core'.last = core.last
    BY <1>7 DEF RequestInterrupt, Shapes, Widgets, Sessions
  <2> QED
    BY <1>7, <2>1, BegunAside DEF RequestInterrupt
<1>8. CASE Route
  <2>1. Head(notes) \in Notes /\ notes # <<>> /\ notes' = Tail(notes) /\ core' = core
    BY <1>0, <1>8, Queues DEF Route
  <2>2. Begun(Tail(notes), core.last) /\ (Head(notes)[1] = "started" => Head(notes)[2] <= core.last)
    BY <1>0, <2>1, BegunTail DEF TurnsBegun
  <2>3. tui'.turn \in {tui.turn, 0} \/ (Head(notes)[1] = "started" /\ tui'.turn = Head(notes)[2])
    BY <1>8 DEF Route, Shapes, Widgets
  <2> QED
    BY <1>0, <2>1, <2>2, <2>3 DEF TurnsBegun
<1>9. CASE HandleStarted \/ HandleUserMessage
  <2>1. tui'.turn = tui.turn
    BY <1>9 DEF HandleStarted, HandleUserMessage, Shapes, Widgets
  <2> QED
    BY <1>9, <2>1, BegunAside DEF HandleStarted, HandleUserMessage
<1>10. CASE HandleEnded
  <2>1. tui'.turn = tui.turn
    BY <1>10 DEF HandleEnded, Idle, Submitted, Shapes, Widgets
  <2> QED
    BY <1>10, <2>1, BegunAside DEF HandleEnded
<1>11. CASE HandleInterrupted
  <2>1. tui'.turn = tui.turn
    BY <1>11 DEF HandleInterrupted, Idle, Submitted, Shapes, Widgets
  <2> QED
    BY <1>11, <2>1, BegunAside DEF HandleInterrupted
<1>12. CASE HandleInput
  <2>1. CASE core.turn # 0
    <3>1. notes' = notes /\ tui' = tui /\ core'.turn = core.turn /\ core'.last = core.last
      BY <1>12, <2>1 DEF HandleInput, Shapes, Sessions
    <3> QED
      BY <3>1, BegunAside
  <2>2. CASE core.turn = 0
    <3>1. /\ notes' = Append(notes, <<"started", core.last + 1>>) /\ tui' = tui
          /\ core'.turn = core.last + 1 /\ core'.last = core.last + 1
      BY <1>12, <2>2 DEF HandleInput, Shapes, Sessions
    <3>2. Begun(notes, core.last + 1)
      <4>1. \A i \in DOMAIN notes : notes[i] \in Notes
        BY <1>0
      <4> QED
        BY <1>0, <4>1, NoteKinds DEF TurnsBegun, Begun
    <3>3. <<"started", core.last + 1>> \in Notes /\ <<"started", core.last + 1>>[2] = core.last + 1
      <4>1. PICK n \in Nat : n = core.last + 1
        BY <1>0
      <4> QED
        BY <4>1, NoteKinds
    <3>4. Begun(notes', core.last + 1)
      BY <1>0, <3>1, <3>2, <3>3, BegunAppend
    <3> QED
      BY <1>0, <3>1, <3>4 DEF TurnsBegun
  <2> QED
    BY <2>1, <2>2
<1>13. CASE HandleInterrupt
  <2>1. CASE core.turn = 0
    <3>1. notes' = notes /\ tui' = tui /\ core'.turn = core.turn /\ core'.last = core.last
      BY <1>13, <2>1 DEF HandleInterrupt, Shapes, Sessions
    <3> QED
      BY <3>1, BegunAside
  <2>2. CASE core.turn # 0
    <3>1. /\ notes' = Append(notes, <<"interrupted", core.turn>>) /\ tui' = tui
          /\ core'.turn = 0 /\ core'.last = core.last
      BY <1>13, <2>2 DEF HandleInterrupt, Shapes, Sessions
    <3>2. Begun(notes', core.last)
      BY <1>0, <3>1, NoteKinds, BegunAppend DEF TurnsBegun
    <3> QED
      BY <1>0, <3>1, <3>2 DEF TurnsBegun
  <2> QED
    BY <2>1, <2>2
<1>14. CASE RecordInput \/ Speak
  <2>1. PICK e \in Notes : e[1] # "started" /\ notes' = Append(notes, e)
    <3>1. CASE RecordInput
      BY <1>0, <3>1, NoteKinds, Queues DEF RecordInput
    <3>2. CASE Speak
      BY <3>2, NoteKinds DEF Speak
    <3> QED
      BY <1>14, <3>1, <3>2
  <2>2. tui' = tui /\ core'.turn = core.turn /\ core'.last = core.last
    BY <1>14 DEF RecordInput, Speak, Shapes, Sessions
  <2>3. Begun(notes', core.last)
    BY <1>0, <2>1, BegunAppend DEF TurnsBegun
  <2> QED
    BY <2>2, <2>3 DEF TurnsBegun
<1>15. CASE EndTurn
  <2> DEFINE A == Announced(core.pending)
             B == << <<"ended", core.turn>> >>
  <2>1. notes' = (notes \o A) \o B /\ tui' = tui /\ core'.turn = 0 /\ core'.last = core.last
    BY <1>15 DEF EndTurn, Announced, Shapes, Sessions
  <2>2. A \in Seq(Notes) /\ B \in Seq(Notes)
    BY <1>0, AnnouncedType, NoteKinds, Queues
  <2>3. Begun(A, core.last)
    BY <1>0, <2>2, AnnouncedType DEF Begun
  <2>4. Begun(B, core.last)
    BY DEF Begun
  <2> HIDE DEF A, B
  <2>5. Begun(notes \o A, core.last) /\ notes \o A \in Seq(Notes)
    BY <1>0, <2>2, <2>3, BegunConcat, Queues DEF TurnsBegun
  <2>6. Begun(notes', core.last)
    BY <2>1, <2>2, <2>4, <2>5, BegunConcat
  <2> QED
    BY <1>0, <2>1, <2>6 DEF TurnsBegun
<1> QED
  BY <1>1, <1>2, <1>3, <1>4, <1>5, <1>6, <1>7, <1>8, <1>9, <1>10, <1>11, <1>12, <1>13, <1>14, <1>15
     DEF Next, Bridge, Loop, Widget, Session

-----------------------------------------------------------------------------
(* The publisher's commands.                                                *)

LEMMA RestOfCommands ==
    ASSUME NEW todo \in Seq(Commands), todo # <<>>, StartsFirst(todo)
    PROVE  /\ StartsFirst(Tail(todo)) /\ Starting(Tail(todo)) = 0
           /\ Starting(todo) = IF Head(todo) = <<"start">> THEN 1 ELSE 0
<1>1. /\ Len(todo) \in Nat /\ DOMAIN todo = 1 .. Len(todo) /\ Head(todo) = todo[1]
      /\ DOMAIN Tail(todo) = 1 .. Len(todo) - 1
      /\ \A i \in 1 .. Len(todo) - 1 : Tail(todo)[i] = todo[i + 1]
      /\ Tail(todo) # <<>> => 1 \in 1 .. Len(todo) - 1
  OBVIOUS
<1>2. \A i \in 1 .. Len(todo) - 1 : Tail(todo)[i] # <<"start">>
  <2> SUFFICES ASSUME NEW i \in 1 .. Len(todo) - 1, todo[i + 1] = <<"start">> PROVE FALSE
    BY <1>1
  <2>1. i + 1 \in DOMAIN todo /\ i + 1 # 1
    BY <1>1
  <2> QED
    BY <2>1 DEF StartsFirst
<1> QED
  BY <1>1, <1>2 DEF StartsFirst, Starting

LEMMA NextCommandsServed == ASSUME TypeInv, Next PROVE CommandsServed'
<1> USE DEF TypeInv
<1>0. pub.todo \in Seq(Commands) /\ outbound \in Seq(Outbound)
  BY DEF Shapes, Publishers
<1>1. CASE UNCHANGED <<snap, pub>>
  BY <1>1 DEF CommandsServed
<1>2. CASE Receive
  <2>1. Head(outbound) \in Outbound
    BY <1>0, <1>2, Queues DEF Receive
  <2>2. StartsFirst(Todo(Head(outbound)))
    BY <2>1, TodoType DEF Shapes
  <2>3. snap' = snap /\ pub.todo = <<>> /\ pub'.todo = Todo(Head(outbound))
    BY <1>2 DEF Receive, Shapes, Publishers
  <2> QED
    BY <2>2, <2>3 DEF CommandsServed
<1>3. CASE Skip
  <2>1. snap' = <<>> /\ pub'.todo = Tail(pub.todo) /\ pub.todo # <<>>
    BY <1>3 DEF Skip, Shapes, Publishers
  <2> QED
    BY <1>0, <2>1, RestOfCommands DEF CommandsServed
<1>4. CASE LoadCommand
  BY <1>4 DEF LoadCommand, CommandsServed
<1>5. CASE SaveCommand \/ KillCommand
  <2>1. snap' = <<>> /\ snap # <<>> /\ pub'.todo = Tail(pub.todo)
    BY <1>5 DEF SaveCommand, KillCommand, After, Shapes, Publishers
  <2> QED
    BY <1>0, <2>1, RestOfCommands DEF CommandsServed
<1>6. Next => \/ Receive \/ Skip \/ LoadCommand \/ SaveCommand \/ KillCommand
              \/ UNCHANGED <<snap, pub>>
  <2>1. Bridge => \/ Receive \/ Skip \/ LoadCommand \/ SaveCommand \/ UNCHANGED <<snap, pub>>
    BY Zenon DEF Bridge, LoadClaim, SaveClaim
  <2>2. \A m : Post(m) \/ Enter(m) => UNCHANGED <<snap, pub>>
    BY Zenon DEF Post, Enter, bridge
  <2>3. Escape \/ Loop \/ RequestInterrupt \/ Route \/ Session \/ RecordInput \/ Speak \/ EndTurn
          => UNCHANGED <<snap, pub>>
    BY Zenon DEF Escape, Loop, SubmitRemote, SubmitTurn, SubmitInterrupt, RequestInterrupt, Route,
      Session, HandleInput, HandleInterrupt, RecordInput, Speak, EndTurn, bridge
  <2>4. Widget => UNCHANGED <<snap, pub>>
    BY Zenon DEF Widget, HandleStarted, HandleUserMessage, HandleAgentMessage, HandleEnded,
      HandleInterrupted
  <2> QED
    BY <2>1, <2>2, <2>3, <2>4 DEF Next
<1> QED
  BY <1>1, <1>2, <1>3, <1>4, <1>5, <1>6

-----------------------------------------------------------------------------
(* Each reply of the agent opens at most two in the store.                  *)

LEMMA OpenedParts ==
    ASSUME Shapes
    PROVE  /\ pub.started \in Nat /\ Starting(pub.todo) \in {0, 1}
           /\ Count(outbound, Signals) \in Nat /\ Count(chan, Signals) \in Nat
           /\ Count(notes, Signals) \in Nat /\ core.spoken \in Nat
           /\ core.speaking \in BOOLEAN
  BY CountNat DEF Shapes, Publishers, Sessions, Starting

(* What is left alone where only the queues that bring no words change.     *)
LEMMA OpenedAside ==
    ASSUME RepliesBound, pub'.started = pub.started, pub'.todo = pub.todo, outbound' = outbound,
           chan' = chan, notes' = notes, core'.speaking = core.speaking,
           core'.spoken = core.spoken
    PROVE  RepliesBound'
  BY DEF RepliesBound, Opened

(* A step that moves words and brings none.                                 *)
LEMMA OpenedMoves ==
    ASSUME RepliesBound, Shapes, Opened' \in Nat, Opened' <= Opened, core'.spoken = core.spoken
    PROVE  RepliesBound'
<1>1. Opened \in Nat /\ core.spoken \in Nat
  BY OpenedParts DEF Opened
<1>2. Opened' <= 2 * core'.spoken
  <2> HIDE DEF Opened
  <2> QED
    BY <1>1 DEF RepliesBound
<1> QED
  BY <1>2 DEF RepliesBound

LEMMA PublishedSignals ==
    ASSUME NEW n \in Notes
    PROVE  Count(Published(n), Signals) = IF n \in Signals THEN 1 ELSE 0
<1>1. n \in Signals <=> n[1] \in {"delta", "final"}
  BY NoteKinds DEF Signals
<1>2. CASE n[1] = "started"
  BY <1>1, <1>2, CountOne DEF Published, Signals
<1>3. CASE n[1] = "user"
  BY <1>1, <1>3, CountOne DEF Published, Signals
<1>4. CASE n[1] = "delta"
  BY <1>1, <1>4, CountOne DEF Published, Signals
<1>5. CASE n[1] = "final"
  BY <1>1, <1>5, CountOne DEF Published, Signals
<1>6. CASE n[1] \in {"ended", "interrupted"}
  <2>1. {i \in DOMAIN << <<"record">>, <<"complete">> >> :
            << <<"record">>, <<"complete">> >>[i] \in Signals} = {}
    BY DEF Signals
  <2>2. Count(<< <<"record">>, <<"complete">> >>, Signals) = 0
    BY <2>1, FS_EmptySet DEF Count
  <2> QED
    BY <1>1, <1>6, <2>2 DEF Published
<1> QED
  BY <1>2, <1>3, <1>4, <1>5, <1>6, NoteKinds

LEMMA HandleSignals ==
    ASSUME Shapes, NEW kind, Handle(kind)
    PROVE  Count(outbound', Signals) + Count(chan', Signals)
             = Count(outbound, Signals) + Count(chan, Signals)
<1> DEFINE n == Head(chan)
           k == IF n \in Signals THEN 1 ELSE 0
<1>1. /\ outbound \in Seq(Outbound) /\ chan \in Seq(Notes) /\ chan # <<>> /\ n \in Notes
      /\ outbound' = outbound \o Published(n) /\ chan' = Tail(chan)
      /\ Published(n) \in Seq(Outbound)
  BY HandleShapes DEF Handle, Shapes
<1>2. Count(Published(n), Signals) = k
  BY <1>1, PublishedSignals
<1>3. Count(outbound', Signals) = Count(outbound, Signals) + Count(Published(n), Signals)
  BY <1>1, CountConcat
<1>4. Count(chan, Signals) = Count(chan', Signals) + k
  BY <1>1, CountTail
<1>5. Count(outbound, Signals) \in Nat /\ Count(chan', Signals) \in Nat /\ k \in Nat
  BY <1>1, HandleShapes, CountNat DEF Handle
<1> HIDE DEF k
<1> QED
  BY <1>2, <1>3, <1>4, <1>5

LEMMA NextRepliesBound == ASSUME TypeInv, Next PROVE RepliesBound'
<1> USE DEF TypeInv
<1>0. /\ pub.started \in Nat /\ Starting(pub.todo) \in {0, 1}
      /\ Count(outbound, Signals) \in Nat /\ Count(chan, Signals) \in Nat
      /\ Count(notes, Signals) \in Nat /\ core.spoken \in Nat /\ core.speaking \in BOOLEAN
  BY OpenedParts
<1>a. /\ outbound \in Seq(Outbound) /\ chan \in Seq(Notes) /\ notes \in Seq(Notes)
      /\ pub.todo \in Seq(Commands) /\ core.pending \in Seq(Prompts) /\ core.turn \in Nat
  BY DEF Shapes, Publishers, Sessions
<1>1. CASE \/ \E m \in Remote : Post(m)
           \/ \E p \in Local : Enter(p)
           \/ LoadClaim \/ LoadCommand \/ Escape \/ SubmitRemote \/ SubmitInterrupt
  <2>1. UNCHANGED <<pub, outbound, chan, notes, core>>
    BY <1>1, Zenon DEF Post, Enter, LoadClaim, LoadCommand, Escape, SubmitRemote,
      SubmitInterrupt, bridge
  <2> QED
    BY <2>1, OpenedAside
<1>2. CASE SubmitTurn \/ RequestInterrupt
  <2>1. /\ UNCHANGED <<pub, outbound, chan, notes>>
        /\ core'.speaking = core.speaking /\ core'.spoken = core.spoken
    BY <1>2 DEF SubmitTurn, RequestInterrupt, bridge, Shapes, Sessions
  <2> QED
    BY <2>1, OpenedAside
<1>3. CASE SaveClaim
  <2>1. PICK m \in Remote : outbound' \in {outbound, Append(outbound, <<"claimed", m>>)}
    BY <1>3 DEF SaveClaim, FirstInLine
  <2>2. <<"claimed", m>> \in Outbound /\ <<"claimed", m>> \notin Signals
    BY OutboundKinds DEF Signals
  <2>3. Count(Append(outbound, <<"claimed", m>>), Signals) = Count(outbound, Signals) + 0
    BY <1>a, <2>2, CountAppend
  <2>4. Count(outbound', Signals) = Count(outbound, Signals)
    <3>1. CASE outbound' = outbound
      BY <3>1
    <3>2. CASE outbound' = Append(outbound, <<"claimed", m>>)
      BY <1>0, <2>3, <3>2
    <3> QED
      BY <2>1, <3>1, <3>2
  <2>5. UNCHANGED <<pub, chan, notes, core>>
    BY <1>3 DEF SaveClaim
  <2> QED
    BY <2>4, <2>5 DEF RepliesBound, Opened
<1>4. CASE Receive
  <2> DEFINE e == Head(outbound)
             k == IF e \in Signals THEN 1 ELSE 0
  <2>1. /\ e \in Outbound /\ outbound # <<>> /\ outbound' = Tail(outbound) /\ pub.todo = <<>>
        /\ pub'.todo = Todo(e) /\ pub'.started = pub.started
        /\ UNCHANGED <<chan, notes, core>>
    BY <1>4, <1>a, Queues DEF Receive, Shapes, Publishers
  <2>2. Count(outbound, Signals) = Count(outbound', Signals) + k
    BY <1>a, <2>1, CountTail
  <2>3. Starting(pub.todo) = 0 /\ Starting(pub'.todo) \in {0, 1}
        /\ (Starting(pub'.todo) = 1 => k = 1)
    <3>1. Starting(Todo(e)) = 1 => e \in Signals
      BY <2>1, TodoType DEF Shapes
    <3> QED
      BY <2>1, <3>1 DEF Starting
  <2>4. Count(outbound', Signals) \in Nat /\ k \in {0, 1}
    BY <1>a, <2>1, Queues, CountNat
  <2> HIDE DEF k, e
  <2>5. Opened' \in Nat /\ Opened' <= Opened
    <3>1. pub'.started = pub.started /\ UNCHANGED <<chan, notes, core>>
      BY <2>1
    <3> QED
      BY <1>0, <2>2, <2>3, <2>4, <3>1 DEF Opened
  <2> QED
    BY <2>1, <2>5, OpenedMoves
<1>5. CASE Skip
  <2>1. /\ pub.todo # <<>> /\ pub'.todo = Tail(pub.todo) /\ pub'.started = pub.started
        /\ UNCHANGED <<outbound, chan, notes, core>>
    BY <1>5 DEF Skip, Shapes, Publishers
  <2>2. Starting(pub'.todo) = 0
    BY <1>a, <2>1, RestOfCommands DEF CommandsServed
  <2> QED
    BY <1>0, <2>1, <2>2 DEF RepliesBound, Opened
<1>6. CASE SaveCommand \/ KillCommand
  <2> DEFINE c == Head(pub.todo)
  <2>1. pub.todo # <<>>
    BY <1>6 DEF SaveCommand, KillCommand, CommandsServed
  <2>2. /\ pub'.todo = Tail(pub.todo)
        /\ pub'.started = IF c[1] = "start" THEN pub.started + 1 ELSE pub.started
        /\ UNCHANGED <<outbound, chan, notes, core>>
    BY <1>6 DEF SaveCommand, KillCommand, After, Shapes, Publishers
  <2>3. c[1] = "start" <=> c = <<"start">>
    BY <1>a, <2>1, Queues, CommandKinds
  <2>4. /\ Starting(pub'.todo) = 0
        /\ Starting(pub.todo) = IF c = <<"start">> THEN 1 ELSE 0
    BY <1>a, <2>1, <2>2, RestOfCommands DEF CommandsServed
  <2> HIDE DEF c
  <2> QED
    BY <1>0, <2>2, <2>3, <2>4 DEF RepliesBound, Opened
<1>7. CASE Route
  <2> DEFINE e == Head(notes)
             k == IF e \in Signals THEN 1 ELSE 0
  <2>1. /\ e \in Notes /\ notes # <<>> /\ notes' = Tail(notes) /\ chan' = Append(chan, e)
        /\ UNCHANGED <<pub, outbound, core>>
    BY <1>7, <1>a, Queues DEF Route, bridge
  <2>2. Count(notes, Signals) = Count(notes', Signals) + k
    BY <1>a, <2>1, CountTail
  <2>3. Count(chan', Signals) = Count(chan, Signals) + k
    BY <1>a, <2>1, CountAppend
  <2>4. Count(notes', Signals) \in Nat /\ k \in {0, 1}
    BY <1>a, <2>1, Queues, CountNat
  <2> HIDE DEF k, e
  <2>5. Opened' \in Nat /\ Opened' <= Opened
    <3>1. UNCHANGED <<pub, outbound, core>>
      BY <2>1
    <3> QED
      BY <1>0, <2>2, <2>3, <2>4, <3>1 DEF Opened
  <2> QED
    BY <2>1, <2>5, OpenedMoves
<1>8. CASE Widget
  <2>1. PICK kind : Handle(kind) /\ UNCHANGED <<pub, notes, core>>
    BY <1>8, Zenon DEF Widget, HandleStarted, HandleUserMessage, HandleAgentMessage, HandleEnded,
      HandleInterrupted
  <2>2. Count(outbound', Signals) + Count(chan', Signals)
          = Count(outbound, Signals) + Count(chan, Signals)
    BY <2>1, HandleSignals
  <2>3. Count(outbound', Signals) \in Nat /\ Count(chan', Signals) \in Nat
    BY <2>1, HandleShapes, CountNat
  <2> QED
    BY <1>0, <2>1, <2>2, <2>3 DEF RepliesBound, Opened
<1>9. CASE Session
  <2>1. PICK e \in Notes \ Signals : notes' \in {notes, Append(notes, e)}
    <3>1. \A x \in Nat : {<<"started", x>>, <<"interrupted", x>>} \subseteq Notes \ Signals
      BY NoteKinds DEF Signals
    <3>2. core.last + 1 \in Nat
      BY DEF Shapes, Sessions
    <3>3. /\ <<"started", core.last + 1>> \in Notes \ Signals
          /\ <<"interrupted", core.turn>> \in Notes \ Signals
      BY <1>a, <3>1, <3>2
    <3>4. notes' \in {notes, Append(notes, <<"started", core.last + 1>>),
                     Append(notes, <<"interrupted", core.turn>>)}
      BY <1>9 DEF Session, HandleInput, HandleInterrupt
    <3> QED
      BY <3>3, <3>4, Zenon
  <2>2. /\ UNCHANGED <<pub, outbound, chan>> /\ core'.spoken = core.spoken
        /\ core'.speaking = core.speaking \/ core'.speaking = FALSE
    BY <1>9 DEF Session, HandleInput, HandleInterrupt, bridge, Shapes, Sessions
  <2>3. Count(Append(notes, e), Signals) = Count(notes, Signals) + 0
    BY <1>a, <2>1, CountAppend
  <2>4. Count(notes', Signals) = Count(notes, Signals)
    <3>1. CASE notes' = notes
      BY <3>1
    <3>2. CASE notes' = Append(notes, e)
      BY <1>0, <2>3, <3>2
    <3> QED
      BY <2>1, <3>1, <3>2
  <2>5. Opened' \in Nat /\ Opened' <= Opened
    BY <1>0, <2>2, <2>4 DEF Opened
  <2> QED
    BY <2>2, <2>5, OpenedMoves
<1>10. CASE RecordInput
  <2> DEFINE e == <<"user", Head(core.pending)>>
  <2>1. /\ notes' = Append(notes, e) /\ UNCHANGED <<pub, outbound, chan>>
        /\ core'.spoken = core.spoken /\ core'.speaking = core.speaking
    BY <1>10 DEF RecordInput, bridge, Shapes, Sessions
  <2>2. e \in Notes /\ e \notin Signals
    BY <1>10, <1>a, Queues, NoteKinds DEF RecordInput, Signals
  <2>3. Count(notes', Signals) = Count(notes, Signals) + 0
    BY <1>a, <2>1, <2>2, CountAppend
  <2> QED
    BY <1>0, <2>1, <2>3 DEF RepliesBound, Opened
<1>11. CASE Speak
  <2>1. PICK e \in Signals : notes' = Append(notes, e)
    BY <1>11 DEF Speak, Signals
  <2>2. Count(notes', Signals) = Count(notes, Signals) + 1
    BY <1>a, <2>1, CountAppend, NoteKinds, SMTT(30) DEF Signals
  <2>3. cast.replies \in Nat /\ cast.replies <= MaxReplies /\ MaxReplies \in Nat
    BY ChatAssumption DEF Shapes, Cast
  <2>4. UNCHANGED <<pub, outbound, chan>>
    BY <1>11 DEF Speak, bridge
  <2>5. CASE /\ ~core.speaking /\ core.spoken < cast.replies
             /\ core'.speaking \in BOOLEAN /\ core'.spoken = core.spoken + 1
    BY <1>0, <2>2, <2>3, <2>4, <2>5 DEF RepliesBound, Opened
  <2>6. CASE core.speaking /\ core'.speaking = FALSE /\ core'.spoken = core.spoken
    BY <1>0, <2>2, <2>3, <2>4, <2>6 DEF RepliesBound, Opened
  <2> QED
    BY <1>0, <1>11, <2>5, <2>6 DEF Speak, Shapes, Sessions
<1>12. CASE EndTurn
  <2> DEFINE A == Announced(core.pending)
             B == << <<"ended", core.turn>> >>
  <2>1. /\ notes' = (notes \o A) \o B /\ UNCHANGED <<pub, outbound, chan>>
        /\ core'.spoken = core.spoken /\ core'.speaking = FALSE
    BY <1>12 DEF EndTurn, Announced, bridge, Shapes, Sessions
  <2>2. A \in Seq(Notes) /\ B \in Seq(Notes)
    BY <1>a, AnnouncedType, NoteKinds, Queues
  <2>3. Count(A, Signals) = 0
    <3>1. {i \in DOMAIN A : A[i] \in Signals} = {}
      <4>1. \A i \in DOMAIN A : A[i] = <<"user", core.pending[i]>>
        BY <1>a, Zenon DEF Announced
      <4> HIDE DEF A
      <4> QED
        BY <4>1 DEF Signals
    <3> QED
      BY <3>1, FS_EmptySet DEF Count
  <2>4. Count(B, Signals) = 0
    BY CountOne DEF Signals
  <2> HIDE DEF A, B
  <2>5. notes \o A \in Seq(Notes) /\ Count(notes \o A, Signals) = Count(notes, Signals) + 0
    BY <1>a, <2>2, <2>3, Queues, CountConcat
  <2>6. Count(notes', Signals) = Count(notes \o A, Signals) + 0
    BY <2>1, <2>2, <2>4, <2>5, CountConcat, Zenon
  <2>7. Opened' \in Nat /\ Opened' <= Opened
    BY <1>0, <2>1, <2>5, <2>6, SMTT(30) DEF Opened
  <2> QED
    BY <2>1, <2>7, OpenedMoves
<1> QED
  BY <1>1, <1>2, <1>3, <1>4, <1>5, <1>6, <1>7, <1>8, <1>9, <1>10, <1>11, <1>12
     DEF Next, Bridge, Loop

-----------------------------------------------------------------------------
(* The type invariant.                                                      *)

LEMMA InitTypes == Init => TypeInv
<1> SUFFICES ASSUME Init PROVE TypeInv
  OBVIOUS
<1>1. Shapes
  BY InitShapes
<1>2. TurnsBegun
  BY DEF Init, TurnsBegun, Begun
<1>3. CommandsServed
  BY DEF Init, CommandsServed, StartsFirst
<1>4. RepliesBound
  <2>1. Count(<<>>, Signals) = 0
    BY CountOne
  <2>2. /\ outbound = <<>> /\ chan = <<>> /\ notes = <<>> /\ pub.started = 0 /\ pub.todo = <<>>
        /\ core.spoken = 0 /\ core.speaking = FALSE /\ MaxReplies \in Nat
    BY ChatAssumption DEF Init
  <2>3. Starting(<<>>) = 0
    BY DEF Starting
  <2> QED
    BY <2>1, <2>2, <2>3 DEF RepliesBound, Opened
<1> QED
  BY <1>1, <1>2, <1>3, <1>4 DEF TypeInv

LEMMA NextShapes == ASSUME TypeInv, Next PROVE Shapes'
<1> USE DEF TypeInv
<1>1. ASSUME snap # <<>> PROVE pub.todo # <<>>
  BY <1>1 DEF CommandsServed
<1>2. ASSUME pub.todo # <<>>, Head(pub.todo) = <<"start">> PROVE pub.started + 1 \in Replies
  <2>1. Starting(pub.todo) = 1
    BY <1>2, RestOfCommands DEF CommandsServed, Shapes, Publishers
  <2>2. pub.started + 1 <= Opened /\ Opened \in Nat /\ pub.started \in Nat /\ core.spoken \in Nat
    BY <2>1, OpenedParts DEF Opened
  <2>3. MaxReplies \in Nat /\ core.spoken <= MaxReplies /\ Opened <= 2 * core.spoken
    BY ChatAssumption DEF RepliesBound
  <2> HIDE DEF Opened
  <2> QED
    BY <2>2, <2>3 DEF Replies
<1>3. CASE Bridge
  <2>1. CASE SaveCommand
    BY <1>1, <1>2, <2>1, SaveCommandShapes DEF SaveCommand
  <2> QED
    BY <1>3, <2>1, LoadClaimShapes, SaveClaimShapes, ReceiveShapes, SkipShapes,
       LoadCommandShapes DEF Bridge
<1>4. CASE KillCommand
  BY <1>1, <1>2, <1>4, KillCommandShapes DEF KillCommand
<1>5. CASE (\E m \in Remote : Post(m)) \/ (\E p \in Local : Enter(p)) \/ Escape
  BY <1>5, PostShapes, EnterShapes, EscapeShapes
<1>6. CASE Loop \/ RequestInterrupt \/ Route
  BY <1>6, SubmitRemoteShapes, SubmitTurnShapes, SubmitInterruptShapes, RequestInterruptShapes,
     RouteShapes DEF Loop
<1>7. CASE Widget
  BY <1>7, HandleStartedShapes, HandleUserMessageShapes, HandleAgentMessageShapes,
     HandleEndedShapes, HandleInterruptedShapes DEF Widget
<1>8. CASE Session \/ RecordInput \/ Speak \/ EndTurn
  BY <1>8, HandleInputShapes, HandleInterruptShapes, RecordInputShapes, SpeakShapes,
     EndTurnShapes DEF Session
<1> QED
  BY <1>3, <1>4, <1>5, <1>6, <1>7, <1>8 DEF Next

LEMMA TypesStep == TypeInv /\ [Next]_vars => TypeInv'
<1>1. CASE Next
  BY <1>1, NextShapes, NextTurnsBegun, NextCommandsServed, NextRepliesBound DEF TypeInv
<1>2. CASE UNCHANGED vars
  BY <1>2 DEF vars, TypeInv, Shapes, TurnsBegun, CommandsServed, RepliesBound, Opened
<1> QED
  BY <1>1, <1>2

(* TypeInv holds of every behaviour.                                        *)
LEMMA BridgeTypes == Spec => []TypeInv
  BY InitTypes, TypesStep, PTL DEF Spec

(* ChatTypes: whatever the messages, claims and interrupts, the store, the  *)
(* bridge and the queues keep their types, the publisher never opens more   *)
(* replies than the store has places for, and nobody knows of a turn that   *)
(* the session has not begun.                                               *)
THEOREM ChatTypes == Spec => []TypeOK
<1>1. TypeInv => TypeOK
  BY DEF TypeInv, Shapes, TurnsBegun, TypeOK, Store, Publishers, Widgets, Sessions
<1> QED
  BY <1>1, BridgeTypes, PTL

-----------------------------------------------------------------------------
(* What is completed was recorded.                                          *)

Users(t) == {"user"} \X Saying(t)

LEMMA UsersKinds ==
    ASSUME NEW t
    PROVE  /\ \A e \in Notes \cup Outbound : e \in Users(t) => e[1] = "user"
           /\ \A p \in Prompts : <<"user", p>> \in Users(t) <=> p \in Saying(t)
  BY DEF Users

LEMMA PublishedUsers ==
    ASSUME NEW t, NEW n \in Notes
    PROVE  Count(Published(n), Users(t)) = IF n \in Users(t) THEN 1 ELSE 0
<1>1. n \in Users(t) => n[1] = "user"
  BY UsersKinds
<1>2. CASE n[1] = "user"
  <2>1. Published(n) = <<n>>
    BY <1>2, NoteKinds DEF Published
  <2> QED
    BY <2>1, CountOne
<1>3. CASE n[1] # "user"
  <2>1. \A i \in DOMAIN Published(n) : Published(n)[i] \notin Users(t)
    BY <1>3 DEF Published, Users
  <2>2. {i \in DOMAIN Published(n) : Published(n)[i] \in Users(t)} = {}
    BY <2>1
  <2> QED
    BY <1>1, <1>3, <2>2, FS_EmptySet DEF Count
<1> QED
  BY <1>2, <1>3

LEMMA HandleUsers ==
    ASSUME Shapes, NEW t, NEW kind, Handle(kind)
    PROVE  Count(outbound', Users(t)) + Count(chan', Users(t))
             = Count(outbound, Users(t)) + Count(chan, Users(t))
<1> DEFINE n == Head(chan)
           k == IF n \in Users(t) THEN 1 ELSE 0
<1>1. /\ outbound \in Seq(Outbound) /\ chan \in Seq(Notes) /\ chan # <<>> /\ n \in Notes
      /\ outbound' = outbound \o Published(n) /\ chan' = Tail(chan)
      /\ Published(n) \in Seq(Outbound)
  BY HandleShapes DEF Handle, Shapes
<1>2. Count(Published(n), Users(t)) = k
  BY <1>1, PublishedUsers
<1>3. Count(outbound', Users(t)) = Count(outbound, Users(t)) + Count(Published(n), Users(t))
  BY <1>1, CountConcat
<1>4. Count(chan, Users(t)) = Count(chan', Users(t)) + k
  BY <1>1, CountTail
<1>5. Count(outbound, Users(t)) \in Nat /\ Count(chan', Users(t)) \in Nat /\ k \in Nat
  BY <1>1, HandleShapes, CountNat DEF Handle
<1> HIDE DEF k
<1> QED
  BY <1>2, <1>3, <1>4, <1>5

LEMMA AnnouncedUsers ==
    ASSUME NEW t, NEW q \in Seq(Prompts)
    PROVE  Count(Announced(q), Users(t)) = Count(q, Saying(t))
<1>1. DOMAIN Announced(q) = DOMAIN q /\ \A i \in DOMAIN q : Announced(q)[i] = <<"user", q[i]>>
  BY Zenon DEF Announced
<1>2. \A i \in DOMAIN q : q[i] \in Prompts
  OBVIOUS
<1>3. {i \in DOMAIN Announced(q) : Announced(q)[i] \in Users(t)} = {i \in DOMAIN q : q[i] \in Saying(t)}
  BY <1>1, <1>2, UsersKinds
<1> QED
  BY <1>3 DEF Count

(* Messages that are completing are finitely many.                          *)
LEMMA FewCompleting ==
    ASSUME NEW t
    PROVE  IsFiniteSet(Completing(t)) /\ Cardinality(Completing(t)) \in Nat
<1>1. Completing(t) \in SUBSET Remote /\ IsFiniteSet(Remote)
  BY ChatAssumption DEF Completing
<1> QED
  BY <1>1, FS_Subset, FS_CardinalityType

LEMMA SmallerCompleting ==
    ASSUME NEW t, Completing(t)' \subseteq Completing(t)
    PROVE  /\ Cardinality(Completing(t)') <= Cardinality(Completing(t))
           /\ Cardinality(Completing(t)') \in Nat
<1>1. IsFiniteSet(Completing(t))
  BY FewCompleting
<1> QED
  BY <1>1, FS_Subset, FS_CardinalityType

(* What stays in the commands of an event, and what a command completes.    *)
LEMMA ToCompleteTail ==
    ASSUME NEW todo \in Seq(Commands), todo # <<>>, NEW m
    PROVE  /\ ToComplete(Tail(todo), m) => ToComplete(todo, m)
           /\ Head(todo) = <<"complete", m>> => ToComplete(todo, m)
<1>1. /\ Len(todo) \in Nat /\ DOMAIN todo = 1 .. Len(todo) /\ Head(todo) = todo[1]
      /\ DOMAIN Tail(todo) = 1 .. Len(todo) - 1 /\ 1 \in 1 .. Len(todo)
      /\ \A i \in 1 .. Len(todo) - 1 : Tail(todo)[i] = todo[i + 1] /\ i + 1 \in 1 .. Len(todo)
  OBVIOUS
<1> QED
  BY <1>1 DEF ToComplete

LEMMA ChangedCompletes ==
    ASSUME NEW s \in Store, NEW c \in Commands, NEW m \in Remote,
           Changed(s, c).msg[m] = "completed"
    PROVE  s.msg[m] = "completed" \/ c = <<"complete", m>>
<1>1. CASE c[1] = "complete"
  <2>1. Changed(s, c) = [s EXCEPT !.msg[c[2]] = "completed"] /\ c = <<"complete", c[2]>>
    BY <1>1, CommandKinds DEF Changed
  <2>2. c[2] # m => Changed(s, c).msg[m] = s.msg[m]
    BY <2>1 DEF Store
  <2> QED
    BY <2>1, <2>2
<1>2. CASE c[1] # "complete"
  <2>1. Changed(s, c).msg = s.msg
    BY <1>2, CommandKinds DEF Changed, Store
  <2> QED
    BY <2>1
<1> QED
  BY <1>1, <1>2

Balanced(t) == Cardinality(Completing(t)) + Noticed(t) <= Count(hist.recorded, Saying(t))

LEMMA BalancedParts ==
    ASSUME Shapes, NEW t
    PROVE  /\ Count(outbound, Users(t)) \in Nat /\ Count(chan, Users(t)) \in Nat
           /\ Count(notes, Users(t)) \in Nat /\ Count(hist.recorded, Saying(t)) \in Nat
           /\ Cardinality(Completing(t)) \in Nat
           /\ Noticed(t) = Count(outbound, Users(t)) + Count(chan, Users(t))
                             + Count(notes, Users(t))
<1>1. /\ outbound \in Seq(Outbound) /\ chan \in Seq(Notes) /\ notes \in Seq(Notes)
      /\ hist.recorded \in Seq(Prompts)
  BY DEF Shapes, Histories
<1> QED
  BY <1>1, CountNat, FewCompleting DEF Noticed, Users

(* A step that completes nothing new and announces nothing.                 *)
LEMMA BalancedMoves ==
    ASSUME Shapes, NEW t, Balanced(t), Completing(t)' \subseteq Completing(t),
           Count(outbound', Users(t)) \in Nat, Count(chan', Users(t)) \in Nat,
           Count(notes', Users(t)) \in Nat,
           Count(outbound', Users(t)) + Count(chan', Users(t)) + Count(notes', Users(t))
             <= Count(outbound, Users(t)) + Count(chan, Users(t)) + Count(notes, Users(t)),
           hist'.recorded = hist.recorded
    PROVE  Balanced(t)'
<1>1. /\ Cardinality(Completing(t)') <= Cardinality(Completing(t))
      /\ Cardinality(Completing(t)') \in Nat
  BY SmallerCompleting
<1>2. Noticed(t)' = Count(outbound', Users(t)) + Count(chan', Users(t)) + Count(notes', Users(t))
  BY DEF Noticed, Users
<1>3. Cardinality(Completing(t))' = Cardinality(Completing(t)')
  OBVIOUS
<1>4. Count(hist.recorded, Saying(t))' = Count(hist.recorded, Saying(t))
  BY DEF Count
<1> QED
  BY <1>1, <1>2, <1>3, <1>4, BalancedParts DEF Balanced

(* Where the store and the publisher's commands are left alone.             *)
LEMMA CompletingAside ==
    ASSUME NEW t, UNCHANGED <<store, poll, snap, pub>>
    PROVE  Completing(t)' = Completing(t)
  BY DEF Completing, DoneIn, ToComplete

(* The steps on the store complete what they have promised.                 *)
LEMMA StoreBalanced ==
    ASSUME Shapes, CommandsServed, NEW t, Balanced(t),
           \/ \E m \in Remote : Post(m)
           \/ LoadClaim \/ SaveClaim \/ Skip \/ LoadCommand \/ SaveCommand \/ KillCommand
    PROVE  Balanced(t)'
<1>0. /\ store \in Store /\ poll \in Loaded /\ snap \in Loaded /\ pub.todo \in Seq(Commands)
      /\ outbound \in Seq(Outbound) /\ chan \in Seq(Notes) /\ notes \in Seq(Notes)
  BY DEF Shapes, Publishers
<1>1. Completing(t)' \subseteq Completing(t)
  <2> SUFFICES ASSUME NEW m \in Remote, Text[m] = t,
                      \/ store'.msg[m] = "completed" \/ DoneIn(poll', m) \/ DoneIn(snap', m)
                      \/ ToComplete(pub'.todo, m)
               PROVE  \/ store.msg[m] = "completed" \/ DoneIn(poll, m) \/ DoneIn(snap, m)
                      \/ ToComplete(pub.todo, m)
    BY DEF Completing
  <2>1. CASE \E n \in Remote : Post(n)
    <3>1. store'.msg[m] = "completed" => store.msg[m] = "completed"
      BY <1>0, <2>1 DEF Post, Store
    <3>2. UNCHANGED <<poll, snap, pub>>
      BY <2>1 DEF Post
    <3> QED
      BY <3>1, <3>2
  <2>2. CASE LoadClaim
    <3>1. poll' = <<store>> /\ UNCHANGED <<store, snap, pub>>
      BY <2>2, Zenon DEF LoadClaim
    <3> QED
      BY <3>1 DEF DoneIn
  <2>3. CASE SaveClaim
    <3>1. PICK n : store' = [poll[1] EXCEPT !.msg[n] = "claimed"]
      BY <2>3 DEF SaveClaim
    <3>2. poll # <<>> /\ poll' = <<>> /\ UNCHANGED <<snap, pub>>
      BY <2>3 DEF SaveClaim
    <3>3. poll[1] \in Store
      BY <1>0, <3>2, LoadedStore
    <3>4. store'.msg[m] = "completed" => poll[1].msg[m] = "completed"
      BY <3>1, <3>3 DEF Store
    <3> QED
      BY <3>2, <3>4 DEF DoneIn
  <2>4. CASE Skip
    <3>1. pub.todo # <<>> /\ pub'.todo = Tail(pub.todo) /\ UNCHANGED <<store, poll, snap>>
      BY <2>4 DEF Skip, Shapes, Publishers
    <3> QED
      BY <1>0, <3>1, ToCompleteTail
  <2>5. CASE LoadCommand
    <3>1. snap' = <<store>> /\ UNCHANGED <<store, poll, pub>>
      BY <2>5 DEF LoadCommand
    <3> QED
      BY <3>1 DEF DoneIn
  <2>6. CASE SaveCommand \/ KillCommand
    <3> DEFINE c == Head(pub.todo)
    <3>1. snap # <<>> /\ pub.todo # <<>> /\ snap' = <<>> /\ poll' = poll
          /\ pub'.todo = Tail(pub.todo)
      BY <2>6 DEF SaveCommand, KillCommand, CommandsServed, After, Shapes, Publishers
    <3>2. store' \in {store, Changed(snap[1], c)}
      BY <2>6 DEF SaveCommand, KillCommand
    <3>3. snap[1] \in Store /\ c \in Commands
      BY <1>0, <3>1, LoadedStore, Queues
    <3>4. store'.msg[m] = "completed" =>
            store.msg[m] = "completed" \/ snap[1].msg[m] = "completed" \/ c = <<"complete", m>>
      BY <3>2, <3>3, ChangedCompletes
    <3>5. /\ ToComplete(pub'.todo, m) => ToComplete(pub.todo, m)
          /\ c = <<"complete", m>> => ToComplete(pub.todo, m)
      BY <1>0, <3>1, ToCompleteTail
    <3>6. ~DoneIn(snap', m) /\ (DoneIn(poll', m) => DoneIn(poll, m))
      BY <3>1 DEF DoneIn
    <3>7. snap[1].msg[m] = "completed" => DoneIn(snap, m)
      BY <3>1 DEF DoneIn
    <3> QED
      BY <3>4, <3>5, <3>6, <3>7
  <2> QED
    BY <2>1, <2>2, <2>3, <2>4, <2>5, <2>6
<1>2. chan' = chan /\ notes' = notes
  BY Zenon DEF Post, LoadClaim, SaveClaim, Skip, LoadCommand, SaveCommand, KillCommand
<1>3. hist'.recorded = hist.recorded
  <2>1. CASE LoadClaim \/ Skip \/ LoadCommand
    BY <2>1, Zenon DEF LoadClaim, Skip, LoadCommand
  <2>2. CASE (\E m \in Remote : Post(m)) \/ SaveCommand \/ KillCommand
    BY <2>2 DEF Post, SaveCommand, KillCommand, Shapes, Histories
  <2>3. CASE SaveClaim
    BY <2>3 DEF SaveClaim, Shapes, Histories
  <2> QED
    BY <2>1, <2>2, <2>3
<1>4. Count(outbound', Users(t)) = Count(outbound, Users(t))
  <2>1. CASE SaveClaim
    <3>1. PICK m \in FirstInLine(poll[1]), a \in BOOLEAN :
             outbound' = IF a THEN Append(outbound, <<"claimed", m>>) ELSE outbound
      BY <2>1 DEF SaveClaim
    <3>2. m \in Remote
      BY DEF FirstInLine
    <3>3. <<"claimed", m>> \in Outbound /\ <<"claimed", m>> \notin Users(t)
      BY <3>2, OutboundKinds DEF Users
    <3>4. Count(Append(outbound, <<"claimed", m>>), Users(t)) = Count(outbound, Users(t)) + 0
      BY <1>0, <3>3, CountAppend
    <3>5. Count(Append(outbound, <<"claimed", m>>), Users(t)) = Count(outbound, Users(t))
      BY <3>4, BalancedParts
    <3> QED
      BY <3>1, <3>5
  <2>2. CASE ~SaveClaim
    <3>1. outbound' = outbound
      BY <2>2, Zenon DEF Post, LoadClaim, Skip, LoadCommand, SaveCommand, KillCommand
    <3> QED
      BY <3>1
  <2> QED
    BY <2>1, <2>2
<1> QED
  BY <1>1, <1>2, <1>3, <1>4, BalancedParts, BalancedMoves

(* A notification that is used completes the message at the front.          *)
LEMMA ReceiveBalanced == ASSUME Shapes, NEW t, Balanced(t), Receive PROVE Balanced(t)'
<1> DEFINE e == Head(outbound)
           k == IF e \in Users(t) THEN 1 ELSE 0
<1>0. /\ outbound \in Seq(Outbound) /\ outbound # <<>> /\ e \in Outbound
      /\ outbound' = Tail(outbound) /\ outbound' \in Seq(Outbound)
      /\ pub.pending \in Seq(Remote) /\ pub.todo = <<>> /\ pub'.todo = Todo(e)
      /\ UNCHANGED <<store, poll, snap, chan, notes, hist>>
  BY Queues DEF Receive, Shapes, Publishers
<1>1. Count(outbound, Users(t)) = Count(outbound', Users(t)) + k
  BY <1>0, CountTail
<1>2. Count(outbound', Users(t)) \in Nat /\ k \in {0, 1}
  BY <1>0, CountNat
<1>3. \A m : ~ToComplete(<<>>, m)
  BY DEF ToComplete
<1>4. CASE e[1] = "user" /\ TakesFront(e[2]) /\ Text[Head(pub.pending)] = t
  <2> DEFINE h == Head(pub.pending)
  <2>1. h \in Remote /\ Joined(e[2]) = <<t>> /\ e[2] \in Prompts /\ e = <<"user", e[2]>>
    BY <1>0, <1>4, Queues, OutboundKinds DEF TakesFront
  <2>2. k = 1
    BY <2>1 DEF Users, Saying
  <2>3. Todo(e) = << <<"complete", h>> >>
    BY <1>4 DEF Todo
  <2>4. \A m : ToComplete(Todo(e), m) => m = h
    BY <2>3 DEF ToComplete
  <2>5. Completing(t)' \subseteq Completing(t) \cup {h}
    BY <1>0, <2>4 DEF Completing, DoneIn
  <2>6. /\ IsFiniteSet(Completing(t) \cup {h})
        /\ Cardinality(Completing(t) \cup {h}) <= Cardinality(Completing(t)) + 1
        /\ Cardinality(Completing(t) \cup {h}) \in Nat
    <3>1. IsFiniteSet(Completing(t)) /\ Cardinality(Completing(t)) \in Nat
      BY FewCompleting
    <3>2. /\ IsFiniteSet(Completing(t) \cup {h})
          /\ Cardinality(Completing(t) \cup {h})
               = IF h \in Completing(t) THEN Cardinality(Completing(t))
                                       ELSE Cardinality(Completing(t)) + 1
      BY <3>1, FS_AddElement
    <3> QED
      BY <3>1, <3>2
  <2>7. Cardinality(Completing(t)') <= Cardinality(Completing(t) \cup {h})
        /\ Cardinality(Completing(t)') \in Nat
    BY <2>5, <2>6, FS_Subset, FS_CardinalityType
  <2>8. Noticed(t)' = Count(outbound', Users(t)) + Count(chan', Users(t)) + Count(notes', Users(t))
    BY DEF Noticed, Users
  <2>9. /\ Cardinality(Completing(t))' = Cardinality(Completing(t)')
        /\ Count(hist.recorded, Saying(t))' = Count(hist.recorded, Saying(t))
        /\ Count(chan', Users(t)) = Count(chan, Users(t))
        /\ Count(notes', Users(t)) = Count(notes, Users(t))
    BY <1>0 DEF Count
  <2> HIDE DEF k, e, h
  <2>10. Cardinality(Completing(t)') <= Cardinality(Completing(t)) + 1
    BY <2>6, <2>7, BalancedParts
  <2> QED
    BY <1>1, <1>2, <2>2, <2>7, <2>8, <2>9, <2>10, BalancedParts DEF Balanced
<1>5. CASE ~(e[1] = "user" /\ TakesFront(e[2]) /\ Text[Head(pub.pending)] = t)
  <2>1. \A m \in Remote : ToComplete(Todo(e), m) =>
           e[1] = "user" /\ TakesFront(e[2]) /\ m = Head(pub.pending)
    <3> SUFFICES ASSUME NEW m \in Remote, ToComplete(Todo(e), m)
                 PROVE  e[1] = "user" /\ TakesFront(e[2]) /\ m = Head(pub.pending)
      OBVIOUS
    <3>1. CASE e[1] = "user"
      BY <3>1 DEF ToComplete, Todo
    <3>2. CASE e[1] \in {"claimed", "record", "complete"}
      BY <3>2 DEF ToComplete, Todo
    <3>3. CASE e[1] \in {"delta", "final"}
      BY <3>3 DEF ToComplete, Todo
    <3> QED
      BY <1>0, <3>1, <3>2, <3>3, OutboundKinds
  <2>2. Completing(t)' \subseteq Completing(t)
    BY <1>0, <1>5, <2>1 DEF Completing, DoneIn
  <2>3. chan' = chan /\ notes' = notes /\ hist' = hist
    BY <1>0
  <2> HIDE DEF k, e
  <2>4. /\ Count(outbound', Users(t)) <= Count(outbound, Users(t))
        /\ Count(chan', Users(t)) = Count(chan, Users(t))
        /\ Count(notes', Users(t)) = Count(notes, Users(t))
    BY <1>1, <1>2, <2>3, BalancedParts
  <2> QED
    BY <1>2, <2>2, <2>3, <2>4, BalancedParts, BalancedMoves
<1> QED
  BY <1>4, <1>5

(* Notifications on their way.                                              *)
LEMMA RouteBalanced == ASSUME Shapes, NEW t, Balanced(t), Route PROVE Balanced(t)'
<1> DEFINE e == Head(notes)
           k == IF e \in Users(t) THEN 1 ELSE 0
<1>1. /\ notes \in Seq(Notes) /\ notes # <<>> /\ chan \in Seq(Notes) /\ e \in Notes
      /\ notes' = Tail(notes) /\ notes' \in Seq(Notes) /\ chan' = Append(chan, e)
      /\ UNCHANGED <<store, poll, snap, pub, outbound, hist>>
  BY Queues DEF Route, Shapes, bridge
<1>2. Count(notes, Users(t)) = Count(notes', Users(t)) + k
  BY <1>1, CountTail
<1>3. Count(chan', Users(t)) = Count(chan, Users(t)) + k
  BY <1>1, CountAppend
<1>4. Count(notes', Users(t)) \in Nat /\ k \in {0, 1}
  BY <1>1, CountNat
<1>5. Completing(t)' \subseteq Completing(t)
  BY <1>1, CompletingAside
<1>6. outbound' = outbound /\ hist' = hist
  BY <1>1
<1> HIDE DEF k, e
<1>7. /\ Count(outbound', Users(t)) \in Nat /\ Count(chan', Users(t)) \in Nat
      /\ Count(outbound', Users(t)) + Count(chan', Users(t)) + Count(notes', Users(t))
           <= Count(outbound, Users(t)) + Count(chan, Users(t)) + Count(notes, Users(t))
  BY <1>2, <1>3, <1>4, <1>6, BalancedParts
<1> QED
  BY <1>4, <1>5, <1>6, <1>7, BalancedMoves

LEMMA WidgetBalanced == ASSUME Shapes, NEW t, Balanced(t), Widget PROVE Balanced(t)'
<1>1. PICK kind : Handle(kind) /\ UNCHANGED <<store, poll, snap, pub, notes, hist>>
  BY Zenon DEF Widget, HandleStarted, HandleUserMessage, HandleAgentMessage, HandleEnded,
    HandleInterrupted
<1>2. Count(outbound', Users(t)) + Count(chan', Users(t))
        = Count(outbound, Users(t)) + Count(chan, Users(t))
  BY <1>1, HandleUsers
<1>3. Count(outbound', Users(t)) \in Nat /\ Count(chan', Users(t)) \in Nat
  BY <1>1, HandleShapes, CountNat
<1>4. Completing(t)' \subseteq Completing(t)
  BY <1>1, CompletingAside
<1>5. Count(notes', Users(t)) = Count(notes, Users(t)) /\ hist'.recorded = hist.recorded
  BY <1>1
<1> QED
  BY <1>2, <1>3, <1>4, <1>5, BalancedParts, BalancedMoves

(* Steps of the session that record nothing.                                *)
LEMMA SessionBalanced ==
    ASSUME Shapes, NEW t, Balanced(t), Session \/ Speak
    PROVE  Balanced(t)'
<1>0. notes \in Seq(Notes) /\ core.turn \in Nat /\ core.last + 1 \in Nat
  BY DEF Shapes, Sessions
<1>1. PICK e \in Notes : e \notin Users(t) /\ notes' \in {notes, Append(notes, e)}
  <2>1. CASE Session
    <3>1. \A x \in Nat : /\ <<"started", x>> \in Notes /\ <<"started", x>> \notin Users(t)
                         /\ <<"interrupted", x>> \in Notes /\ <<"interrupted", x>> \notin Users(t)
      BY NoteKinds DEF Users
    <3>2. /\ <<"started", core.last + 1>> \in Notes /\ <<"started", core.last + 1>> \notin Users(t)
          /\ <<"interrupted", core.turn>> \in Notes /\ <<"interrupted", core.turn>> \notin Users(t)
      BY <1>0, <3>1
    <3>3. notes' \in {notes, Append(notes, <<"started", core.last + 1>>),
                     Append(notes, <<"interrupted", core.turn>>)}
      BY <2>1 DEF Session, HandleInput, HandleInterrupt
    <3> QED
      BY <3>2, <3>3, Zenon
  <2>2. CASE Speak
    <3>1. /\ <<"delta">> \in Notes /\ <<"delta">> \notin Users(t)
          /\ <<"final">> \in Notes /\ <<"final">> \notin Users(t)
      BY NoteKinds DEF Users
    <3>2. notes' \in {Append(notes, <<"delta">>), Append(notes, <<"final">>)}
      BY <2>2 DEF Speak
    <3> QED
      BY <3>1, <3>2
  <2> QED
    BY <2>1, <2>2
<1>2. Count(Append(notes, e), Users(t)) = Count(notes, Users(t)) + 0
  BY <1>0, <1>1, CountAppend
<1>3. Count(notes', Users(t)) = Count(notes, Users(t))
  <2>1. CASE notes' = notes
    BY <2>1
  <2>2. CASE notes' = Append(notes, e)
    BY <1>2, <2>2, BalancedParts
  <2> QED
    BY <1>1, <2>1, <2>2
<1>4. UNCHANGED <<store, poll, snap, pub, outbound, chan>>
  BY Zenon DEF Session, HandleInput, HandleInterrupt, Speak, bridge
<1>5. Completing(t)' \subseteq Completing(t)
  BY <1>4, CompletingAside
<1>6. hist'.recorded = hist.recorded
  <2>1. CASE hist' = hist
    BY <2>1
  <2>2. CASE hist' # hist
    <3>1. PICK x, y : hist' = [hist EXCEPT !.interrupts = x, !.dropped = y]
      BY <2>2 DEF Session, HandleInput, HandleInterrupt, Speak
    <3> QED
      BY <3>1 DEF Shapes, Histories
  <2> QED
    BY <2>1, <2>2
<1>7. Count(outbound', Users(t)) = Count(outbound, Users(t))
      /\ Count(chan', Users(t)) = Count(chan, Users(t))
  BY <1>4
<1> QED
  BY <1>3, <1>5, <1>6, <1>7, BalancedParts, BalancedMoves

(* Prompts that are recorded are announced, one for one.                    *)
LEMMA RecordBalanced ==
    ASSUME Shapes, NEW t, Balanced(t), NEW q \in Seq(Prompts), NEW r \in Seq(Notes),
           Count(r, Users(t)) = Count(q, Saying(t)), notes' = notes \o r,
           hist'.recorded = hist.recorded \o q,
           UNCHANGED <<store, poll, snap, pub, outbound, chan>>
    PROVE  Balanced(t)'
<1>1. Count(notes', Users(t)) = Count(notes, Users(t)) + Count(q, Saying(t))
  BY CountConcat DEF Shapes
<1>2. Count(hist.recorded \o q, Saying(t)) = Count(hist.recorded, Saying(t)) + Count(q, Saying(t))
  BY CountConcat DEF Shapes, Histories
<1>3. Count(q, Saying(t)) \in Nat
  BY CountNat
<1>4. Completing(t)' = Completing(t)
  BY CompletingAside
<1>5. /\ Cardinality(Completing(t))' = Cardinality(Completing(t)')
      /\ Count(hist.recorded, Saying(t))' = Count(hist'.recorded, Saying(t))
      /\ Noticed(t)' = Count(outbound', Users(t)) + Count(chan', Users(t)) + Count(notes', Users(t))
  BY DEF Count, Noticed, Users
<1>6. Noticed(t)' = Noticed(t) + Count(q, Saying(t))
  BY <1>1, <1>3, <1>5, BalancedParts
<1>7. Count(hist.recorded, Saying(t))' = Count(hist.recorded, Saying(t)) + Count(q, Saying(t))
  BY <1>2, <1>5
<1>8. Cardinality(Completing(t))' = Cardinality(Completing(t))
  BY <1>4, <1>5
<1>9. Noticed(t) \in Nat
  BY BalancedParts
<1> QED
  BY <1>3, <1>6, <1>7, <1>8, <1>9, BalancedParts, SMTT(30) DEF Balanced

LEMMA RecordInputBalanced == ASSUME Shapes, NEW t, Balanced(t), RecordInput PROVE Balanced(t)'
<1> DEFINE p == Head(core.pending)
<1>1. /\ p \in Prompts /\ <<p>> \in Seq(Prompts) /\ << <<"user", p>> >> \in Seq(Notes)
  BY Queues, NoteKinds DEF Shapes, Sessions, RecordInput
<1>2. Count(<< <<"user", p>> >>, Users(t)) = Count(<<p>>, Saying(t))
  BY <1>1, CountOne, UsersKinds
<1>3. notes' = notes \o << <<"user", p>> >>
  <2>1. notes' = Append(notes, <<"user", p>>)
    BY DEF RecordInput
  <2>2. PICK e \in Notes : e = <<"user", p>>
    BY <1>1, NoteKinds
  <2> HIDE DEF p
  <2>3. Append(notes, e) = notes \o <<e>>
    BY DEF Shapes
  <2> QED
    BY <2>1, <2>2, <2>3
<1>4. hist'.recorded = hist.recorded \o <<p>> /\ UNCHANGED <<store, poll, snap, pub, outbound, chan>>
  BY DEF RecordInput, Recorded, bridge, Shapes, Histories
<1> HIDE DEF p
<1> QED
  BY <1>1, <1>2, <1>3, <1>4, RecordBalanced

LEMMA EndTurnBalanced == ASSUME Shapes, NEW t, Balanced(t), EndTurn PROVE Balanced(t)'
<1> DEFINE q == core.pending
           A == Announced(q)
           B == << <<"ended", core.turn>> >>
<1>1. q \in Seq(Prompts) /\ core.turn \in Nat /\ notes \in Seq(Notes)
  BY DEF Shapes, Sessions
<1>2. A \in Seq(Notes) /\ B \in Seq(Notes) /\ A \o B \in Seq(Notes)
  <2>1. A \in Seq(Notes) /\ B \in Seq(Notes)
    BY <1>1, AnnouncedType, NoteKinds, Queues
  <2> HIDE DEF A, B
  <2> QED
    BY <2>1, Queues
<1>3. notes' = (notes \o A) \o B /\ hist'.recorded = hist.recorded \o q
      /\ UNCHANGED <<store, poll, snap, pub, outbound, chan>>
  <2>1. notes' = (notes \o A) \o B /\ UNCHANGED <<store, poll, snap, pub, outbound, chan>>
    BY Zenon DEF EndTurn, Announced, bridge
  <2>2. hist' = [hist EXCEPT !.recorded = @ \o q]
    BY Zenon DEF EndTurn, Recorded
  <2>3. hist'.recorded = hist.recorded \o q
    BY <2>2 DEF Shapes, Histories
  <2> QED
    BY <2>1, <2>3
<1>4. Count(A, Users(t)) = Count(q, Saying(t)) /\ Count(q, Saying(t)) \in Nat
  BY <1>1, AnnouncedUsers, CountNat
<1>5. Count(B, Users(t)) = 0
  BY CountOne DEF Users
<1> HIDE DEF A, B
<1>6. Count(A \o B, Users(t)) = Count(q, Saying(t))
  <2>1. Count(A \o B, Users(t)) = Count(A, Users(t)) + Count(B, Users(t))
    BY <1>2, CountConcat
  <2> QED
    BY <1>4, <1>5, <2>1
<1>7. notes' = notes \o (A \o B)
  <2>1. /\ (notes \o A) \o B \in Seq(Notes) /\ notes \o (A \o B) \in Seq(Notes)
        /\ Len((notes \o A) \o B) = Len(notes \o (A \o B))
        /\ \A n \in 1 .. Len((notes \o A) \o B) : ((notes \o A) \o B)[n] = (notes \o (A \o B))[n]
    BY <1>1, <1>2
  <2> QED
    BY <1>3, <2>1, SeqEqual
<1> HIDE DEF q
<1> QED
  BY <1>1, <1>2, <1>3, <1>6, <1>7, RecordBalanced

LEMMA NextBalanced == ASSUME TypeInv, NEW t, Balanced(t), Next PROVE Balanced(t)'
<1> USE DEF TypeInv
<1>1. CASE \/ \E p \in Local : Enter(p)
           \/ Escape \/ Loop \/ RequestInterrupt
  <2>1. UNCHANGED <<store, poll, snap, pub, outbound, chan, notes>>
    BY <1>1, Zenon DEF Enter, Escape, Loop, SubmitRemote, SubmitTurn, SubmitInterrupt,
      RequestInterrupt, bridge
  <2>2. hist'.recorded = hist.recorded
    <3>1. CASE Loop \/ RequestInterrupt
      BY <3>1, Zenon DEF Loop, SubmitRemote, SubmitTurn, SubmitInterrupt, RequestInterrupt
    <3>2. CASE (\E p \in Local : Enter(p)) \/ Escape
      <4>1. \/ \E x : hist' = [hist EXCEPT !.typed = x]
            \/ \E x : hist' = [hist EXCEPT !.escapes = x]
        BY <3>2 DEF Enter, Escape
      <4> QED
        BY <4>1 DEF Shapes, Histories
    <3> QED
      BY <1>1, <3>1, <3>2
  <2>3. Completing(t)' \subseteq Completing(t)
    BY <2>1, CompletingAside
  <2>4. /\ Count(outbound', Users(t)) = Count(outbound, Users(t))
        /\ Count(chan', Users(t)) = Count(chan, Users(t))
        /\ Count(notes', Users(t)) = Count(notes, Users(t))
    BY <2>1
  <2> QED
    BY <2>2, <2>3, <2>4, BalancedParts, BalancedMoves
<1>2. CASE \/ \E m \in Remote : Post(m)
           \/ LoadClaim \/ SaveClaim \/ Skip \/ LoadCommand \/ SaveCommand \/ KillCommand
  BY <1>2, StoreBalanced
<1>3. CASE Receive \/ Route \/ Widget
  BY <1>3, ReceiveBalanced, RouteBalanced, WidgetBalanced
<1>4. CASE Session \/ Speak \/ RecordInput \/ EndTurn
  BY <1>4, SessionBalanced, RecordInputBalanced, EndTurnBalanced
<1> QED
  BY <1>1, <1>2, <1>3, <1>4, Zenon DEF Next, Bridge

LEMMA CompletedStep == TypeInv /\ CompletedInv /\ [Next]_vars => CompletedInv'
<1> SUFFICES ASSUME TypeInv, CompletedInv, [Next]_vars PROVE CompletedInv'
  OBVIOUS
<1> SUFFICES ASSUME NEW t \in {Text[m] : m \in Remote} PROVE Balanced(t)'
  BY DEF CompletedInv, Balanced
<1>1. Balanced(t)
  BY DEF CompletedInv, Balanced
<1>2. CASE Next
  BY <1>1, <1>2, NextBalanced
<1>3. CASE UNCHANGED vars
  BY <1>1, <1>3 DEF vars, Balanced, Completing, DoneIn, ToComplete, Noticed, Count
<1> QED
  BY <1>2, <1>3

LEMMA InitCompleted == Init => CompletedInv
<1> SUFFICES ASSUME Init, NEW t PROVE Balanced(t)
  BY DEF CompletedInv, Balanced
<1>1. Completing(t) = {}
  BY DEF Init, Completing, DoneIn, ToComplete
<1>2. /\ Count(outbound, Users(t)) = 0 /\ Count(chan, Users(t)) = 0 /\ Count(notes, Users(t)) = 0
      /\ Count(hist.recorded, Saying(t)) = 0
  BY CountOne DEF Init
<1>3. Cardinality(Completing(t)) = 0
  BY <1>1, FS_EmptySet
<1> QED
  BY <1>2, <1>3, InitShapes, BalancedParts DEF Balanced

(* CompletedTheorem: whatever the order in which claims, typed prompts,     *)
(* notifications and the publisher's commands meet, and whichever commands  *)
(* are killed, the phone shows no more messages of a text as completed than *)
(* the agent has recorded prompts that say it.                              *)
THEOREM CompletedTheorem == Spec => []CompletedAreRecorded
<1>1. ASSUME TypeInv, CompletedInv PROVE CompletedAreRecorded
  <2> SUFFICES ASSUME NEW t \in {Text[m] : m \in Remote}
               PROVE  Cardinality({m \in Remote : store.msg[m] = "completed" /\ Text[m] = t})
                        <= Cardinality({i \in DOMAIN hist.recorded : Joined(hist.recorded[i]) = <<t>>})
    BY DEF CompletedAreRecorded
  <2> DEFINE D == {m \in Remote : store.msg[m] = "completed" /\ Text[m] = t}
             R == {i \in DOMAIN hist.recorded : Joined(hist.recorded[i]) = <<t>>}
  <2>1. Balanced(t)
    BY <1>1 DEF CompletedInv, Balanced
  <2>2. Shapes
    BY <1>1 DEF TypeInv
  <2>3. D \subseteq Completing(t)
    BY DEF Completing
  <2>4. R = {i \in DOMAIN hist.recorded : hist.recorded[i] \in Saying(t)}
    <3>1. \A i \in DOMAIN hist.recorded : hist.recorded[i] \in Prompts
      BY <2>2 DEF Shapes, Histories
    <3> QED
      BY <3>1 DEF Saying
  <2>5. Cardinality(R) = Count(hist.recorded, Saying(t))
    BY <2>4 DEF Count
  <2> HIDE DEF D, R
  <2>6. Cardinality(D) <= Cardinality(Completing(t)) /\ Cardinality(D) \in Nat
    BY <2>3, FewCompleting, FS_Subset, FS_CardinalityType
  <2>7. Noticed(t) \in Nat
    BY <2>2, BalancedParts
  <2>8. Cardinality(D) <= Cardinality(R)
    BY <2>1, <2>2, <2>5, <2>6, <2>7, BalancedParts DEF Balanced
  <2> QED
    BY <2>8 DEF D, R
<1> QED
  BY <1>1, InitCompleted, CompletedStep, BridgeTypes, PTL DEF Spec

-----------------------------------------------------------------------------
(* Interrupted turns the widget has heard of.                               *)

Cuts == {"interrupted"} \X Nat

LEMMA CutsKinds == \A n \in Notes : n \in Cuts <=> n[1] = "interrupted"
  BY NoteKinds DEF Cuts

LEMMA UnheardParts ==
    ASSUME Shapes
    PROVE  /\ Count(notes, Cuts) \in Nat /\ Count(chan, Cuts) \in Nat /\ hist.interrupts \in Nat
           /\ Unheard = Count(notes, Cuts) + Count(chan, Cuts) /\ Unheard \in Nat
<1>1. notes \in Seq(Notes) /\ chan \in Seq(Notes) /\ hist.interrupts \in Nat
  BY DEF Shapes, Histories
<1>2. Count(notes, Cuts) \in Nat /\ Count(chan, Cuts) \in Nat
  BY <1>1, CountNat
<1>3. Unheard = Count(notes, Cuts) + Count(chan, Cuts)
  BY DEF Unheard, Cuts
<1> QED
  BY <1>1, <1>2, <1>3

(* No step but HandleInterrupted changes the number of interrupted turns    *)
(* the widget has heard of.                                                 *)
LEMMA HeardKept ==
    ASSUME TypeInv, Next, ~HandleInterrupted, Unheard <= hist.interrupts
    PROVE  Unheard' <= hist'.interrupts /\ Heard' = Heard
<1> USE DEF TypeInv
<1>0. /\ Count(notes, Cuts) \in Nat /\ Count(chan, Cuts) \in Nat /\ hist.interrupts \in Nat
      /\ Unheard = Count(notes, Cuts) + Count(chan, Cuts) /\ Unheard \in Nat
  BY UnheardParts
<1>a. notes \in Seq(Notes) /\ chan \in Seq(Notes) /\ core.pending \in Seq(Prompts)
      /\ core.turn \in Nat /\ core.last + 1 \in Nat
  BY DEF Shapes, Sessions
<1>b. Unheard' = Count(notes', Cuts) + Count(chan', Cuts)
  BY DEF Unheard, Cuts
<1>1. ASSUME Count(notes', Cuts) \in Nat, Count(chan', Cuts) \in Nat, NEW k \in Nat,
             Count(notes', Cuts) + Count(chan', Cuts)
               = Count(notes, Cuts) + Count(chan, Cuts) + k,
             hist'.interrupts = hist.interrupts + k
      PROVE  Unheard' <= hist'.interrupts /\ Heard' = Heard
  BY <1>0, <1>b, <1>1 DEF Heard
<1>2. CASE \/ \E m \in Remote : Post(m)
           \/ \E p \in Local : Enter(p)
           \/ Escape \/ KillCommand \/ Bridge \/ Loop \/ RequestInterrupt
  <2>1. notes' = notes /\ chan' = chan
    BY <1>2, Zenon DEF Post, Enter, Escape, KillCommand, Bridge, LoadClaim, SaveClaim, Receive,
      Skip, LoadCommand, SaveCommand, Loop, SubmitRemote, SubmitTurn, SubmitInterrupt,
      RequestInterrupt, bridge
  <2>2. hist'.interrupts = hist.interrupts
    <3>1. CASE \/ LoadClaim \/ Receive \/ Skip \/ LoadCommand \/ Loop \/ RequestInterrupt
      BY <3>1, Zenon DEF LoadClaim, Receive, Skip, LoadCommand, Loop, SubmitRemote, SubmitTurn,
        SubmitInterrupt, RequestInterrupt
    <3>2. CASE SaveClaim
      BY <3>2 DEF SaveClaim, Shapes, Histories
    <3>3. CASE SaveCommand \/ KillCommand
      BY <3>3 DEF SaveCommand, KillCommand, Shapes, Histories
    <3>4. CASE (\E m \in Remote : Post(m)) \/ (\E p \in Local : Enter(p)) \/ Escape
      <4>1. \/ \E x : hist' = [hist EXCEPT !.typed = x]
            \/ \E x : hist' = [hist EXCEPT !.escapes = x]
        BY <3>4 DEF Post, Enter, Escape
      <4> QED
        BY <4>1 DEF Shapes, Histories
    <3> QED
      BY <1>2, <3>1, <3>2, <3>3, <3>4, Zenon DEF Bridge
  <2>3. /\ Count(notes', Cuts) = Count(notes, Cuts) /\ Count(chan', Cuts) = Count(chan, Cuts)
        /\ hist'.interrupts = hist.interrupts + 0
    BY <1>0, <2>1, <2>2
  <2> QED
    BY <1>0, <1>1, <2>3
<1>3. CASE Route
  <2> DEFINE e == Head(notes)
             k == IF e \in Cuts THEN 1 ELSE 0
  <2>1. /\ e \in Notes /\ notes # <<>> /\ notes' = Tail(notes) /\ chan' = Append(chan, e)
        /\ hist' = hist /\ notes' \in Seq(Notes)
    BY <1>3, <1>a, Queues DEF Route, bridge
  <2>2. Count(notes, Cuts) = Count(notes', Cuts) + k
    BY <1>a, <2>1, CountTail
  <2>3. Count(chan', Cuts) = Count(chan, Cuts) + k
    BY <1>a, <2>1, CountAppend
  <2>4. Count(notes', Cuts) \in Nat /\ k \in {0, 1}
    BY <2>1, CountNat
  <2>5. hist'.interrupts = hist.interrupts + 0
    BY <1>0, <2>1
  <2> HIDE DEF k, e
  <2>6. Count(chan', Cuts) \in Nat
        /\ Count(notes', Cuts) + Count(chan', Cuts) = Count(notes, Cuts) + Count(chan, Cuts) + 0
    BY <1>0, <2>2, <2>3, <2>4
  <2> QED
    BY <1>1, <2>4, <2>5, <2>6
<1>4. CASE Widget
  <2>1. PICK kind \in {"started", "user", "delta", "final", "ended"} :
            Handle(kind) /\ notes' = notes /\ hist' = hist
    BY <1>4, Zenon DEF Widget, HandleStarted, HandleUserMessage, HandleAgentMessage, HandleEnded
  <2>2. /\ chan # <<>> /\ Head(chan) \in Notes /\ Head(chan) \notin Cuts /\ chan' = Tail(chan)
        /\ chan' \in Seq(Notes)
    BY <1>a, <2>1, Queues, CutsKinds DEF Handle
  <2>3. Count(chan, Cuts) = Count(chan', Cuts) + 0 /\ Count(chan', Cuts) \in Nat
    BY <1>a, <2>2, CountTail, CountNat
  <2>4. hist'.interrupts = hist.interrupts + 0 /\ Count(notes', Cuts) = Count(notes, Cuts)
    BY <1>0, <2>1
  <2> QED
    BY <1>0, <1>1, <2>3, <2>4
<1>5. CASE HandleInterrupt /\ core.turn # 0
  <2> DEFINE e == <<"interrupted", core.turn>>
  <2>1. notes' = Append(notes, e) /\ chan' = chan /\ e \in Notes /\ e \in Cuts
    BY <1>5, <1>a, NoteKinds, CutsKinds DEF HandleInterrupt
  <2>2. hist'.interrupts = hist.interrupts + 1
    BY <1>5 DEF HandleInterrupt, Shapes, Histories
  <2>3. Count(notes', Cuts) = Count(notes, Cuts) + 1 /\ Count(chan', Cuts) = Count(chan, Cuts)
    BY <1>a, <2>1, CountAppend
  <2> QED
    BY <1>0, <1>1, <2>2, <2>3
<1>6. CASE (HandleInterrupt /\ core.turn = 0) \/ HandleInput \/ RecordInput \/ Speak
  <2>1. PICK e \in Notes : e \notin Cuts /\ notes' \in {notes, Append(notes, e)}
    <3>1. CASE (HandleInterrupt /\ core.turn = 0) \/ HandleInput
      <4>1. <<"started", core.last + 1>> \in Notes /\ <<"started", core.last + 1>> \notin Cuts
        <5>1. PICK x \in Nat : x = core.last + 1
          BY <1>a
        <5>2. <<"started", x>> \in Notes /\ <<"started", x>>[1] = "started"
          BY NoteKinds
        <5> QED
          BY <5>1, <5>2, CutsKinds
      <4>2. notes' \in {notes, Append(notes, <<"started", core.last + 1>>)}
        BY <3>1 DEF HandleInterrupt, HandleInput
      <4> QED
        BY <4>1, <4>2, Zenon
    <3>2. CASE RecordInput
      <4>1. <<"user", Head(core.pending)>> \in Notes /\ <<"user", Head(core.pending)>>[1] = "user"
        BY <1>a, <3>2, Queues, NoteKinds DEF RecordInput
      <4>2. notes' = Append(notes, <<"user", Head(core.pending)>>)
        BY <3>2 DEF RecordInput
      <4>3. <<"user", Head(core.pending)>> \notin Cuts
        BY <4>1, CutsKinds
      <4> QED
        BY <4>1, <4>2, <4>3, Zenon
    <3>3. CASE Speak
      <4>1. /\ <<"delta">> \in Notes /\ <<"delta">> \notin Cuts
            /\ <<"final">> \in Notes /\ <<"final">> \notin Cuts
        BY NoteKinds DEF Cuts
      <4>2. notes' \in {Append(notes, <<"delta">>), Append(notes, <<"final">>)}
        BY <3>3 DEF Speak
      <4> QED
        BY <4>1, <4>2
    <3> QED
      BY <1>6, <3>1, <3>2, <3>3
  <2>2. Count(Append(notes, e), Cuts) = Count(notes, Cuts) + 0
    BY <1>a, <2>1, CountAppend
  <2>3. Count(notes', Cuts) = Count(notes, Cuts)
    <3>1. CASE notes' = notes
      BY <3>1
    <3>2. CASE notes' = Append(notes, e)
      BY <1>0, <2>2, <3>2
    <3> QED
      BY <2>1, <3>1, <3>2
  <2>4. chan' = chan /\ hist'.interrupts = hist.interrupts
    BY <1>6 DEF HandleInterrupt, HandleInput, RecordInput, Speak, Recorded, Shapes, Histories
  <2>5. Count(chan', Cuts) = Count(chan, Cuts) /\ hist'.interrupts = hist.interrupts + 0
    BY <1>0, <2>4
  <2> QED
    BY <1>0, <1>1, <2>3, <2>5
<1>7. CASE EndTurn
  <2> DEFINE A == Announced(core.pending)
             B == << <<"ended", core.turn>> >>
  <2>1. /\ notes' = (notes \o A) \o B /\ chan' = chan /\ hist'.interrupts = hist.interrupts + 0
    <3>1. hist'.interrupts = hist.interrupts
      BY <1>7 DEF EndTurn, Recorded, Shapes, Histories
    <3> QED
      BY <1>0, <1>7, <3>1 DEF EndTurn, Announced
  <2>2. A \in Seq(Notes) /\ B \in Seq(Notes)
    BY <1>a, AnnouncedType, NoteKinds, Queues
  <2>3. Count(A, Cuts) = 0
    <3>1. \A i \in DOMAIN A : A[i] = <<"user", core.pending[i]>>
      BY Zenon DEF Announced
    <3> HIDE DEF A
    <3>2. {i \in DOMAIN A : A[i] \in Cuts} = {}
      BY <3>1 DEF Cuts
    <3> QED
      BY <3>2, FS_EmptySet DEF Count
  <2>4. Count(B, Cuts) = 0
    BY CountOne DEF Cuts
  <2> HIDE DEF A, B
  <2>5. notes \o A \in Seq(Notes) /\ Count(notes \o A, Cuts) = Count(notes, Cuts) + 0
    BY <1>a, <2>2, <2>3, Queues, CountConcat
  <2>6. Count(notes', Cuts) = Count(notes \o A, Cuts) + 0
    BY <2>1, <2>2, <2>4, <2>5, CountConcat, Zenon
  <2>7. Count(notes', Cuts) = Count(notes, Cuts) /\ Count(chan', Cuts) = Count(chan, Cuts)
    BY <1>0, <2>1, <2>5, <2>6
  <2>8. hist'.interrupts = hist.interrupts + 0
    BY <2>1
  <2> QED
    BY <1>0, <1>1, <2>7, <2>8
<1> QED
  BY <1>2, <1>3, <1>4, <1>5, <1>6, <1>7 DEF Next, Session

LEMMA HeardMore ==
    ASSUME TypeInv, HandleInterrupted, Unheard <= hist.interrupts
    PROVE  Unheard' <= hist'.interrupts /\ Heard' = Heard + 1
<1> USE DEF TypeInv
<1>0. /\ Count(notes, Cuts) \in Nat /\ Count(chan, Cuts) \in Nat /\ hist.interrupts \in Nat
      /\ Unheard = Count(notes, Cuts) + Count(chan, Cuts) /\ Unheard \in Nat
  BY UnheardParts
<1>1. /\ chan \in Seq(Notes) /\ chan # <<>> /\ Head(chan) \in Notes /\ Head(chan) \in Cuts
      /\ chan' = Tail(chan) /\ chan' \in Seq(Notes) /\ notes' = notes /\ hist' = hist
  BY Queues, CutsKinds DEF HandleInterrupted, Handle, Shapes
<1>2. Count(chan, Cuts) = Count(chan', Cuts) + 1 /\ Count(chan', Cuts) \in Nat
  BY <1>1, CountTail, CountNat
<1>3. Unheard' = Count(notes', Cuts) + Count(chan', Cuts)
  BY DEF Unheard, Cuts
<1>4. Count(notes', Cuts) = Count(notes, Cuts) /\ hist'.interrupts = hist.interrupts
  BY <1>1
<1> QED
  BY <1>0, <1>2, <1>3, <1>4 DEF Heard

-----------------------------------------------------------------------------
(* Copies of a prompt.                                                      *)

Fair(m) == Held(m) <= Origin(m) /\ Copies(m) <= Origin(m) * (1 + Heard)

LEMMA CopiesParts ==
    ASSUME Shapes, NEW m \in Messages
    PROVE  /\ Count(events, {<<"remote", m>>}) \in Nat /\ Times(tui.steers, m) \in Nat
           /\ Times(tui.queued, m) \in Nat /\ Times(<<tui.composer>>, m) \in Nat
           /\ Times(hist.recorded, m) \in Nat /\ Times(core.pending, m) \in Nat
           /\ Times(Carry(core.subs), m) \in Nat /\ Times(Carry(events), m) \in Nat
           /\ Held(m) \in Nat /\ Copies(m) \in Nat /\ Origin(m) \in Nat
<1>1. Count(events, {<<"remote", m>>}) \in Nat
  BY CountNat DEF Shapes
<1>2. /\ tui.steers \in Seq(Prompts) /\ tui.queued \in Seq(Prompts) /\ tui.composer \in Prompts
      /\ hist.recorded \in Seq(Prompts) /\ core.pending \in Seq(Prompts)
  BY DEF Shapes, Widgets, Histories, Sessions
<1>3. events \in Seq(Events \cup Subs) /\ core.subs \in Seq(Events \cup Subs)
  BY DEF Shapes, Sessions
<1>4. Carry(events) \in Seq(Prompts) /\ Carry(core.subs) \in Seq(Prompts)
  BY <1>3, CarryType
<1>5. /\ Times(tui.steers, m) \in Nat /\ Times(tui.queued, m) \in Nat
      /\ Times(<<tui.composer>>, m) \in Nat
      /\ Times(hist.recorded, m) \in Nat /\ Times(core.pending, m) \in Nat
      /\ Times(Carry(core.subs), m) \in Nat /\ Times(Carry(events), m) \in Nat
  BY <1>2, <1>4, TimesNat, TimesPrompt
<1>6. Origin(m) \in Nat
  BY DEF Origin, Shapes, Histories
<1> QED
  BY <1>1, <1>5, <1>6 DEF Held, Copies

(* d more copies of a message that is handed to the widget d times.         *)
LEMMA MoreOrigin ==
    ASSUME NEW o \in Nat, NEW d \in Nat, NEW r \in Nat, NEW c \in Nat, NEW e \in Nat,
           c <= o * (1 + r), e <= c + d
    PROVE  e <= (o + d) * (1 + r)
<1>1. (o + d) * (1 + r) = o * (1 + r) + d * (1 + r)
  OBVIOUS
<1>2. d * (1 + r) = d + d * r
  OBVIOUS
<1>3. d * r \in Nat /\ o * (1 + r) \in Nat
  OBVIOUS
<1> QED
  BY <1>1, <1>2, <1>3

(* Once more what the widget holds, for one more interrupted turn.          *)
LEMMA OneMoreRound ==
    ASSUME NEW o \in Nat, NEW r \in Nat, NEW c \in Nat, NEW e \in Nat, NEW h \in Nat,
           c <= o * (1 + r), h <= o, e <= c + h
    PROVE  e <= o * (1 + (r + 1))
<1>1. o * (1 + (r + 1)) = o * (1 + r) + o
  OBVIOUS
<1>2. o * (1 + r) \in Nat
  OBVIOUS
<1> QED
  BY <1>1, <1>2

LEMMA FairKept ==
    ASSUME Shapes, NEW m \in Messages, Fair(m), Heard \in Nat, Heard' = Heard, NEW d \in Nat,
           Held(m)' \in Nat, Held(m)' <= Held(m) + d,
           Copies(m)' \in Nat, Copies(m)' <= Copies(m) + d,
           Origin(m)' = Origin(m) + d
    PROVE  Fair(m)'
<1>1. Held(m) \in Nat /\ Copies(m) \in Nat /\ Origin(m) \in Nat
  BY CopiesParts
<1>2. Held(m)' <= Origin(m)'
  BY <1>1 DEF Fair
<1>3. Copies(m)' <= (Origin(m) + d) * (1 + Heard)
  BY <1>1, MoreOrigin DEF Fair
<1> QED
  BY <1>2, <1>3 DEF Fair

(* Where neither the queues nor the widget's prompts change.                *)
LEMMA FairAside ==
    ASSUME Shapes, NEW m \in Messages, Fair(m), Heard' = Heard, events' = events,
           tui'.steers = tui.steers, tui'.queued = tui.queued, tui'.composer = tui.composer,
           core'.pending = core.pending, core'.subs = core.subs,
           hist'.recorded = hist.recorded, hist'.claims = hist.claims, hist'.typed \cap Local = hist.typed \cap Local
    PROVE  Fair(m)'
<1>1. Held(m)' = Held(m) /\ Copies(m)' = Copies(m)
  BY DEF Held, Copies
<1>2. Origin(m)' = Origin(m)
  BY DEF Origin, Messages
<1> QED
  BY <1>1, <1>2 DEF Fair

LEMMA StoreFair ==
    ASSUME Shapes, NEW m \in Messages, Fair(m), Heard' = Heard,
           \/ \E n \in Remote : Post(n)
           \/ LoadClaim \/ Receive \/ Skip \/ LoadCommand \/ SaveCommand \/ KillCommand
    PROVE  Fair(m)'
<1>1. events' = events /\ tui' = tui /\ core' = core
  BY Zenon DEF Post, LoadClaim, Receive, Skip, LoadCommand, SaveCommand, KillCommand
<1>2. /\ hist'.recorded = hist.recorded /\ hist'.claims = hist.claims
      /\ hist'.typed \cap Local = hist.typed \cap Local
  <2>1. CASE LoadClaim \/ Receive \/ Skip \/ LoadCommand
    BY <2>1, Zenon DEF LoadClaim, Receive, Skip, LoadCommand
  <2>2. CASE SaveCommand \/ KillCommand
    BY <2>2 DEF SaveCommand, KillCommand, Shapes, Histories
  <2>3. CASE \E n \in Remote : Post(n)
    <3>1. PICK n \in Remote : hist' = [hist EXCEPT !.typed = @ \cup {n}]
      BY <2>3 DEF Post
    <3>2. n \notin Local
      BY ChatAssumption
    <3> QED
      BY <3>1, <3>2 DEF Shapes, Histories
  <2> QED
    BY <2>1, <2>2, <2>3
<1> QED
  BY <1>1, <1>2, FairAside

LEMMA QuietFair ==
    ASSUME Shapes, NEW m \in Messages, Fair(m), Heard' = Heard,
           Route \/ HandleStarted \/ HandleAgentMessage \/ Speak
    PROVE  Fair(m)'
<1>1. /\ events' = events /\ hist' = hist
      /\ core'.pending = core.pending /\ core'.subs = core.subs
  BY DEF Route, HandleStarted, HandleAgentMessage, Speak, Shapes, Sessions
<1>2. tui'.steers = tui.steers /\ tui'.queued = tui.queued /\ tui'.composer = tui.composer
  BY DEF Route, HandleStarted, HandleAgentMessage, Speak, Shapes, Widgets
<1> QED
  BY <1>1, <1>2, FairAside

(* The queue of events, when something arrives or is taken.                 *)
LEMMA EventArrives ==
    ASSUME Shapes, NEW m \in Messages, NEW e \in Events
    PROVE  /\ Times(Carry(Append(events, e)), m) = Times(Carry(events), m) + Times(<<Carried(e)>>, m)
           /\ Count(Append(events, e), {<<"remote", m>>})
                = Count(events, {<<"remote", m>>}) + IF e = <<"remote", m>> THEN 1 ELSE 0
           /\ Times(<<Carried(e)>>, m) \in Nat
<1>1. events \in Seq(Events) /\ events \in Seq(Events \cup Subs)
  BY DEF Shapes
<1>2. Carried(e) \in Prompts /\ e \in Events \cup Subs
  BY CarriedType
<1>3. Times(Carry(Append(events, e)), m) = Times(Carry(events), m) + Times(<<Carried(e)>>, m)
  BY <1>1, <1>2, LoadAppend
<1>4. Count(Append(events, e), {<<"remote", m>>})
        = Count(events, {<<"remote", m>>}) + IF e \in {<<"remote", m>>} THEN 1 ELSE 0
  BY <1>1, CountAppend
<1>5. Times(<<Carried(e)>>, m) \in Nat
  BY <1>2, TimesPrompt
<1> QED
  BY <1>3, <1>4, <1>5

LEMMA EventTaken ==
    ASSUME Shapes, NEW m \in Messages, events # <<>>
    PROVE  /\ Head(events) \in Events /\ Tail(events) \in Seq(Events)
           /\ Times(Carry(events), m) = Times(<<Carried(Head(events))>>, m) + Times(Carry(Tail(events)), m)
           /\ Count(events, {<<"remote", m>>})
                = Count(Tail(events), {<<"remote", m>>}) + IF Head(events) = <<"remote", m>> THEN 1 ELSE 0
           /\ Times(<<Carried(Head(events))>>, m) \in Nat /\ Times(Carry(Tail(events)), m) \in Nat
           /\ Count(Tail(events), {<<"remote", m>>}) \in Nat
<1>1. events \in Seq(Events) /\ events \in Seq(Events \cup Subs)
  BY DEF Shapes
<1>2. Head(events) \in Events /\ Tail(events) \in Seq(Events) /\ Tail(events) \in Seq(Events \cup Subs)
  BY <1>1, Queues
<1>3. Carried(Head(events)) \in Prompts /\ Carry(Tail(events)) \in Seq(Prompts)
  BY <1>2, CarriedType, CarryType
<1> QED
  BY <1>1, <1>2, <1>3, LoadTail, CountTail, CountNat, TimesNat, TimesPrompt

(* What the events carry.                                                   *)
LEMMA CarriedBy ==
    ASSUME NEW m \in Messages
    PROVE  /\ Times(<<Carried(<<"interrupt">>)>>, m) = 0
           /\ \A n \in Remote : Times(<<Carried(<<"remote", n>>)>>, m) = IF n = m THEN 1 ELSE 0
           /\ \A p \in Prompts : /\ Carried(<<"turn", p>>) = p /\ Carried(<<"input", p>>) = p
                                 /\ <<"turn", p>> # <<"remote", m>>
           /\ <<"interrupt">> # <<"remote", m>>
           /\ \A n \in Remote : <<"remote", n>> = <<"remote", m>> <=> n = m
<1>1. Carried(<<"interrupt">>) = <<>>
  BY DEF Carried
<1>2. Times(<< <<>> >>, m) = 0
  <2>1. <<>> \in Prompts
    BY DEF Prompts
  <2>2. Times(<< <<>> >>, m) = Count(<<>>, {m})
    BY <2>1, TimesPrompt
  <2> QED
    BY <2>2, CountOne
<1>3. ASSUME NEW n \in Remote PROVE Times(<<Carried(<<"remote", n>>)>>, m) = IF n = m THEN 1 ELSE 0
  <2>1. Carried(<<"remote", n>>) = <<n>>
    BY DEF Carried
  <2>2. n \in Messages
    BY DEF Messages
  <2> QED
    BY <2>1, <2>2, TimesOne
<1>4. \A p \in Prompts : Carried(<<"turn", p>>) = p /\ Carried(<<"input", p>>) = p
  BY DEF Carried
<1> QED
  BY <1>1, <1>2, <1>3, <1>4

(* A claimed message that reaches the widget.                               *)
LEMMA SaveClaimFair ==
    ASSUME Shapes, NEW m \in Messages, Fair(m), Heard \in Nat, Heard' = Heard, SaveClaim
    PROVE  Fair(m)'
<1>1. PICK n \in FirstInLine(poll[1]), arrives \in BOOLEAN :
         /\ events' = IF arrives THEN Append(events, <<"remote", n>>) ELSE events
         /\ hist' = [hist EXCEPT !.claims[n] = @ + 1,
                                 !.given = IF arrives THEN @ \cup {n} ELSE @,
                                 !.faults = IF arrives THEN @ ELSE @ + 1,
                                 !.damaged = Damage(poll[1])]
  BY DEF SaveClaim
<1>2. n \in Remote /\ <<"remote", n>> \in Events
  BY EventKinds DEF FirstInLine
<1> DEFINE d == IF n = m THEN 1 ELSE 0
<1>3. /\ hist'.recorded = hist.recorded /\ hist'.typed = hist.typed
      /\ hist'.claims = [hist.claims EXCEPT ![n] = @ + 1]
  BY <1>1 DEF Shapes, Histories
<1>4. Origin(m)' = Origin(m) + d
  <2>1. hist.claims \in [Remote -> Nat]
    BY DEF Shapes, Histories
  <2>2. CASE m \in Remote
    BY <1>2, <1>3, <2>1, <2>2 DEF Origin
  <2>3. CASE m \notin Remote
    BY <1>2, <1>3, <2>3 DEF Origin
  <2> QED
    BY <2>2, <2>3
<1>5. tui' = tui /\ core' = core
  BY DEF SaveClaim
<1>6. /\ Count(events', {<<"remote", m>>}) \in Nat /\ Times(Carry(events'), m) \in Nat
      /\ Count(events', {<<"remote", m>>}) <= Count(events, {<<"remote", m>>}) + d
      /\ Times(Carry(events'), m) <= Times(Carry(events), m) + d
  <2>1. CASE arrives
    <3>1. events' = Append(events, <<"remote", n>>)
      BY <1>1, <2>1
    <3>2. Times(Carry(events'), m) = Times(Carry(events), m) + d
      <4>1. Times(Carry(events'), m) = Times(Carry(events), m) + Times(<<Carried(<<"remote", n>>)>>, m)
        BY <1>2, <3>1, EventArrives
      <4>2. Times(<<Carried(<<"remote", n>>)>>, m) = d
        BY <1>2, CarriedBy
      <4> QED
        BY <4>1, <4>2
    <3>3. Count(events', {<<"remote", m>>}) = Count(events, {<<"remote", m>>}) + d
      <4>1. Count(events', {<<"remote", m>>})
              = Count(events, {<<"remote", m>>}) + IF <<"remote", n>> = <<"remote", m>> THEN 1 ELSE 0
        BY <1>2, <3>1, EventArrives
      <4>2. <<"remote", n>> = <<"remote", m>> <=> n = m
        OBVIOUS
      <4> QED
        BY <4>1, <4>2
    <3>4. d \in Nat
      OBVIOUS
    <3> HIDE DEF d
    <3> QED
      BY <3>2, <3>3, <3>4, CopiesParts
  <2>2. CASE ~arrives
    <3>1. events' = events
      BY <1>1, <2>2
    <3>2. d \in Nat
      OBVIOUS
    <3> HIDE DEF d
    <3> QED
      BY <3>1, <3>2, CopiesParts
  <2> QED
    BY <2>1, <2>2
<1>7. d \in Nat
  OBVIOUS
<1> HIDE DEF d
<1>8. Held(m)' \in Nat /\ Held(m)' <= Held(m) + d
  BY <1>5, <1>6, <1>7, CopiesParts DEF Held
<1>9. Copies(m)' \in Nat /\ Copies(m)' <= Copies(m) + d
  BY <1>3, <1>5, <1>6, <1>7, CopiesParts DEF Copies
<1> QED
  BY <1>4, <1>7, <1>8, <1>9, FairKept

(* The numbers that decide, now and after a step.                           *)
Waits(q, m) == Count(q, {<<"remote", m>>})
Load(q, m) == Times(Carry(q), m)
Says(p, m) == Times(<<p>>, m)

Numbers(m) ==
    /\ Waits(events, m) \in Nat /\ Times(tui.steers, m) \in Nat
    /\ Times(tui.queued, m) \in Nat /\ Says(tui.composer, m) \in Nat
    /\ Times(hist.recorded, m) \in Nat /\ Times(core.pending, m) \in Nat
    /\ Load(core.subs, m) \in Nat /\ Load(events, m) \in Nat

LEMMA NumbersNow == Shapes => \A m \in Messages : Numbers(m)
  BY CopiesParts DEF Numbers, Waits, Load, Says

LEMMA NumbersNext == Shapes' => (\A m \in Messages : Numbers(m))'
  BY NumbersNow, PTL

LEMMA FairMoved ==
    ASSUME Shapes, Shapes', NEW m \in Messages, Fair(m), Heard \in Nat, Heard' = Heard, NEW d \in Nat,
           Origin(m)' = Origin(m) + d,
           Waits(events', m) + Times(tui'.steers, m) + Times(tui'.queued, m)
               + Says(tui'.composer, m)
             <= Waits(events, m) + Times(tui.steers, m) + Times(tui.queued, m)
                  + Says(tui.composer, m) + d,
           Times(hist'.recorded, m) + Times(core'.pending, m) + Load(core'.subs, m)
               + Load(events', m) + Times(tui'.queued, m) + Says(tui'.composer, m)
             <= Times(hist.recorded, m) + Times(core.pending, m) + Load(core.subs, m)
                  + Load(events, m) + Times(tui.queued, m) + Says(tui.composer, m) + d
    PROVE  Fair(m)'
<1>1. Numbers(m)'
  BY NumbersNext
<1>2. /\ Held(m)' = Waits(events', m) + Times(tui'.steers, m)
                      + Times(tui'.queued, m) + Says(tui'.composer, m)
      /\ Held(m) = Waits(events, m) + Times(tui.steers, m)
                     + Times(tui.queued, m) + Says(tui.composer, m)
  BY DEF Held, Waits, Says
<1>3. Copies(m)' = Times(hist'.recorded, m) + Times(core'.pending, m)
                      + Load(core'.subs, m) + Load(events', m)
                      + Times(tui'.queued, m) + Says(tui'.composer, m)
  BY DEF Copies, Load, Says
<1>4. Copies(m) = Times(hist.recorded, m) + Times(core.pending, m)
                     + Load(core.subs, m) + Load(events, m)
                     + Times(tui.queued, m) + Says(tui.composer, m)
  BY DEF Copies, Load, Says
<1>5. /\ Waits(events', m) \in Nat /\ Times(tui'.steers, m) \in Nat
      /\ Times(tui'.queued, m) \in Nat /\ Says(tui'.composer, m) \in Nat
      /\ Times(hist'.recorded, m) \in Nat /\ Times(core'.pending, m) \in Nat
      /\ Load(core'.subs, m) \in Nat /\ Load(events', m) \in Nat
  BY <1>1 DEF Numbers
<1>6. Held(m)' \in Nat /\ Held(m)' <= Held(m) + d
  BY <1>2, <1>5
<1>7. Copies(m)' \in Nat /\ Copies(m)' <= Copies(m) + d
  BY <1>3, <1>4, <1>5
<1> QED
  BY <1>6, <1>7, FairKept

LEMMA OriginKept ==
    ASSUME Shapes, NEW m \in Messages, hist'.claims = hist.claims, hist'.typed = hist.typed
    PROVE  Origin(m)' = Origin(m) + 0
<1>1. Origin(m) \in Nat
  BY CopiesParts
<1>2. Origin(m)' = Origin(m)
  BY DEF Origin
<1> QED
  BY <1>1, <1>2

(* A queue of events when an operation arrives or is taken.                 *)
LEMMA OperationArrives ==
    ASSUME NEW m \in Messages, NEW q \in Seq(Events)
    PROVE  /\ \A p \in Prompts :
                 /\ Append(q, <<"turn", p>>) \in Seq(Events)
                 /\ Load(Append(q, <<"turn", p>>), m) = Load(q, m) + Says(p, m)
                 /\ Waits(Append(q, <<"turn", p>>), m) = Waits(q, m)
           /\ Append(q, <<"interrupt">>) \in Seq(Events)
           /\ Load(Append(q, <<"interrupt">>), m) = Load(q, m)
           /\ Waits(Append(q, <<"interrupt">>), m) = Waits(q, m)
           /\ Load(q, m) \in Nat /\ Waits(q, m) \in Nat
<1> USE DEF Waits, Load, Says
<1>1. q \in Seq(Events \cup Subs)
  OBVIOUS
<1>2. Load(q, m) \in Nat /\ Waits(q, m) \in Nat
  <2>1. Carry(q) \in Seq(Prompts)
    BY <1>1, CarryType
  <2> QED
    BY <2>1, TimesNat, CountNat
<1>3. ASSUME NEW e \in Events, e # <<"remote", m>>
      PROVE  /\ Append(q, e) \in Seq(Events)
             /\ Load(Append(q, e), m) = Load(q, m) + Says(Carried(e), m)
             /\ Waits(Append(q, e), m) = Waits(q, m)
  <2>1. e \in Events \cup Subs /\ e \notin {<<"remote", m>>}
    BY <1>3
  <2>2. Waits(Append(q, e), m) = Waits(q, m) + 0
    BY <2>1, CountAppend
  <2>3. Load(Append(q, e), m) = Load(q, m) + Says(Carried(e), m)
    BY <1>1, <2>1, LoadAppend
  <2> QED
    BY <1>2, <2>2, <2>3
<1>4. ASSUME NEW p \in Prompts
      PROVE  /\ Append(q, <<"turn", p>>) \in Seq(Events)
             /\ Load(Append(q, <<"turn", p>>), m) = Load(q, m) + Says(p, m)
             /\ Waits(Append(q, <<"turn", p>>), m) = Waits(q, m)
  <2>1. PICK e \in Events : e = <<"turn", p>>
    BY EventKinds
  <2>2. e # <<"remote", m>> /\ Carried(e) = p
    BY <2>1, CarriedBy
  <2>3. /\ Append(q, e) \in Seq(Events)
        /\ Load(Append(q, e), m) = Load(q, m) + Says(Carried(e), m)
        /\ Waits(Append(q, e), m) = Waits(q, m)
    BY <1>3, <2>2
  <2> QED
    BY <2>1, <2>2, <2>3, Zenon
<1>5. /\ Append(q, <<"interrupt">>) \in Seq(Events)
      /\ Load(Append(q, <<"interrupt">>), m) = Load(q, m)
      /\ Waits(Append(q, <<"interrupt">>), m) = Waits(q, m)
  <2>1. PICK e \in Events : e = <<"interrupt">>
    BY EventKinds
  <2>2. e # <<"remote", m>> /\ Says(Carried(e), m) = 0
    BY <2>1, CarriedBy, Zenon
  <2>3. /\ Append(q, e) \in Seq(Events)
        /\ Load(Append(q, e), m) = Load(q, m) + Says(Carried(e), m)
        /\ Waits(Append(q, e), m) = Waits(q, m)
    BY <1>3, <2>2
  <2>4. Load(Append(q, e), m) = Load(q, m)
    BY <1>2, <2>2, <2>3
  <2> QED
    BY <2>1, <2>3, <2>4, Zenon
<1> QED
  BY <1>2, <1>4, <1>5

LEMMA OperationTaken ==
    ASSUME Shapes, NEW m \in Messages, events # <<>>
    PROVE  /\ Tail(events) \in Seq(Events)
           /\ Head(events)[1] = "turn" =>
                /\ Head(events)[2] \in Prompts
                /\ Load(events, m) = Says(Head(events)[2], m) + Load(Tail(events), m)
                /\ Waits(events, m) = Waits(Tail(events), m)
           /\ Head(events)[1] = "interrupt" =>
                /\ Load(events, m) = Load(Tail(events), m)
                /\ Waits(events, m) = Waits(Tail(events), m)
<1> USE DEF Waits, Load, Says
<1>1. /\ Head(events) \in Events /\ Tail(events) \in Seq(Events)
      /\ Load(events, m) = Says(Carried(Head(events)), m) + Load(Tail(events), m)
      /\ Waits(events, m)
           = Waits(Tail(events), m) + IF Head(events) = <<"remote", m>> THEN 1 ELSE 0
      /\ Load(Tail(events), m) \in Nat /\ Waits(Tail(events), m) \in Nat
  BY EventTaken
<1>2. CASE Head(events)[1] = "turn"
  <2>1. Head(events)[2] \in Prompts /\ Head(events) = <<"turn", Head(events)[2]>>
    BY <1>1, <1>2, EventKinds
  <2>2. Head(events) # <<"remote", m>> /\ Carried(Head(events)) = Head(events)[2]
    BY <2>1, CarriedBy, Zenon
  <2> HIDE DEF Waits, Load, Says
  <2> QED
    BY <1>1, <1>2, <2>1, <2>2
<1>3. CASE Head(events)[1] = "interrupt"
  <2>1. Head(events) = <<"interrupt">>
    BY <1>1, <1>3, EventKinds
  <2>2. Head(events) # <<"remote", m>> /\ Says(Carried(Head(events)), m) = 0
    BY <2>1, CarriedBy, Zenon
  <2> QED
    BY <1>1, <1>3, <2>2
<1> QED
  BY <1>1, <1>2, <1>3
(* A step of the UI that leaves the session's prompts and the record alone. *)
LEMMA FairWidget ==
    ASSUME Shapes, Shapes', NEW m \in Messages, Fair(m), Heard \in Nat, Heard' = Heard,
           core'.pending = core.pending, core'.subs = core.subs,
           hist'.recorded = hist.recorded, hist'.claims = hist.claims, hist'.typed = hist.typed,
           Waits(events', m) + Times(tui'.steers, m) + Times(tui'.queued, m) + Says(tui'.composer, m)
             <= Waits(events, m) + Times(tui.steers, m) + Times(tui.queued, m) + Says(tui.composer, m),
           Load(events', m) + Times(tui'.queued, m) + Says(tui'.composer, m)
             <= Load(events, m) + Times(tui.queued, m) + Says(tui.composer, m)
    PROVE  Fair(m)'
<1>1. Numbers(m) /\ Numbers(m)'
  BY NumbersNow, NumbersNext
<1>2. /\ Waits(events, m) \in Nat /\ Times(tui.steers, m) \in Nat
      /\ Times(tui.queued, m) \in Nat /\ Says(tui.composer, m) \in Nat
      /\ Times(hist.recorded, m) \in Nat /\ Times(core.pending, m) \in Nat
      /\ Load(core.subs, m) \in Nat /\ Load(events, m) \in Nat
  BY <1>1 DEF Numbers
<1>3. /\ Waits(events', m) \in Nat /\ Times(tui'.steers, m) \in Nat
      /\ Times(tui'.queued, m) \in Nat /\ Says(tui'.composer, m) \in Nat
      /\ Load(events', m) \in Nat
  BY <1>1 DEF Numbers
<1>4. /\ Times(hist'.recorded, m) = Times(hist.recorded, m)
      /\ Times(core'.pending, m) = Times(core.pending, m) /\ Load(core'.subs, m) = Load(core.subs, m)
  OBVIOUS
<1>5. Times(hist'.recorded, m) + Times(core'.pending, m) + Load(core'.subs, m)
               + Load(events', m) + Times(tui'.queued, m) + Says(tui'.composer, m)
         <= Times(hist.recorded, m) + Times(core.pending, m) + Load(core.subs, m)
              + Load(events, m) + Times(tui.queued, m) + Says(tui.composer, m) + 0
  BY <1>2, <1>3, <1>4
<1>6. Waits(events', m) + Times(tui'.steers, m) + Times(tui'.queued, m) + Says(tui'.composer, m)
         <= Waits(events, m) + Times(tui.steers, m) + Times(tui.queued, m) + Says(tui.composer, m) + 0
  BY <1>2, <1>3
<1>7. Origin(m)' = Origin(m) + 0
  BY OriginKept
<1> QED
  BY <1>5, <1>6, <1>7, FairMoved

(* A step that leaves the widget's prompts and its events alone.            *)
LEMMA FairSession ==
    ASSUME Shapes, Shapes', NEW m \in Messages, Fair(m), Heard \in Nat, Heard' = Heard,
           events' = events,
           tui'.steers = tui.steers, tui'.queued = tui.queued, tui'.composer = tui.composer,
           hist'.claims = hist.claims, hist'.typed = hist.typed,
           Times(hist'.recorded, m) + Times(core'.pending, m) + Load(core'.subs, m)
             <= Times(hist.recorded, m) + Times(core.pending, m) + Load(core.subs, m)
    PROVE  Fair(m)'
<1>1. Numbers(m) /\ Numbers(m)'
  BY NumbersNow, NumbersNext
<1>2. /\ Waits(events, m) \in Nat /\ Times(tui.steers, m) \in Nat
      /\ Times(tui.queued, m) \in Nat /\ Says(tui.composer, m) \in Nat
      /\ Times(hist.recorded, m) \in Nat /\ Times(core.pending, m) \in Nat
      /\ Load(core.subs, m) \in Nat /\ Load(events, m) \in Nat
  BY <1>1 DEF Numbers
<1>3. /\ Times(hist'.recorded, m) \in Nat /\ Times(core'.pending, m) \in Nat
      /\ Load(core'.subs, m) \in Nat
  BY <1>1 DEF Numbers
<1>4. /\ Waits(events', m) = Waits(events, m) /\ Times(tui'.steers, m) = Times(tui.steers, m)
      /\ Times(tui'.queued, m) = Times(tui.queued, m) /\ Says(tui'.composer, m) = Says(tui.composer, m)
      /\ Load(events', m) = Load(events, m)
  OBVIOUS
<1>5. Times(hist'.recorded, m) + Times(core'.pending, m) + Load(core'.subs, m)
               + Load(events', m) + Times(tui'.queued, m) + Says(tui'.composer, m)
         <= Times(hist.recorded, m) + Times(core.pending, m) + Load(core.subs, m)
              + Load(events, m) + Times(tui.queued, m) + Says(tui.composer, m) + 0
  BY <1>2, <1>3, <1>4
<1>6. Waits(events', m) + Times(tui'.steers, m) + Times(tui'.queued, m) + Says(tui'.composer, m)
         <= Waits(events, m) + Times(tui.steers, m) + Times(tui.queued, m) + Says(tui.composer, m) + 0
  BY <1>2, <1>4
<1>7. Origin(m)' = Origin(m) + 0
  BY OriginKept
<1> QED
  BY <1>5, <1>6, <1>7, FairMoved

(* A message of the phone becomes a turn, and while a turn runs a steer.    *)
LEMMA SubmitRemoteFair ==
    ASSUME Shapes, Shapes', NEW m \in Messages, Fair(m), Heard \in Nat, Heard' = Heard, SubmitRemote
    PROVE  Fair(m)'
<1>1. PICK n \in Remote : Head(events) = <<"remote", n>> /\ n = Head(events)[2]
  <2>1. Head(events) \in Events /\ Head(events)[1] = "remote"
    BY EventTaken DEF SubmitRemote
  <2> QED
    BY <2>1, EventKinds
<1>2. n \in Messages /\ <<n>> \in Prompts /\ events # <<>>
  BY DEF SubmitRemote, Messages, Prompts
<1>3. PICK d \in Nat : d = IF n = m THEN 1 ELSE 0
  OBVIOUS
<1>4. /\ Tail(events) \in Seq(Events)
      /\ Load(events, m) = d + Load(Tail(events), m)
      /\ Waits(events, m) = Waits(Tail(events), m) + d
  <2>1. Says(Carried(Head(events)), m) = d /\ (Head(events) = <<"remote", m>> <=> n = m)
    BY <1>1, <1>3, CarriedBy DEF Says
  <2> QED
    BY <1>2, <1>3, <2>1, EventTaken DEF Waits, Load, Says
<1>5. Says(<<n>>, m) = d
  BY <1>2, <1>3, TimesOne DEF Says
<1> DEFINE mid == Append(Tail(events), <<"turn", <<n>> >>)
           stop == n \in Pausing /\ tui.running
<1>6. /\ mid \in Seq(Events) /\ Load(mid, m) = Load(Tail(events), m) + d
      /\ Waits(mid, m) = Waits(Tail(events), m)
  BY <1>2, <1>4, <1>5, OperationArrives
<1>7. events' \in {mid, Append(mid, <<"interrupt">>)}
  <2>1. events' = (Tail(events) \o << <<"turn", <<n>> >> >>)
                     \o (IF stop THEN << <<"interrupt">> >> ELSE <<>>)
    BY <1>1 DEF SubmitRemote
  <2>2. PICK e \in Events : e = <<"turn", <<n>> >>
    BY <1>2, EventKinds
  <2>3. PICK i \in Events : i = <<"interrupt">>
    BY EventKinds
  <2>4. Tail(events) \o <<e>> = Append(Tail(events), e)
    BY <1>4
  <2>5. mid = Append(Tail(events), e) /\ events' = mid \o (IF stop THEN <<i>> ELSE <<>>)
    BY <2>1, <2>2, <2>3, <2>4
  <2> HIDE DEF mid, stop
  <2>6. mid \o <<i>> = Append(mid, i) /\ mid \o <<>> = mid
    BY <1>6
  <2> QED
    BY <2>3, <2>5, <2>6
<1>8. /\ Load(events', m) = Load(mid, m)
      /\ Waits(events', m) = Waits(mid, m)
  BY <1>6, <1>7, OperationArrives
<1>9. /\ tui'.steers \in {tui.steers, Append(tui.steers, <<n>>)}
      /\ tui'.queued = tui.queued /\ tui'.composer = tui.composer
  <2>1. PICK w \in Widgets : w = Submitted(tui, <<n>>)
    BY <1>2, SubmittedType DEF Shapes
  <2>2. /\ w.queued = tui.queued /\ w.composer = tui.composer
        /\ w.steers \in {tui.steers, Append(tui.steers, <<n>>)}
    BY <1>2, <2>1, SubmittedType DEF Shapes
  <2>3. tui' = [w EXCEPT !.resubmit = @ \/ stop]
    BY <1>1, <2>1 DEF SubmitRemote
  <2> HIDE DEF stop
  <2>4. tui'.steers = w.steers /\ tui'.queued = w.queued /\ tui'.composer = w.composer
    BY <2>1, <2>3 DEF Widgets
  <2> QED
    BY <2>2, <2>4
<1> HIDE DEF mid, stop
<1>10. Numbers(m) /\ Numbers(m)'
  BY NumbersNow, NumbersNext
<1>11. Times(tui'.steers, m) <= Times(tui.steers, m) + d
  <2>1. Times(Append(tui.steers, <<n>>), m) = Times(tui.steers, m) + Says(<<n>>, m)
    BY <1>2, TimesAppend DEF Shapes, Widgets, Says
  <2>2. Times(tui.steers, m) \in Nat
    BY <1>10 DEF Numbers
  <2>3. CASE tui'.steers = tui.steers
    BY <2>2, <2>3
  <2>4. CASE tui'.steers = Append(tui.steers, <<n>>)
    BY <1>5, <2>1, <2>2, <2>4
  <2> QED
    BY <1>9, <2>3, <2>4
<1>12. /\ Times(tui'.queued, m) = Times(tui.queued, m)
       /\ Says(tui'.composer, m) = Says(tui.composer, m)
  BY <1>9
<1>13. core' = core /\ hist' = hist
  BY DEF SubmitRemote
<1>14. Origin(m)' = Origin(m) + 0
  BY <1>13, OriginKept
<1>15. Load(Tail(events), m) \in Nat /\ Waits(Tail(events), m) \in Nat
  BY <1>4, OperationArrives
<1>a. /\ Load(events, m) = d + Load(Tail(events), m) /\ Load(events', m) = Load(Tail(events), m) + d
      /\ Waits(events, m) = Waits(Tail(events), m) + d /\ Waits(events', m) = Waits(Tail(events), m)
  BY <1>4, <1>6, <1>8
<1>b. /\ Times(hist'.recorded, m) = Times(hist.recorded, m)
      /\ Times(core'.pending, m) = Times(core.pending, m) /\ Load(core'.subs, m) = Load(core.subs, m)
  BY <1>13
<1>c. /\ Times(tui.steers, m) \in Nat /\ Times(tui.queued, m) \in Nat /\ Says(tui.composer, m) \in Nat
      /\ Times(hist.recorded, m) \in Nat /\ Times(core.pending, m) \in Nat
      /\ Load(core.subs, m) \in Nat /\ Times(tui'.steers, m) \in Nat
  BY <1>10 DEF Numbers
<1>16. Waits(events', m) + Times(tui'.steers, m) + Times(tui'.queued, m)
               + Says(tui'.composer, m)
         <= Waits(events, m) + Times(tui.steers, m) + Times(tui.queued, m)
              + Says(tui.composer, m) + 0
  BY <1>11, <1>12, <1>15, <1>a, <1>c
<1>17. Times(hist'.recorded, m) + Times(core'.pending, m) + Load(core'.subs, m)
               + Load(events', m) + Times(tui'.queued, m) + Says(tui'.composer, m)
         <= Times(hist.recorded, m) + Times(core.pending, m) + Load(core.subs, m)
              + Load(events, m) + Times(tui.queued, m) + Says(tui.composer, m) + 0
  BY <1>12, <1>15, <1>a, <1>b, <1>c
<1> QED
  BY <1>14, <1>16, <1>17, FairMoved

(* An operation goes to the session.                                        *)
LEMMA SubmitTurnFair ==
    ASSUME Shapes, Shapes', NEW m \in Messages, Fair(m), Heard \in Nat, Heard' = Heard, SubmitTurn
    PROVE  Fair(m)'
<1>1. PICK p \in Prompts : p = Head(events)[2]
  BY OperationTaken DEF SubmitTurn
<1>2. /\ Tail(events) \in Seq(Events)
      /\ Load(events, m) = Says(p, m) + Load(Tail(events), m)
      /\ Waits(events, m) = Waits(Tail(events), m)
  BY <1>1, OperationTaken DEF SubmitTurn
<1>3. events' = Tail(events) /\ hist' = hist
  BY DEF SubmitTurn
<1>4. tui'.steers = tui.steers /\ tui'.queued = tui.queued /\ tui'.composer = tui.composer
  BY DEF SubmitTurn, Shapes, Widgets
<1>5. \/ core'.pending = Append(core.pending, p) /\ core'.subs = core.subs
      \/ core'.pending = core.pending /\ core'.subs = Append(core.subs, <<"input", p>>)
  BY <1>1 DEF SubmitTurn, Shapes, Sessions
<1>6. Numbers(m) /\ Numbers(m)' /\ Says(p, m) \in Nat
  BY NumbersNow, NumbersNext, TimesPrompt DEF Says
<1>7. Times(core'.pending, m) + Load(core'.subs, m)
        = Times(core.pending, m) + Load(core.subs, m) + Says(p, m)
  <2>1. Times(Append(core.pending, p), m) = Times(core.pending, m) + Says(p, m)
    BY TimesAppend DEF Shapes, Sessions, Says
  <2>2. Load(Append(core.subs, <<"input", p>>), m) = Load(core.subs, m) + Says(p, m)
    <3>1. PICK e \in Events \cup Subs : e = <<"input", p>>
      BY SubKinds
    <3>2. core.subs \in Seq(Events \cup Subs)
      BY DEF Shapes, Sessions
    <3>3. Load(Append(core.subs, e), m) = Load(core.subs, m) + Says(Carried(e), m)
      BY <3>2, LoadAppend DEF Load, Says
    <3>4. Carried(e) = p
      BY <3>1, CarriedBy
    <3> QED
      BY <3>1, <3>3, <3>4
  <2>3. Times(core.pending, m) \in Nat /\ Load(core.subs, m) \in Nat
    BY <1>6 DEF Numbers
  <2>4. CASE core'.pending = Append(core.pending, p) /\ core'.subs = core.subs
    BY <1>6, <2>1, <2>3, <2>4
  <2>5. CASE core'.pending = core.pending /\ core'.subs = Append(core.subs, <<"input", p>>)
    <3>1. /\ Load(core'.subs, m) = Load(core.subs, m) + Says(p, m)
          /\ Times(core'.pending, m) = Times(core.pending, m)
      BY <2>2, <2>5
    <3> QED
      BY <1>6, <2>3, <3>1
  <2> QED
    BY <1>5, <2>4, <2>5
<1>8. /\ Times(tui'.queued, m) = Times(tui.queued, m) /\ Times(tui'.steers, m) = Times(tui.steers, m)
      /\ Says(tui'.composer, m) = Says(tui.composer, m)
      /\ Times(hist'.recorded, m) = Times(hist.recorded, m)
      /\ Load(events, m) = Says(p, m) + Load(events', m) /\ Waits(events', m) = Waits(events, m)
  BY <1>2, <1>3, <1>4
<1>9. /\ Times(tui.queued, m) \in Nat /\ Times(tui.steers, m) \in Nat /\ Says(tui.composer, m) \in Nat
      /\ Times(hist.recorded, m) \in Nat /\ Waits(events, m) \in Nat /\ Load(events', m) \in Nat
      /\ Times(core.pending, m) \in Nat /\ Load(core.subs, m) \in Nat
      /\ Times(core'.pending, m) \in Nat /\ Load(core'.subs, m) \in Nat
  BY <1>6 DEF Numbers
<1>10. Waits(events', m) + Times(tui'.steers, m) + Times(tui'.queued, m) + Says(tui'.composer, m)
         <= Waits(events, m) + Times(tui.steers, m) + Times(tui.queued, m) + Says(tui.composer, m) + 0
  BY <1>8, <1>9
<1>11. Times(hist'.recorded, m) + Times(core'.pending, m) + Load(core'.subs, m)
               + Load(events', m) + Times(tui'.queued, m) + Says(tui'.composer, m)
         <= Times(hist.recorded, m) + Times(core.pending, m) + Load(core.subs, m)
              + Load(events, m) + Times(tui.queued, m) + Says(tui.composer, m) + 0
  BY <1>6, <1>7, <1>8, <1>9
<1>12. Origin(m)' = Origin(m) + 0
  BY <1>3, OriginKept
<1> QED
  BY <1>10, <1>11, <1>12, FairMoved

(* Interrupts carry no prompt.                                              *)
LEMMA SubmitInterruptFair ==
    ASSUME Shapes, Shapes', NEW m \in Messages, Fair(m), Heard \in Nat, Heard' = Heard, SubmitInterrupt
    PROVE  Fair(m)'
<1>1. events' = Tail(events) /\ hist' = hist /\ core' = core
  BY DEF SubmitInterrupt
<1>2. Load(events', m) = Load(events, m) /\ Waits(events', m) = Waits(events, m)
  BY <1>1, OperationTaken DEF SubmitInterrupt
<1>3. tui'.steers = tui.steers /\ tui'.queued = tui.queued /\ tui'.composer = tui.composer
  BY DEF SubmitInterrupt, Shapes, Widgets
<1>4. Numbers(m)
  BY NumbersNow
<1>5. Waits(events', m) + Times(tui'.steers, m) + Times(tui'.queued, m) + Says(tui'.composer, m)
        <= Waits(events, m) + Times(tui.steers, m) + Times(tui.queued, m) + Says(tui.composer, m)
  BY <1>2, <1>3, <1>4 DEF Numbers
<1>6. Load(events', m) + Times(tui'.queued, m) + Says(tui'.composer, m)
        <= Load(events, m) + Times(tui.queued, m) + Says(tui.composer, m)
  BY <1>2, <1>3, <1>4 DEF Numbers
<1> QED
  BY <1>1, <1>5, <1>6, FairWidget

LEMMA EscapeFair ==
    ASSUME Shapes, Shapes', NEW m \in Messages, Fair(m), Heard \in Nat, Heard' = Heard, Escape
    PROVE  Fair(m)'
<1>1. events' = Append(events, <<"interrupt">>) /\ core' = core
  BY DEF Escape
<1>2. Load(events', m) = Load(events, m) /\ Waits(events', m) = Waits(events, m)
  BY <1>1, OperationArrives DEF Shapes
<1>3. tui'.steers = tui.steers /\ tui'.queued = tui.queued /\ tui'.composer = tui.composer
  BY DEF Escape, Shapes, Widgets
<1>4. hist'.recorded = hist.recorded /\ hist'.claims = hist.claims /\ hist'.typed = hist.typed
  BY DEF Escape, Shapes, Histories
<1>5. Numbers(m)
  BY NumbersNow
<1>6. Waits(events', m) + Times(tui'.steers, m) + Times(tui'.queued, m) + Says(tui'.composer, m)
        <= Waits(events, m) + Times(tui.steers, m) + Times(tui.queued, m) + Says(tui.composer, m)
  BY <1>2, <1>3, <1>5 DEF Numbers
<1>7. Load(events', m) + Times(tui'.queued, m) + Says(tui'.composer, m)
        <= Load(events, m) + Times(tui.queued, m) + Says(tui.composer, m)
  BY <1>2, <1>3, <1>5 DEF Numbers
<1> QED
  BY <1>1, <1>4, <1>6, <1>7, FairWidget

LEMMA RequestInterruptFair ==
    ASSUME Shapes, Shapes', NEW m \in Messages, Fair(m), Heard \in Nat, Heard' = Heard, RequestInterrupt
    PROVE  Fair(m)'
<1>1. events' = events /\ hist' = hist
  BY DEF RequestInterrupt
<1>2. tui'.steers = tui.steers /\ tui'.queued = tui.queued /\ tui'.composer = tui.composer
  BY DEF RequestInterrupt, Shapes, Widgets
<1>3. core'.pending = core.pending /\ core'.subs \in {core.subs, Append(core.subs, <<"interrupt">>)}
  BY DEF RequestInterrupt, Shapes, Sessions
<1>4. Load(Append(core.subs, <<"interrupt">>), m) = Load(core.subs, m) + 0
  <2>1. PICK e \in Events \cup Subs : e = <<"interrupt">>
    BY SubKinds
  <2>2. core.subs \in Seq(Events \cup Subs)
    BY DEF Shapes, Sessions
  <2>3. Load(Append(core.subs, e), m) = Load(core.subs, m) + Says(Carried(e), m)
    BY <2>2, LoadAppend DEF Load, Says
  <2>4. Says(Carried(e), m) = 0
    BY <2>1, CarriedBy DEF Says
  <2> QED
    BY <2>1, <2>3, <2>4
<1>5. Times(hist.recorded, m) \in Nat /\ Times(core.pending, m) \in Nat /\ Load(core.subs, m) \in Nat
  BY NumbersNow DEF Numbers
<1>6. Load(core'.subs, m) = Load(core.subs, m)
  <2>1. Load(Append(core.subs, <<"interrupt">>), m) = Load(core.subs, m)
    BY <1>4, <1>5
  <2>2. core'.subs = core.subs \/ core'.subs = Append(core.subs, <<"interrupt">>)
    BY <1>3
  <2> QED
    BY <2>1, <2>2, Zenon
<1>7. Times(hist'.recorded, m) + Times(core'.pending, m) + Load(core'.subs, m)
        <= Times(hist.recorded, m) + Times(core.pending, m) + Load(core.subs, m)
  BY <1>1, <1>3, <1>5, <1>6
<1> QED
  BY <1>1, <1>2, <1>7, FairSession

(* The session takes a submission.                                          *)
LEMMA SubmissionTaken ==
    ASSUME Shapes, NEW m \in Messages, core.subs # <<>>
    PROVE  /\ Head(core.subs)[1] = "input" =>
                /\ Head(core.subs)[2] \in Prompts
                /\ Load(core.subs, m) = Says(Head(core.subs)[2], m) + Load(Tail(core.subs), m)
           /\ Load(Tail(core.subs), m) \in Nat /\ Load(Tail(core.subs), m) <= Load(core.subs, m)
<1>1. core.subs \in Seq(Subs) /\ core.subs \in Seq(Events \cup Subs)
  BY DEF Shapes, Sessions
<1>2. Head(core.subs) \in Subs /\ Tail(core.subs) \in Seq(Events \cup Subs)
  BY <1>1, Queues
<1>3. /\ Load(core.subs, m) = Says(Carried(Head(core.subs)), m) + Load(Tail(core.subs), m)
      /\ Carried(Head(core.subs)) \in Prompts
  BY <1>1, <1>2, LoadTail, CarriedType DEF Load, Says
<1>4. Load(Tail(core.subs), m) \in Nat /\ Says(Carried(Head(core.subs)), m) \in Nat
  <2>1. Carry(Tail(core.subs)) \in Seq(Prompts)
    BY <1>2, CarryType
  <2> QED
    BY <1>3, <2>1, TimesNat, TimesPrompt DEF Load, Says
<1>5. ASSUME Head(core.subs)[1] = "input"
      PROVE  Head(core.subs)[2] \in Prompts /\ Carried(Head(core.subs)) = Head(core.subs)[2]
  <2>1. Head(core.subs)[2] \in Prompts /\ Head(core.subs) = <<"input", Head(core.subs)[2]>>
    BY <1>2, <1>5, SubKinds
  <2> QED
    BY <2>1, CarriedBy, Zenon
<1> QED
  BY <1>3, <1>4, <1>5

LEMMA HandleInputFair ==
    ASSUME Shapes, Shapes', NEW m \in Messages, Fair(m), Heard \in Nat, Heard' = Heard, HandleInput
    PROVE  Fair(m)'
<1>1. events' = events /\ tui' = tui /\ hist' = hist
  BY DEF HandleInput
<1>2. PICK p \in Prompts : p = Head(core.subs)[2]
  BY SubmissionTaken DEF HandleInput
<1>3. /\ Load(core.subs, m) = Says(p, m) + Load(Tail(core.subs), m)
      /\ Load(Tail(core.subs), m) \in Nat
  BY <1>2, SubmissionTaken DEF HandleInput
<1>4. /\ core'.subs = Tail(core.subs)
      /\ core'.pending = Append(core.pending, p) \/ core'.pending = <<p>>
  BY <1>2 DEF HandleInput, Shapes, Sessions
<1>5. Times(Append(core.pending, p), m) = Times(core.pending, m) + Says(p, m)
  BY TimesAppend DEF Shapes, Sessions, Says
<1>6. Times(<<p>>, m) = Says(p, m) /\ Says(p, m) \in Nat
  BY TimesPrompt DEF Says
<1>7. Times(hist.recorded, m) \in Nat /\ Times(core.pending, m) \in Nat
  BY NumbersNow DEF Numbers
<1>8. Times(core'.pending, m) \in Nat /\ Times(core'.pending, m) <= Times(core.pending, m) + Says(p, m)
  <2>1. Times(core'.pending, m) = Times(core.pending, m) + Says(p, m)
        \/ Times(core'.pending, m) = Says(p, m)
    BY <1>4, <1>5, <1>6, Zenon
  <2> QED
    BY <1>6, <1>7, <2>1
<1>9. Load(core'.subs, m) = Load(Tail(core.subs), m) /\ Times(hist'.recorded, m) = Times(hist.recorded, m)
  BY <1>1, <1>4
<1>10. Times(hist'.recorded, m) + Times(core'.pending, m) + Load(core'.subs, m)
        <= Times(hist.recorded, m) + Times(core.pending, m) + Load(core.subs, m)
  BY <1>3, <1>6, <1>7, <1>8, <1>9
<1> QED
  BY <1>1, <1>10, FairSession

LEMMA HandleInterruptFair ==
    ASSUME Shapes, Shapes', NEW m \in Messages, Fair(m), Heard \in Nat, Heard' = Heard, HandleInterrupt
    PROVE  Fair(m)'
<1>1. events' = events /\ tui' = tui
  BY DEF HandleInterrupt
<1>2. hist'.recorded = hist.recorded /\ hist'.claims = hist.claims /\ hist'.typed = hist.typed
  BY DEF HandleInterrupt, Shapes, Histories
<1>3. core'.subs = Tail(core.subs) /\ (core'.pending = core.pending \/ core'.pending = <<>>)
  BY DEF HandleInterrupt, Shapes, Sessions
<1>4. Load(core'.subs, m) \in Nat /\ Load(core'.subs, m) <= Load(core.subs, m)
  BY <1>3, SubmissionTaken DEF HandleInterrupt
<1>5. /\ Times(hist.recorded, m) \in Nat /\ Times(core.pending, m) \in Nat
      /\ Load(core.subs, m) \in Nat
  BY NumbersNow DEF Numbers
<1>6. Times(core'.pending, m) \in Nat /\ Times(core'.pending, m) <= Times(core.pending, m)
  <2>1. Times(core'.pending, m) = Times(core.pending, m) \/ Times(core'.pending, m) = 0
    BY <1>3, TimesNone
  <2> QED
    BY <1>5, <2>1
<1>7. Times(hist'.recorded, m) = Times(hist.recorded, m)
  BY <1>2
<1>8. Times(hist'.recorded, m) + Times(core'.pending, m) + Load(core'.subs, m)
        <= Times(hist.recorded, m) + Times(core.pending, m) + Load(core.subs, m)
  BY <1>4, <1>5, <1>6, <1>7
<1> QED
  BY <1>1, <1>2, <1>8, FairSession

(* Recording moves a prompt from the pending ones to the record.            *)
LEMMA RecordInputFair ==
    ASSUME Shapes, Shapes', NEW m \in Messages, Fair(m), Heard \in Nat, Heard' = Heard, RecordInput
    PROVE  Fair(m)'
<1>1. events' = events /\ tui' = tui
  BY DEF RecordInput
<1>2. /\ core.pending \in Seq(Prompts) /\ core.pending # <<>> /\ hist.recorded \in Seq(Prompts)
      /\ hist' = Recorded(hist, <<Head(core.pending)>>)
  BY DEF RecordInput, Shapes, Sessions, Histories
<1>3. Head(core.pending) \in Prompts /\ <<Head(core.pending)>> \in Seq(Prompts)
  BY <1>2, Queues
<1>4. /\ hist'.recorded = hist.recorded \o <<Head(core.pending)>>
      /\ hist'.claims = hist.claims /\ hist'.typed = hist.typed
  BY <1>2 DEF Recorded, Shapes, Histories
<1>5. core'.subs = core.subs /\ core'.pending = Tail(core.pending)
  BY DEF RecordInput, Shapes, Sessions
<1>6. Times(hist'.recorded, m) = Times(hist.recorded, m) + Times(<<Head(core.pending)>>, m)
  BY <1>2, <1>3, <1>4, TimesConcat
<1>7. Times(core.pending, m) = Times(<<Head(core.pending)>>, m) + Times(core'.pending, m)
  BY <1>2, <1>5, TimesTail
<1>8. /\ Times(hist.recorded, m) \in Nat /\ Times(<<Head(core.pending)>>, m) \in Nat
      /\ Times(core'.pending, m) \in Nat /\ Load(core.subs, m) \in Nat
  BY <1>3, NumbersNow, NumbersNext, TimesNat DEF Numbers
<1>9. Load(core'.subs, m) = Load(core.subs, m)
  BY <1>5
<1>10. Times(hist'.recorded, m) + Times(core'.pending, m) + Load(core'.subs, m)
        <= Times(hist.recorded, m) + Times(core.pending, m) + Load(core.subs, m)
  BY <1>6, <1>7, <1>8, <1>9
<1> QED
  BY <1>1, <1>4, <1>10, FairSession

LEMMA EndTurnFair ==
    ASSUME Shapes, Shapes', NEW m \in Messages, Fair(m), Heard \in Nat, Heard' = Heard, EndTurn
    PROVE  Fair(m)'
<1>1. events' = events /\ tui' = tui
  BY DEF EndTurn
<1>2. /\ core.pending \in Seq(Prompts) /\ hist.recorded \in Seq(Prompts)
      /\ hist' = Recorded(hist, core.pending)
  BY DEF EndTurn, Shapes, Sessions, Histories
<1>3. /\ hist'.recorded = hist.recorded \o core.pending
      /\ hist'.claims = hist.claims /\ hist'.typed = hist.typed
  BY <1>2 DEF Recorded, Shapes, Histories
<1>4. core'.subs = core.subs /\ core'.pending = <<>>
  BY DEF EndTurn, Shapes, Sessions
<1>5. Times(hist'.recorded, m) = Times(hist.recorded, m) + Times(core.pending, m)
  BY <1>2, <1>3, TimesConcat
<1>6. Times(core'.pending, m) = 0 /\ Load(core'.subs, m) = Load(core.subs, m)
  BY <1>4, TimesNone
<1>7. /\ Times(hist.recorded, m) \in Nat /\ Times(core.pending, m) \in Nat
      /\ Load(core.subs, m) \in Nat
  BY NumbersNow DEF Numbers
<1>8. Times(hist'.recorded, m) + Times(core'.pending, m) + Load(core'.subs, m)
        <= Times(hist.recorded, m) + Times(core.pending, m) + Load(core.subs, m)
  BY <1>5, <1>6, <1>7
<1> QED
  BY <1>1, <1>3, <1>8, FairSession
(* The widget hears of a recorded prompt: a steer may be done with.         *)
LEMMA HandleUserMessageFair ==
    ASSUME Shapes, Shapes', NEW m \in Messages, Fair(m), Heard \in Nat, Heard' = Heard,
           HandleUserMessage
    PROVE  Fair(m)'
<1>1. events' = events /\ core' = core /\ hist' = hist
  BY DEF HandleUserMessage
<1>2. /\ tui'.queued = tui.queued /\ tui'.composer = tui.composer
      /\ tui'.steers = tui.steers \/ (tui.steers # <<>> /\ tui'.steers = Tail(tui.steers))
  BY DEF HandleUserMessage, Shapes, Widgets
<1>3. /\ Times(tui.steers, m) \in Nat /\ Times(tui.queued, m) \in Nat /\ Says(tui.composer, m) \in Nat
      /\ Waits(events, m) \in Nat /\ Load(events, m) \in Nat /\ Times(tui'.steers, m) \in Nat
  BY NumbersNow, NumbersNext DEF Numbers
<1>4. Times(tui'.steers, m) <= Times(tui.steers, m)
  <2>1. CASE tui'.steers = tui.steers
    BY <1>3, <2>1
  <2>2. CASE tui.steers # <<>> /\ tui'.steers = Tail(tui.steers)
    <3>1. tui.steers \in Seq(Prompts)
      BY DEF Shapes, Widgets
    <3>2. Times(tui.steers, m) = Times(<<Head(tui.steers)>>, m) + Times(Tail(tui.steers), m)
      BY <2>2, <3>1, TimesTail
    <3>3. Head(tui.steers) \in Prompts
      BY <2>2, <3>1, Queues
    <3>4. Times(<<Head(tui.steers)>>, m) \in Nat
      BY <3>3, TimesPrompt
    <3>5. Times(tui.steers, m) = Times(<<Head(tui.steers)>>, m) + Times(tui'.steers, m)
      BY <2>2, <3>2
    <3> QED
      BY <1>3, <3>4, <3>5
  <2> QED
    BY <1>2, <2>1, <2>2
<1>5. /\ Times(tui'.queued, m) = Times(tui.queued, m) /\ Says(tui'.composer, m) = Says(tui.composer, m)
      /\ Waits(events', m) = Waits(events, m) /\ Load(events', m) = Load(events, m)
  BY <1>1, <1>2
<1>6. Waits(events', m) + Times(tui'.steers, m) + Times(tui'.queued, m) + Says(tui'.composer, m)
        <= Waits(events, m) + Times(tui.steers, m) + Times(tui.queued, m) + Says(tui.composer, m)
  BY <1>3, <1>4, <1>5
<1>7. Load(events', m) + Times(tui'.queued, m) + Says(tui'.composer, m)
        <= Load(events, m) + Times(tui.queued, m) + Says(tui.composer, m)
  BY <1>3, <1>5
<1> QED
  BY <1>1, <1>6, <1>7, FairWidget

(* The turn has ended: a queued prompt becomes a turn.                      *)
LEMMA HandleEndedFair ==
    ASSUME Shapes, Shapes', NEW m \in Messages, Fair(m), Heard \in Nat, Heard' = Heard, HandleEnded
    PROVE  Fair(m)'
<1>1. core' = core /\ hist' = hist
  BY DEF HandleEnded
<1>2. CASE tui.queued = <<>>
  <2>1. /\ events' = events /\ tui'.queued = tui.queued /\ tui'.composer = tui.composer
        /\ tui'.steers = tui.steers
    BY <1>2, IdleType DEF HandleEnded
  <2> QED
    BY <1>1, <2>1, FairAside
<1>3. CASE tui.queued # <<>>
  <2>1. PICK p \in Prompts : p = Head(tui.queued)
    BY <1>3, Queues DEF Shapes, Widgets
  <2>2. PICK w \in Widgets : w = Submitted(Idle, p)
    BY IdleType, SubmittedType
  <2>3. w.queued = tui.queued /\ w.composer = tui.composer /\ w.steers = tui.steers
    BY <2>2, IdleType, SubmittedType
  <2>4. tui' = [w EXCEPT !.queued = Tail(@)] /\ events' = Append(events, <<"turn", p>>)
    BY <1>3, <2>1, <2>2 DEF HandleEnded
  <2>5. tui'.queued = Tail(tui.queued) /\ tui'.composer = tui.composer /\ tui'.steers = tui.steers
    BY <2>3, <2>4 DEF Widgets
  <2>6. Load(events', m) = Load(events, m) + Says(p, m) /\ Waits(events', m) = Waits(events, m)
    BY <2>4, OperationArrives DEF Shapes
  <2>7. Times(tui.queued, m) = Says(p, m) + Times(tui'.queued, m)
    BY <1>3, <2>1, <2>5, TimesTail DEF Shapes, Widgets, Says
  <2>8. Says(tui'.composer, m) = Says(tui.composer, m) /\ Times(tui'.steers, m) = Times(tui.steers, m)
    BY <2>5
  <2>9. /\ Times(tui.steers, m) \in Nat /\ Times(tui'.queued, m) \in Nat /\ Says(tui.composer, m) \in Nat
        /\ Waits(events, m) \in Nat /\ Load(events, m) \in Nat /\ Says(p, m) \in Nat
    BY NumbersNow, NumbersNext, TimesPrompt DEF Numbers, Says
  <2>10. Waits(events', m) + Times(tui'.steers, m) + Times(tui'.queued, m) + Says(tui'.composer, m)
           <= Waits(events, m) + Times(tui.steers, m) + Times(tui.queued, m) + Says(tui.composer, m)
    BY <2>6, <2>7, <2>8, <2>9
  <2>11. Load(events', m) + Times(tui'.queued, m) + Says(tui'.composer, m)
           <= Load(events, m) + Times(tui.queued, m) + Says(tui.composer, m)
    BY <2>6, <2>7, <2>8, <2>9
  <2> QED
    BY <1>1, <2>10, <2>11, FairWidget
<1> QED
  BY <1>2, <1>3

(* A prompt is typed, and joined to what the composer holds.                *)
LEMMA EnterFair ==
    ASSUME Shapes, Shapes', NEW m \in Messages, Fair(m), Heard \in Nat, Heard' = Heard,
           NEW p \in Local, Enter(p)
    PROVE  Fair(m)'
<1>1. /\ p \in Messages /\ <<p>> \in Prompts /\ tui.composer \in Prompts
      /\ <<>> \in Prompts /\ core' = core
  BY DEF Enter, Messages, Prompts, Shapes, Widgets
<1>2. PICK d \in Nat : d = IF p = m THEN 1 ELSE 0
  OBVIOUS
<1>3. PICK prompt \in Prompts : prompt = tui.composer \o <<p>>
  BY <1>1, TimesJoin
<1>4. Says(prompt, m) = Says(tui.composer, m) + d
  <2>1. Says(<<p>>, m) = d
    BY <1>1, <1>2, TimesOne DEF Says
  <2>2. Says(prompt, m) = Says(tui.composer, m) + Says(<<p>>, m)
    <3>1. PICK r \in Prompts : r = <<p>>
      BY <1>1
    <3>2. prompt = tui.composer \o r
      BY <1>3, <3>1
    <3>3. PICK c \in Prompts : c = tui.composer
      BY <1>1
    <3>4. prompt = c \o r
      BY <3>2, <3>3
    <3>5. Count(prompt, {m}) = Count(c, {m}) + Count(r, {m})
      BY <3>4, CountConcat DEF Prompts
    <3>6. /\ Says(prompt, m) = Count(prompt, {m}) /\ Says(c, m) = Count(c, {m})
          /\ Says(r, m) = Count(r, {m})
      BY TimesPrompt DEF Says
    <3>7. Says(prompt, m) = Says(c, m) + Says(r, m)
      BY <3>5, <3>6
    <3> QED
      BY <3>1, <3>3, <3>7
  <2> QED
    BY <2>1, <2>2
<1>5. /\ hist'.recorded = hist.recorded /\ hist'.claims = hist.claims
      /\ hist'.typed = hist.typed \cup {p} /\ p \notin hist.typed
  BY DEF Enter, Shapes, Histories
<1>6. Origin(m)' = Origin(m) + d
  <2>1. p \notin Remote
    BY ChatAssumption
  <2>2. Origin(m) \in Nat
    BY CopiesParts
  <2>3. CASE m = p
    BY <1>2, <1>5, <2>1, <2>3 DEF Origin
  <2>4. CASE m # p
    <3>1. Origin(m)' = Origin(m)
      BY <1>5, <2>4 DEF Origin
    <3> QED
      BY <1>2, <2>2, <2>4, <3>1
  <2> QED
    BY <2>3, <2>4
<1>7. PICK w \in Widgets :
        /\ w = [tui EXCEPT !.composer = <<>>] /\ w.composer = <<>> /\ w.queued = tui.queued
        /\ w.steers = tui.steers
  <2>1. PICK none \in Prompts : none = <<>>
    BY <1>1
  <2>2. /\ [tui EXCEPT !.composer = none] \in Widgets
        /\ [tui EXCEPT !.composer = none].composer = none
        /\ [tui EXCEPT !.composer = none].queued = tui.queued
        /\ [tui EXCEPT !.composer = none].steers = tui.steers
    BY DEF Shapes, Widgets
  <2> QED
    BY <2>1, <2>2
<1>8. tui.queued \in Seq(Prompts) /\ tui.steers \in Seq(Prompts) /\ events \in Seq(Events)
  BY DEF Shapes, Widgets
<1>9. Says(<<>>, m) = 0
  <2>1. Says(<<>>, m) = Count(<<>>, {m})
    BY <1>1, TimesPrompt DEF Says
  <2> QED
    BY <2>1, CountOne
<1>10. /\ Times(tui.steers, m) \in Nat /\ Times(tui.queued, m) \in Nat /\ Says(tui.composer, m) \in Nat
       /\ Waits(events, m) \in Nat /\ Load(events, m) \in Nat
       /\ Times(hist.recorded, m) \in Nat /\ Times(core.pending, m) \in Nat /\ Load(core.subs, m) \in Nat
  BY NumbersNow DEF Numbers
<1>11. /\ Times(hist'.recorded, m) = Times(hist.recorded, m)
       /\ Times(core'.pending, m) = Times(core.pending, m) /\ Load(core'.subs, m) = Load(core.subs, m)
  BY <1>1, <1>5
<1>12. /\ tui'.composer = <<>>
       /\ \/ /\ tui'.queued = Append(tui.queued, prompt) /\ tui'.steers = tui.steers /\ events' = events
          \/ /\ tui'.queued = tui.queued /\ events' = Append(events, <<"turn", prompt>>)
             /\ tui'.steers = tui.steers \/ tui'.steers = Append(tui.steers, prompt)
  <2>1. CASE tui.starting /\ ~tui.running
    <3>1. tui' = [w EXCEPT !.queued = Append(@, prompt)] /\ events' = events
      BY <1>3, <1>7, <2>1 DEF Enter
    <3>2. Append(tui.queued, prompt) \in Seq(Prompts)
      BY <1>8, Queues
    <3>3. tui'.queued = Append(tui.queued, prompt) /\ tui'.steers = w.steers /\ tui'.composer = w.composer
      BY <1>7, <3>1 DEF Widgets
    <3> QED
      BY <1>7, <3>1, <3>3
  <2>2. CASE ~(tui.starting /\ ~tui.running)
    <3>1. tui' = Submitted(w, prompt) /\ events' = Append(events, <<"turn", prompt>>)
      BY <1>3, <1>7, <2>2 DEF Enter
    <3>2. /\ Submitted(w, prompt).queued = w.queued /\ Submitted(w, prompt).composer = w.composer
          /\ Submitted(w, prompt).steers \in {w.steers, Append(w.steers, prompt)}
      BY SubmittedType
    <3> QED
      BY <1>7, <3>1, <3>2, Zenon
  <2> QED
    BY <2>1, <2>2
<1>13. Says(tui'.composer, m) = 0
  BY <1>9, <1>12
<1>14. CASE tui'.queued = Append(tui.queued, prompt) /\ tui'.steers = tui.steers /\ events' = events
  <2>1. Times(tui'.queued, m) = Times(tui.queued, m) + Says(prompt, m)
    BY <1>8, <1>14, TimesAppend DEF Says
  <2>2. /\ Times(tui'.steers, m) = Times(tui.steers, m) /\ Load(events', m) = Load(events, m)
        /\ Waits(events', m) = Waits(events, m)
    BY <1>14
  <2>3. Waits(events', m) + Times(tui'.steers, m) + Times(tui'.queued, m) + Says(tui'.composer, m)
          <= Waits(events, m) + Times(tui.steers, m) + Times(tui.queued, m) + Says(tui.composer, m) + d
    BY <1>4, <1>10, <1>13, <2>1, <2>2
  <2>4. Times(hist'.recorded, m) + Times(core'.pending, m) + Load(core'.subs, m)
               + Load(events', m) + Times(tui'.queued, m) + Says(tui'.composer, m)
         <= Times(hist.recorded, m) + Times(core.pending, m) + Load(core.subs, m)
              + Load(events, m) + Times(tui.queued, m) + Says(tui.composer, m) + d
    BY <1>4, <1>10, <1>11, <1>13, <2>1, <2>2
  <2> QED
    BY <1>6, <2>3, <2>4, FairMoved
<1>15. CASE /\ tui'.queued = tui.queued /\ events' = Append(events, <<"turn", prompt>>)
            /\ tui'.steers = tui.steers \/ tui'.steers = Append(tui.steers, prompt)
  <2>1. Load(events', m) = Load(events, m) + Says(prompt, m) /\ Waits(events', m) = Waits(events, m)
    BY <1>8, <1>15, OperationArrives
  <2>2. Times(tui'.queued, m) = Times(tui.queued, m)
    BY <1>15
  <2>3. Says(prompt, m) \in Nat
    BY TimesPrompt DEF Says
  <2>4. Times(tui'.steers, m) \in Nat /\ Times(tui'.steers, m) <= Times(tui.steers, m) + Says(prompt, m)
    <3>1. Times(Append(tui.steers, prompt), m) = Times(tui.steers, m) + Says(prompt, m)
      BY <1>8, TimesAppend DEF Says
    <3>2. \/ Times(tui'.steers, m) = Times(tui.steers, m)
          \/ Times(tui'.steers, m) = Times(tui.steers, m) + Says(prompt, m)
      BY <1>15, <3>1, Zenon
    <3> QED
      BY <1>10, <2>3, <3>2
  <2>5. Waits(events', m) + Times(tui'.steers, m) + Times(tui'.queued, m) + Says(tui'.composer, m)
          <= Waits(events, m) + Times(tui.steers, m) + Times(tui.queued, m) + Says(tui.composer, m) + d
    BY <1>4, <1>10, <1>13, <2>1, <2>2, <2>4
  <2>6. Times(hist'.recorded, m) + Times(core'.pending, m) + Load(core'.subs, m)
               + Load(events', m) + Times(tui'.queued, m) + Says(tui'.composer, m)
         <= Times(hist.recorded, m) + Times(core.pending, m) + Load(core.subs, m)
              + Load(events, m) + Times(tui.queued, m) + Says(tui.composer, m) + d
    BY <1>4, <1>10, <1>11, <1>13, <2>1, <2>2
  <2> QED
    BY <1>6, <2>5, <2>6, FairMoved
<1> QED
  BY <1>12, <1>14, <1>15
(* What an interrupted turn leaves to the user says what was waiting.       *)
LEMMA RestoredSays ==
    ASSUME Shapes, NEW m \in Messages
    PROVE  Says(Restored, m) = Times(tui.steers, m) + Times(tui.queued, m) + Says(tui.composer, m)
<1>1. tui.steers \in Seq(Prompts) /\ tui.queued \in Seq(Prompts) /\ tui.composer \in Prompts
  BY DEF Shapes, Widgets
<1>2. PICK q \in Seq(Prompts) : q = tui.steers \o tui.queued
  BY <1>1, Queues
<1>3. PICK p \in Prompts : p = FlattenSeq(q)
  BY TimesFlatten
<1>4. PICK c \in Prompts : c = tui.composer
  BY <1>1
<1>5. PICK r \in Prompts : r = Restored
  BY RestoredType
<1>6. r = p \o c
  BY <1>2, <1>3, <1>4, <1>5 DEF Restored
<1>7. Count(r, {m}) = Count(p, {m}) + Count(c, {m})
  BY <1>6, CountConcat DEF Prompts
<1>8. Says(r, m) = Says(p, m) + Says(c, m)
  BY <1>7, TimesPrompt DEF Says
<1>9. Says(p, m) = Times(q, m)
  BY <1>3, TimesFlatten DEF Says
<1>10. Times(q, m) = Times(tui.steers, m) + Times(tui.queued, m)
  BY <1>1, <1>2, TimesConcat
<1> QED
  BY <1>4, <1>5, <1>8, <1>9, <1>10

(* The widget hears of an interrupted turn: it submits its steers again, or *)
(* gives them back to the composer.                                         *)
LEMMA HandleInterruptedFair ==
    ASSUME Shapes, Shapes', NEW m \in Messages, Fair(m), Heard \in Nat, Heard' = Heard + 1,
           HandleInterrupted
    PROVE  Fair(m)'
<1>1. core' = core /\ hist' = hist
  BY DEF HandleInterrupted
<1>2. /\ Times(tui.steers, m) \in Nat /\ Times(tui.queued, m) \in Nat /\ Says(tui.composer, m) \in Nat
      /\ Waits(events, m) \in Nat /\ Load(events, m) \in Nat
      /\ Times(hist.recorded, m) \in Nat /\ Times(core.pending, m) \in Nat /\ Load(core.subs, m) \in Nat
  BY NumbersNow DEF Numbers
<1>3. /\ Times(tui'.steers, m) \in Nat /\ Times(tui'.queued, m) \in Nat /\ Says(tui'.composer, m) \in Nat
      /\ Waits(events', m) \in Nat /\ Load(events', m) \in Nat
  BY NumbersNext DEF Numbers
<1>4. /\ Waits(events', m) + Times(tui'.steers, m) + Times(tui'.queued, m) + Says(tui'.composer, m)
           <= Waits(events, m) + Times(tui.steers, m) + Times(tui.queued, m) + Says(tui.composer, m)
      /\ Load(events', m) + Times(tui'.queued, m) + Says(tui'.composer, m)
           <= Load(events, m) + Times(tui.queued, m) + Says(tui.composer, m) + Times(tui.steers, m)
  <2>1. CASE tui.resubmit /\ tui.steers # <<>>
    <3>1. PICK p \in Prompts : p = FlattenSeq(tui.steers)
      BY TimesFlatten DEF Shapes, Widgets
    <3>2. PICK w \in Widgets : w = [Idle EXCEPT !.steers = <<>>]
      BY <3>1, IdleType, Emptied
    <3>3. w.steers = <<>> /\ w.queued = tui.queued /\ w.composer = tui.composer /\ ~w.running
      BY <3>2, IdleType DEF Widgets
    <3>4. tui' = Submitted(w, p) /\ events' = Append(events, <<"turn", p>>)
      BY <2>1, <3>1, <3>2 DEF HandleInterrupted
    <3>5. tui'.steers = <<>> /\ tui'.queued = tui.queued /\ tui'.composer = tui.composer
      BY <3>3, <3>4, SubmittedType
    <3>6. Says(p, m) = Times(tui.steers, m)
      BY <3>1, TimesFlatten DEF Shapes, Widgets, Says
    <3>7. Load(events', m) = Load(events, m) + Says(p, m) /\ Waits(events', m) = Waits(events, m)
      BY <3>4, OperationArrives DEF Shapes
    <3>8. /\ Times(tui'.steers, m) = 0 /\ Times(tui'.queued, m) = Times(tui.queued, m)
          /\ Says(tui'.composer, m) = Says(tui.composer, m)
      BY <3>5, TimesNone
    <3> QED
      BY <1>2, <3>6, <3>7, <3>8
  <2>2. CASE ~(tui.resubmit /\ tui.steers # <<>>)
    <3>1. /\ tui' = [Idle EXCEPT !.steers = <<>>, !.queued = <<>>, !.composer = Restored]
          /\ events' = events
      BY <2>2 DEF HandleInterrupted
    <3>2. tui'.steers = <<>> /\ tui'.queued = <<>> /\ tui'.composer = Restored
      BY <3>1, IdleType DEF Widgets
    <3>3. Times(tui'.steers, m) = 0 /\ Times(tui'.queued, m) = 0
      BY <3>2, TimesNone
    <3>4. Says(tui'.composer, m) = Times(tui.steers, m) + Times(tui.queued, m) + Says(tui.composer, m)
      BY <3>2, RestoredSays
    <3>5. Waits(events', m) = Waits(events, m) /\ Load(events', m) = Load(events, m)
      BY <3>1
    <3> QED
      BY <1>2, <3>3, <3>4, <3>5
  <2> QED
    BY <2>1, <2>2
<1>5. /\ Held(m) = Waits(events, m) + Times(tui.steers, m) + Times(tui.queued, m) + Says(tui.composer, m)
      /\ Held(m)' = Waits(events', m) + Times(tui'.steers, m) + Times(tui'.queued, m)
                      + Says(tui'.composer, m)
  BY DEF Held, Waits, Says
<1>6. Copies(m) = Times(hist.recorded, m) + Times(core.pending, m) + Load(core.subs, m)
                    + Load(events, m) + Times(tui.queued, m) + Says(tui.composer, m)
  BY DEF Copies, Load, Says
<1>7. Copies(m)' = Times(hist.recorded, m) + Times(core.pending, m) + Load(core.subs, m)
                     + Load(events', m) + Times(tui'.queued, m) + Says(tui'.composer, m)
  BY <1>1 DEF Copies, Load, Says
<1>8. Held(m)' <= Held(m) /\ Held(m)' \in Nat /\ Held(m) \in Nat
  BY <1>2, <1>3, <1>4, <1>5
<1>9. Copies(m)' \in Nat /\ Copies(m)' <= Copies(m) + Times(tui.steers, m) /\ Copies(m) \in Nat
  BY <1>2, <1>3, <1>4, <1>6, <1>7
<1>10. Times(tui.steers, m) <= Held(m)
  BY <1>2, <1>5
<1>11. Origin(m)' = Origin(m) /\ Origin(m) \in Nat
  BY <1>1, CopiesParts DEF Origin
<1>12. Held(m) <= Origin(m) /\ Copies(m) <= Origin(m) * (1 + Heard)
  BY DEF Fair
<1>13. Copies(m)' <= Copies(m) + Held(m)
  BY <1>2, <1>8, <1>9, <1>10
<1>14. Copies(m)' <= Origin(m) * (1 + (Heard + 1))
  BY <1>8, <1>9, <1>11, <1>12, <1>13, OneMoreRound
<1>15. Held(m)' <= Origin(m)
  BY <1>8, <1>11, <1>12
<1> QED
  BY <1>11, <1>14, <1>15 DEF Fair
LEMMA NextFair ==
    ASSUME TypeInv, NEW m \in Messages, Fair(m), Heard \in Nat, Next, ~HandleInterrupted,
           Heard' = Heard
    PROVE  Fair(m)'
<1>1. Shapes /\ Shapes'
  BY NextShapes DEF TypeInv
<1>2. CASE \/ \E n \in Remote : Post(n)
           \/ LoadClaim \/ Receive \/ Skip \/ LoadCommand \/ SaveCommand \/ KillCommand
  BY <1>1, <1>2, StoreFair
<1>3. CASE Route \/ HandleStarted \/ HandleAgentMessage \/ Speak
  BY <1>1, <1>3, QuietFair
<1>4. CASE SaveClaim
  BY <1>1, <1>4, SaveClaimFair
<1>5. CASE SubmitRemote \/ SubmitTurn \/ SubmitInterrupt
  BY <1>1, <1>5, SubmitRemoteFair, SubmitTurnFair, SubmitInterruptFair
<1>6. CASE RequestInterrupt \/ Escape
  BY <1>1, <1>6, RequestInterruptFair, EscapeFair
<1>7. CASE HandleUserMessage \/ HandleEnded
  BY <1>1, <1>7, HandleUserMessageFair, HandleEndedFair
<1>8. CASE HandleInput \/ HandleInterrupt
  BY <1>1, <1>8, HandleInputFair, HandleInterruptFair
<1>9. CASE RecordInput \/ EndTurn
  BY <1>1, <1>9, RecordInputFair, EndTurnFair
<1>10. CASE \E p \in Local : Enter(p)
  BY <1>1, <1>10, EnterFair
<1> QED
  BY <1>2, <1>3, <1>4, <1>5, <1>6, <1>7, <1>8, <1>9, <1>10
     DEF Next, Bridge, Loop, Widget, Session

LEMMA CopiesStep == TypeInv /\ CopiesInv /\ [Next]_vars => CopiesInv'
<1> SUFFICES ASSUME TypeInv, CopiesInv, [Next]_vars PROVE CopiesInv'
  OBVIOUS
<1>1. Unheard <= hist.interrupts /\ \A m \in Messages : Fair(m)
  BY DEF CopiesInv, Fair
<1>2. Heard \in Nat
  BY <1>1, UnheardParts DEF TypeInv, Heard
<1>3. CASE UNCHANGED vars
  BY <1>3 DEF vars, CopiesInv, Unheard, Heard, Held, Copies, Origin
<1>4. CASE HandleInterrupted
  <2>1. Next /\ Shapes
    BY <1>4 DEF Next, Widget, TypeInv
  <2>2. Shapes'
    BY <2>1, NextShapes
  <2>3. Unheard' <= hist'.interrupts /\ Heard' = Heard + 1
    BY <1>1, <1>4, HeardMore
  <2>4. ASSUME NEW m \in Messages PROVE Fair(m)'
    BY <1>1, <1>2, <1>4, <2>1, <2>2, <2>3, HandleInterruptedFair
  <2> QED
    BY <2>3, <2>4 DEF CopiesInv, Fair
<1>5. CASE Next /\ ~HandleInterrupted
  <2>1. Unheard' <= hist'.interrupts /\ Heard' = Heard
    BY <1>1, <1>5, HeardKept
  <2>2. ASSUME NEW m \in Messages PROVE Fair(m)'
    BY <1>1, <1>2, <1>5, <2>1, NextFair
  <2> QED
    BY <2>1, <2>2 DEF CopiesInv, Fair
<1> QED
  BY <1>3, <1>4, <1>5

LEMMA InitCopies == Init => CopiesInv
<1> SUFFICES ASSUME Init PROVE CopiesInv
  OBVIOUS
<1>1. Unheard = 0 /\ hist.interrupts = 0
  <2>1. notes = <<>> /\ chan = <<>> /\ hist.interrupts = 0
    BY DEF Init
  <2>2. Count(notes, Cuts) = 0 /\ Count(chan, Cuts) = 0
    BY <2>1, CountOne
  <2> QED
    BY <2>1, <2>2 DEF Unheard, Cuts
<1>2. ASSUME NEW m \in Messages PROVE Held(m) = 0 /\ Copies(m) = 0 /\ Origin(m) = 0
  <2>1. events = <<>> /\ Carry(<<>>) = <<>>
    BY DEF Init, Carry
  <2>2. Count(events, {<<"remote", m>>}) = 0 /\ Times(Carry(events), m) = 0
    BY <2>1, CountOne, TimesNone
  <2>3. Times(<< <<>> >>, m) = 0
    <3>1. <<>> \in Prompts
      BY DEF Prompts
    <3>2. Times(<< <<>> >>, m) = Count(<<>>, {m})
      BY <3>1, TimesPrompt
    <3> QED
      BY <3>2, CountOne
  <2>4. /\ tui.steers = <<>> /\ tui.queued = <<>> /\ tui.composer = <<>>
        /\ hist.recorded = <<>> /\ core.pending = <<>> /\ core.subs = <<>>
    BY DEF Init
  <2>5. /\ Times(tui.steers, m) = 0 /\ Times(tui.queued, m) = 0 /\ Times(<<tui.composer>>, m) = 0
        /\ Times(hist.recorded, m) = 0 /\ Times(core.pending, m) = 0
        /\ Times(Carry(core.subs), m) = 0
    BY <2>1, <2>3, <2>4, TimesNone
  <2>6. Held(m) = 0 /\ Copies(m) = 0
    BY <2>2, <2>5 DEF Held, Copies
  <2>7. Origin(m) = 0
    BY DEF Init, Origin
  <2> QED
    BY <2>6, <2>7
<1> QED
  BY <1>1, <1>2 DEF CopiesInv, Heard

LEMMA Products ==
    ASSUME NEW a \in Nat, NEW b \in Nat, NEW c \in Nat, NEW d \in Nat, a <= b, c <= d
    PROVE  a * c <= b * d
<1>1. PICK x \in Nat : b = a + x
  <2>1. b - a \in Nat /\ b = a + (b - a)
    OBVIOUS
  <2> QED
    BY <2>1
<1>2. PICK y \in Nat : d = c + y
  <2>1. d - c \in Nat /\ d = c + (d - c)
    OBVIOUS
  <2> QED
    BY <2>1
<1>3. b * d = a * c + (a * y + x * c + x * y)
  BY <1>1, <1>2
<1>4. a * c \in Nat /\ a * y \in Nat /\ x * c \in Nat /\ x * y \in Nat
  OBVIOUS
<1> QED
  BY <1>3, <1>4

(* RecordedOnce: the agent records a message no more often than it was      *)
(* handed to the widget, times one more than the interrupted turns.  Copies *)
(* appear only where on_interrupted_turn submits again what the widget      *)
(* holds, and the widget holds a message at most as often as it was handed  *)
(* over.                                                                    *)
THEOREM RecordedTheorem == Spec => []RecordedOnce
<1>1. TypeInv /\ CopiesInv => RecordedOnce
  <2> SUFFICES ASSUME TypeInv, CopiesInv, NEW m \in Messages
               PROVE  Times(hist.recorded, m)
                        <= (IF m \in Remote THEN hist.claims[m] ELSE 1) * (1 + hist.interrupts)
    BY DEF RecordedOnce
  <2> DEFINE bound == IF m \in Remote THEN hist.claims[m] ELSE 1
  <2>1. Shapes /\ Unheard <= hist.interrupts /\ Copies(m) <= Origin(m) * (1 + Heard)
    BY DEF TypeInv, CopiesInv
  <2>2. Heard \in Nat /\ Heard <= hist.interrupts /\ hist.interrupts \in Nat
    BY <2>1, UnheardParts DEF Heard
  <2>3. bound \in Nat /\ Origin(m) \in Nat /\ Origin(m) <= bound
    BY <2>1 DEF Origin, Shapes, Histories
  <2>4. Times(hist.recorded, m) \in Nat /\ Times(hist.recorded, m) <= Copies(m)
    <3>1. /\ Times(hist.recorded, m) \in Nat /\ Times(core.pending, m) \in Nat
          /\ Times(Carry(core.subs), m) \in Nat /\ Times(Carry(events), m) \in Nat
          /\ Times(tui.queued, m) \in Nat /\ Times(<<tui.composer>>, m) \in Nat
      BY <2>1, CopiesParts
    <3> QED
      BY <3>1 DEF Copies
  <2> HIDE DEF bound
  <2>5. PICK h \in Nat, i \in Nat : h = 1 + Heard /\ i = 1 + hist.interrupts /\ h <= i
    BY <2>2
  <2>6. Origin(m) * h <= bound * i
    BY <2>3, <2>5, Products
  <2>7. Copies(m) \in Nat /\ Origin(m) * h \in Nat /\ bound * i \in Nat
    <3>1. Copies(m) \in Nat
      BY <2>1, CopiesParts
    <3>2. \A a, b \in Nat : a * b \in Nat
      OBVIOUS
    <3> QED
      BY <2>3, <2>5, <3>1, <3>2
  <2>8. Copies(m) <= Origin(m) * h
    BY <2>1, <2>5
  <2>9. Times(hist.recorded, m) <= bound * i
    BY <2>4, <2>6, <2>7, <2>8
  <2> QED
    BY <2>5, <2>9 DEF bound
<1> QED
  BY <1>1, InitCopies, CopiesStep, BridgeTypes, PTL DEF Spec
=============================================================================

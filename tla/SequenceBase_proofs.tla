------------------------ MODULE SequenceBase_proofs -------------------------
(***************************************************************************)
(* What both batch schedulers rest on: sums over sequences, lists of ids,  *)
(* the blocks a request needs, the fields of a Sequence object from        *)
(* enqueue() to its retirement, and what an answer says.                   *)
(***************************************************************************)
EXTENDS SequenceBase, SequenceTheorems, FiniteSetTheorems, FunctionTheorems, TLAPS

-----------------------------------------------------------------------------
(* Sums                                                                    *)

LEMMA EntriesMember ==
  ASSUME NEW f, NEW ids, NEW b
  PROVE  b \in Entries(f, ids) <=> \E id \in ids : \E k \in 1 .. f[id] : b = << id, k >>
  BY DEF Entries

LEMMA EntriesFinite ==
  ASSUME NEW ids, IsFiniteSet(ids), NEW f, \A id \in ids : f[id] \in Nat
  PROVE  IsFiniteSet(Entries(f, ids)) /\ Total(f, ids) \in Nat
<1> DEFINE Col(id) == {id} \X (1 .. f[id])
           Cols    == {Col(id) : id \in ids}
           g       == [id \in ids |-> Col(id)]
<1>1. g \in Surjection(ids, Cols)
  BY Fun_IsSurj
<1>2. IsFiniteSet(Cols)
  BY <1>1, FS_Surjection
<1>3. ASSUME NEW id \in ids PROVE IsFiniteSet(Col(id))
  <2>1. f[id] \in Int
    OBVIOUS
  <2>2. IsFiniteSet(1 .. f[id])
    BY <2>1, FS_Interval
  <2>3. IsFiniteSet({id})
    BY FS_Singleton
  <2> QED BY <2>2, <2>3, FS_Product
<1>4. IsFiniteSet(UNION Cols)
  <2> HIDE DEF Col
  <2> QED BY <1>2, <1>3, FS_UNION
<1>5. IsFiniteSet(Entries(f, ids))
  BY <1>4 DEF Entries
<1> QED BY <1>5, FS_CardinalityType DEF Total

(* One summand grows by one.                                               *)
LEMMA TotalAdd ==
  ASSUME NEW ids, IsFiniteSet(ids), NEW f \in [ids -> Nat], NEW id \in ids
  PROVE  Total([f EXCEPT ![id] = @ + 1], ids) = Total(f, ids) + 1
<1> DEFINE g == [f EXCEPT ![id] = @ + 1]
           b == << id, f[id] + 1 >>
<1>1. Entries(g, ids) = Entries(f, ids) \cup {b}
  <2>1. ASSUME NEW x PROVE x \in Entries(g, ids) <=> x \in Entries(f, ids) \/ x = b
    <3>1. f[id] \in Nat /\ g[id] = f[id] + 1 /\ \A j \in ids : j # id => g[j] = f[j]
      OBVIOUS
    <3>2. 1 .. g[id] = (1 .. f[id]) \cup {f[id] + 1}
      BY <3>1
    <3> HIDE DEF g
    <3>3. ASSUME x \in Entries(g, ids) PROVE x \in Entries(f, ids) \/ x = b
      <4>1. PICK j \in ids : \E k \in 1 .. g[j] : x = << j, k >>
        BY <3>3, EntriesMember
      <4>2. CASE j = id
        BY <3>2, <4>1, <4>2, EntriesMember
      <4>3. CASE j # id
        BY <3>1, <4>1, <4>3, EntriesMember
      <4> QED BY <4>2, <4>3
    <3>4. ASSUME x \in Entries(f, ids) PROVE x \in Entries(g, ids)
      <4>1. PICK j \in ids : \E k \in 1 .. f[j] : x = << j, k >>
        BY <3>4, EntriesMember
      <4>2. \E k \in 1 .. g[j] : x = << j, k >>
        BY <3>1, <3>2, <4>1
      <4> QED BY <4>2, EntriesMember
    <3>5. b \in Entries(g, ids)
      BY <3>2, EntriesMember
    <3> QED BY <3>3, <3>4, <3>5
  <2> QED BY <2>1
<1>2. b \notin Entries(f, ids)
  <2>1. f[id] \in Nat
    OBVIOUS
  <2> QED BY <2>1, EntriesMember
<1>3. IsFiniteSet(Entries(f, ids))
  BY EntriesFinite
<1> QED BY <1>1, <1>2, <1>3, FS_AddElement DEF Total

(* The summands of some ids are dropped.                                   *)
LEMMA TotalDrop ==
  ASSUME NEW ids, IsFiniteSet(ids), NEW f \in [ids -> Nat], NEW gone \in SUBSET ids
  PROVE  Total([id \in ids |-> IF id \in gone THEN 0 ELSE f[id]], ids)
           = Total(f, ids) - Total(f, gone)
<1> DEFINE g == [id \in ids |-> IF id \in gone THEN 0 ELSE f[id]]
<1>1. Entries(g, ids) = Entries(f, ids) \ Entries(f, gone)
  <2>1. ASSUME NEW x
        PROVE  x \in Entries(g, ids) <=> x \in Entries(f, ids) /\ x \notin Entries(f, gone)
    <3>1. \A id \in gone : 1 .. g[id] = {}
      OBVIOUS
    <3>2. \A id \in ids \ gone : g[id] = f[id]
      OBVIOUS
    <3> QED BY <3>1, <3>2, EntriesMember
  <2> QED BY <2>1
<1>2. Entries(f, ids) \cap Entries(f, gone) = Entries(f, gone)
  <2>1. ASSUME NEW x \in Entries(f, gone) PROVE x \in Entries(f, ids)
    BY <2>1, EntriesMember
  <2> QED BY <2>1
<1>3. IsFiniteSet(Entries(f, ids))
  BY EntriesFinite
<1> HIDE DEF g
<1>4. Cardinality(Entries(g, ids)) = Cardinality(Entries(f, ids)) - Cardinality(Entries(f, gone))
  <2> DEFINE E == Entries(f, ids)
             D == Entries(f, gone)
  <2>1. IsFiniteSet(E) /\ E \cap D = D /\ Entries(g, ids) = E \ D
    BY <1>1, <1>2, <1>3
  <2> HIDE DEF E, D
  <2>2. Cardinality(E \ D) = Cardinality(E) - Cardinality(E \cap D)
    BY <2>1, FS_Difference
  <2> QED BY <2>1, <2>2 DEF E, D
<1>5. Total(g, ids) = Total(f, ids) - Total(f, gone)
  BY <1>4 DEF Total
<1> QED BY <1>5 DEF g

(* Summands that are zero do not count.                                    *)
LEMMA TotalSupport ==
  ASSUME NEW ids, NEW f \in [ids -> Nat], NEW some \in SUBSET ids,
         \A id \in ids \ some : f[id] = 0
  PROVE  Total(f, ids) = Total(f, some)
<1>1. ASSUME NEW x PROVE x \in Entries(f, ids) <=> x \in Entries(f, some)
  <2>1. \A id \in ids \ some : 1 .. f[id] = {}
    OBVIOUS
  <2> QED BY <2>1, EntriesMember
<1>2. Entries(f, ids) = Entries(f, some)
  BY <1>1
<1> QED BY <1>2 DEF Total

(* A sum depends on the summands of its own indices only.                  *)
LEMMA TotalSame ==
  ASSUME NEW ids, NEW f, NEW g, \A id \in ids : f[id] = g[id]
  PROVE  Total(f, ids) = Total(g, ids)
<1>1. Entries(f, ids) = Entries(g, ids)
  <2>1. \A b : b \in Entries(f, ids) <=> b \in Entries(g, ids)
    BY EntriesMember
  <2> QED BY <2>1
<1> QED BY <1>1 DEF Total

(* A sum of summands none larger and one smaller is smaller.               *)
LEMMA TotalLess ==
  ASSUME NEW ids, IsFiniteSet(ids), NEW f, NEW g,
         \A id \in ids : f[id] \in Nat /\ g[id] \in Nat /\ f[id] <= g[id],
         NEW id \in ids, f[id] < g[id]
  PROVE  Total(f, ids) < Total(g, ids)
<1> DEFINE b == << id, g[id] >>
<1>1. b \in Entries(g, ids)
  BY EntriesMember
<1>2. b \notin Entries(f, ids)
  BY EntriesMember
<1>3. Entries(f, ids) \subseteq Entries(g, ids)
  <2>1. ASSUME NEW x \in Entries(f, ids) PROVE x \in Entries(g, ids)
    <3>1. PICK j \in ids : \E k \in 1 .. f[j] : x = << j, k >>
      BY <2>1, EntriesMember
    <3>2. \E k \in 1 .. g[j] : x = << j, k >>
      BY <3>1
    <3> QED BY <3>2, EntriesMember
  <2> QED BY <2>1
<1>4. IsFiniteSet(Entries(g, ids)) /\ Total(f, ids) \in Nat /\ Total(g, ids) \in Nat
  BY EntriesFinite
<1>5. Cardinality(Entries(f, ids)) <= Cardinality(Entries(g, ids))
      /\ (Cardinality(Entries(g, ids)) = Cardinality(Entries(f, ids))
            => Entries(g, ids) = Entries(f, ids))
  BY <1>3, <1>4, FS_Subset
<1>6. Total(f, ids) # Total(g, ids)
  BY <1>1, <1>2, <1>5 DEF Total
<1> QED BY <1>4, <1>5, <1>6 DEF Total

-----------------------------------------------------------------------------
(* Division                                                                *)

LEMMA DivRange ==
  ASSUME NEW a \in Nat, NEW n \in Nat \ {0}
  PROVE  /\ a \div n \in Nat
         /\ n * (a \div n) <= a /\ a < n * (a \div n) + n
  BY SMT

LEMMA MulMonotone ==
  ASSUME NEW n \in Nat, NEW a \in Nat, NEW b \in Nat, a <= b
  PROVE  /\ n * a \in Nat /\ n * b \in Nat
         /\ n * a <= n * b
  BY SMT

(* A quotient is at most x exactly if the dividend is below n * (x + 1).   *)
LEMMA DivAtMost ==
  ASSUME NEW a \in Nat, NEW n \in Nat \ {0}, NEW x \in Nat
  PROVE  a \div n <= x <=> a < n * (x + 1)
<1> DEFINE q == a \div n
<1>1. q \in Nat /\ n * q <= a /\ a < n * q + n
  BY DivRange
<1>2. n * q + n = n * (q + 1)
  BY <1>1, SMT
<1> HIDE DEF q
<1>3. ASSUME q <= x PROVE a < n * (x + 1)
  <2>1. n * (q + 1) <= n * (x + 1) /\ n * (x + 1) \in Nat /\ n * (q + 1) \in Nat
    BY <1>1, <1>3, MulMonotone
  <2> QED BY <1>1, <1>2, <2>1
<1>4. ASSUME ~ (q <= x) PROVE ~ (a < n * (x + 1))
  <2>1. n * (x + 1) <= n * q /\ n * (x + 1) \in Nat /\ n * q \in Nat
    BY <1>1, <1>4, MulMonotone
  <2> QED BY <1>1, <2>1
<1> QED BY <1>3, <1>4 DEF q

-----------------------------------------------------------------------------
(* Ranks                                                                   *)

(* A rank is a place between the first and the last, and no two members    *)
(* have the same.                                                          *)
LEMMA RankProperties ==
  ASSUME NEW S \in SUBSET Nat, IsFiniteSet(S)
  PROVE  /\ \A i \in S : RankIn(S, i) \in 1 .. Cardinality(S)
         /\ \A i, j \in S : i < j => RankIn(S, i) < RankIn(S, j)
<1> DEFINE Upto(i) == {j \in S : j <= i}
<1>1. ASSUME NEW i \in S PROVE /\ IsFiniteSet(Upto(i)) /\ Cardinality(Upto(i)) \in Nat
                               /\ Cardinality(Upto(i)) <= Cardinality(S)
  <2>1. Upto(i) \in SUBSET S
    OBVIOUS
  <2> HIDE DEF Upto
  <2> QED BY <2>1, FS_Subset, FS_CardinalityType
<1>2. ASSUME NEW i \in S PROVE Cardinality(Upto(i)) # 0
  <2>1. i \in Upto(i)
    OBVIOUS
  <2> HIDE DEF Upto
  <2> QED BY <1>1, <2>1, FS_EmptySet
<1>3. ASSUME NEW i \in S, NEW j \in S, i < j
      PROVE  Cardinality(Upto(i)) < Cardinality(Upto(j))
  <2>1. Upto(i) \in SUBSET Upto(j) /\ Upto(i) # Upto(j)
    <3>1. i \in Nat /\ j \in Nat
      OBVIOUS
    <3>2. j \in Upto(j) /\ j \notin Upto(i)
      BY <1>3, <3>1
    <3>3. ASSUME NEW x \in Upto(i) PROVE x \in Upto(j)
      BY <1>3, <3>1
    <3> QED BY <3>2, <3>3
  <2> HIDE DEF Upto
  <2>2. IsFiniteSet(Upto(j)) /\ Cardinality(Upto(i)) \in Nat /\ Cardinality(Upto(j)) \in Nat
    BY <1>1
  <2> QED BY <2>1, <2>2, FS_Subset
<1>4. Cardinality(S) \in Nat
  BY FS_CardinalityType
<1> HIDE DEF Upto
<1>5. \A i : RankIn(S, i) = Cardinality(Upto(i))
  BY DEF RankIn, Upto
<1> QED BY <1>1, <1>2, <1>3, <1>4, <1>5

(* Nth is the inverse of RankIn.                                           *)
LEMMA NthProperties ==
  ASSUME NEW S \in SUBSET Nat, IsFiniteSet(S)
  PROVE  /\ \A k \in 1 .. Cardinality(S) : Nth(S, k) \in S /\ RankIn(S, Nth(S, k)) = k
         /\ \A i \in S : Nth(S, RankIn(S, i)) = i
<1> DEFINE n == Cardinality(S)
           r == [i \in S |-> RankIn(S, i)]
<1>1. n \in Nat /\ IsFiniteSet(1 .. n) /\ Cardinality(1 .. n) = n
  BY FS_CardinalityType, FS_Interval
<1>2. r \in [S -> 1 .. n] /\ \A i, j \in S : r[i] = r[j] => i = j
  BY RankProperties
<1>3. r \in Injection(S, 1 .. n)
  BY <1>2, Fun_IsInj
<1>4. r \in Surjection(S, 1 .. n)
  BY <1>1, <1>3, FS_Injection
<1>5. \A k \in 1 .. n : \E i \in S : RankIn(S, i) = k
  <2> HIDE DEF n, r
  <2>1. \A k \in 1 .. n : \E i \in S : r[i] = k
    BY <1>4, Fun_SurjectionProperties
  <2> QED BY <2>1 DEF r
<1>6. \A i, j \in S : RankIn(S, i) = RankIn(S, j) => i = j
  BY <1>2
<1>7. ASSUME NEW k \in 1 .. n PROVE Nth(S, k) \in S /\ RankIn(S, Nth(S, k)) = k
  BY <1>5 DEF Nth
<1>8. ASSUME NEW i \in S PROVE Nth(S, RankIn(S, i)) = i
  <2>1. RankIn(S, i) \in 1 .. n
    BY <1>2
  <2> QED BY <1>6, <1>7, <2>1
<1> QED BY <1>7, <1>8

-----------------------------------------------------------------------------
(* Lists without repetition                                                *)

(* The members of a list are at most as many as its entries.               *)
LEMMA ListMembers ==
  ASSUME NEW S, NEW s \in Seq(S)
  PROVE  /\ ToSet(s) \subseteq S
         /\ \A x : x \in ToSet(s) <=> \E i \in 1 .. Len(s) : s[i] = x
         /\ IsFiniteSet(ToSet(s)) /\ Cardinality(ToSet(s)) <= Len(s)
<1>1. Len(s) \in Nat /\ DOMAIN s = 1 .. Len(s) /\ s \in [1 .. Len(s) -> S]
  BY LenProperties
<1>2. \A x : x \in ToSet(s) <=> \E i \in 1 .. Len(s) : s[i] = x
  BY <1>1 DEF ToSet
<1>3. s \in Surjection(1 .. Len(s), ToSet(s))
  <2>1. s \in [1 .. Len(s) -> ToSet(s)]
    BY <1>1, <1>2
  <2> QED BY <1>2, <2>1, Fun_IsSurj
<1>4. IsFiniteSet(1 .. Len(s)) /\ Cardinality(1 .. Len(s)) = Len(s)
  BY <1>1, FS_Interval
<1> QED BY <1>1, <1>2, <1>3, <1>4, FS_Surjection

LEMMA AppendToList ==
  ASSUME NEW S, NEW s \in Seq(S), IsInjective(s), NEW x \in S, x \notin ToSet(s)
  PROVE  /\ Append(s, x) \in Seq(S) /\ Len(Append(s, x)) = Len(s) + 1
         /\ IsInjective(Append(s, x))
         /\ ToSet(Append(s, x)) = ToSet(s) \cup {x}
<1> DEFINE t == Append(s, x)
<1>1. /\ t \in Seq(S) /\ Len(t) = Len(s) + 1
      /\ \A i \in 1 .. Len(s) : t[i] = s[i]
      /\ t[Len(s) + 1] = x
  BY AppendProperties
<1>2. Len(s) \in Nat /\ DOMAIN t = 1 .. Len(s) + 1 /\ DOMAIN s = 1 .. Len(s)
  BY <1>1, LenProperties
<1> HIDE DEF t
<1>3. \A i \in 1 .. Len(s) : s[i] # x
  BY <1>2 DEF ToSet
<1>4. IsInjective(t)
  BY <1>1, <1>2, <1>3 DEF IsInjective
<1>5. ToSet(t) = ToSet(s) \cup {x}
  <2>1. 1 .. Len(s) + 1 = (1 .. Len(s)) \cup {Len(s) + 1}
    BY <1>2
  <2> QED BY <1>1, <1>2, <2>1 DEF ToSet
<1> QED BY <1>1, <1>4, <1>5 DEF t

LEMMA ConcatLists ==
  ASSUME NEW S, NEW s \in Seq(S), NEW t \in Seq(S),
         IsInjective(s), IsInjective(t), ToSet(s) \cap ToSet(t) = {}
  PROVE  /\ s \o t \in Seq(S) /\ Len(s \o t) = Len(s) + Len(t)
         /\ IsInjective(s \o t)
         /\ ToSet(s \o t) = ToSet(s) \cup ToSet(t)
<1> DEFINE u == s \o t
<1>1. /\ u \in Seq(S) /\ Len(u) = Len(s) + Len(t)
      /\ \A i \in 1 .. Len(s) + Len(t) :
           u[i] = IF i <= Len(s) THEN s[i] ELSE t[i - Len(s)]
  BY ConcatProperties
<1>2. /\ Len(s) \in Nat /\ Len(t) \in Nat
      /\ DOMAIN u = 1 .. Len(s) + Len(t)
      /\ DOMAIN s = 1 .. Len(s) /\ DOMAIN t = 1 .. Len(t)
  BY <1>1, LenProperties
<1> HIDE DEF u
<1>3. \A i \in 1 .. Len(s), j \in 1 .. Len(t) : s[i] # t[j]
  BY <1>2 DEF ToSet
<1>4. IsInjective(u)
  <2> SUFFICES ASSUME NEW a \in 1 .. Len(s) + Len(t), NEW b \in 1 .. Len(s) + Len(t),
                      u[a] = u[b]
               PROVE  a = b
    BY <1>2 DEF IsInjective
  <2>1. CASE a <= Len(s) /\ b <= Len(s)
    BY <1>1, <1>2, <2>1 DEF IsInjective
  <2>2. CASE a <= Len(s) /\ b > Len(s)
    <3>1. b - Len(s) \in 1 .. Len(t) /\ a \in 1 .. Len(s)
      BY <1>2, <2>2
    <3> QED BY <1>1, <1>2, <1>3, <2>2, <3>1
  <2>3. CASE a > Len(s) /\ b <= Len(s)
    <3>1. a - Len(s) \in 1 .. Len(t) /\ b \in 1 .. Len(s)
      BY <1>2, <2>3
    <3> QED BY <1>1, <1>2, <1>3, <2>3, <3>1
  <2>4. CASE a > Len(s) /\ b > Len(s)
    <3>1. a - Len(s) \in 1 .. Len(t) /\ b - Len(s) \in 1 .. Len(t)
      BY <1>2, <2>4
    <3>2. t[a - Len(s)] = t[b - Len(s)]
      BY <1>1, <1>2, <2>4
    <3>3. a - Len(s) = b - Len(s)
      BY <1>2, <3>1, <3>2 DEF IsInjective
    <3> QED BY <1>2, <3>3
  <2> QED BY <1>2, <2>1, <2>2, <2>3, <2>4
<1>5. ToSet(u) = ToSet(s) \cup ToSet(t)
  <2>1. ASSUME NEW x \in ToSet(u) PROVE x \in ToSet(s) \cup ToSet(t)
    <3>1. PICK i \in 1 .. Len(s) + Len(t) : u[i] = x
      BY <1>2 DEF ToSet
    <3>2. CASE i <= Len(s)
      BY <1>1, <1>2, <3>1, <3>2 DEF ToSet
    <3>3. CASE i > Len(s)
      <4>1. i - Len(s) \in 1 .. Len(t)
        BY <1>2, <3>3
      <4> QED BY <1>1, <1>2, <3>1, <3>3, <4>1 DEF ToSet
    <3> QED BY <1>2, <3>2, <3>3
  <2>2. ASSUME NEW i \in 1 .. Len(s) PROVE s[i] \in ToSet(u)
    <3>1. i \in 1 .. Len(s) + Len(t) /\ u[i] = s[i]
      BY <1>1, <1>2
    <3> QED BY <1>2, <3>1 DEF ToSet
  <2>3. ASSUME NEW i \in 1 .. Len(t) PROVE t[i] \in ToSet(u)
    <3>1. Len(s) + i \in 1 .. Len(s) + Len(t) /\ u[Len(s) + i] = t[i]
      <4>1. Len(s) + i \in 1 .. Len(s) + Len(t) /\ ~ (Len(s) + i <= Len(s))
            /\ Len(s) + i - Len(s) = i
        BY <1>2
      <4> QED BY <1>1, <4>1
    <3> QED BY <1>2, <3>1 DEF ToSet
  <2> QED BY <1>2, <2>1, <2>2, <2>3 DEF ToSet
<1> QED BY <1>1, <1>4, <1>5 DEF u

(* A list cut in two.                                                      *)
LEMMA CutList ==
  ASSUME NEW S, NEW s \in Seq(S), IsInjective(s), NEW n \in 0 .. Len(s)
  PROVE  LET front == SubSeq(s, 1, n)
             back  == SubSeq(s, n + 1, Len(s))
         IN  /\ front \in Seq(S) /\ Len(front) = n /\ IsInjective(front)
             /\ back \in Seq(S) /\ Len(back) = Len(s) - n /\ IsInjective(back)
             /\ \A i \in 1 .. n : front[i] = s[i]
             /\ \A i \in 1 .. Len(s) - n : back[i] = s[n + i]
             /\ ToSet(front) = {s[i] : i \in 1 .. n}
             /\ ToSet(back) = {s[i] : i \in n + 1 .. Len(s)}
<1> DEFINE front == SubSeq(s, 1, n)
           back  == SubSeq(s, n + 1, Len(s))
<1>1. Len(s) \in Nat /\ n \in Nat /\ n <= Len(s) /\ s \in [1 .. Len(s) -> S]
      /\ DOMAIN s = 1 .. Len(s)
  BY LenProperties
<1>2. front \in Seq(S) /\ Len(front) = n /\ \A i \in 1 .. n : front[i] = s[i]
  <2>1. \A i \in 1 .. n : s[i] \in S
    BY <1>1
  <2>2. 1 \in Int /\ n \in Int
    BY <1>1
  <2>3. /\ front \in Seq(S)
        /\ Len(front) = IF 1 <= n THEN n - 1 + 1 ELSE 0
        /\ \A i \in 1 .. n - 1 + 1 : front[i] = s[1 + i - 1]
    BY <2>1, <2>2, SubSeqProperties
  <2> HIDE DEF front
  <2> QED BY <1>1, <2>3
<1>3. back \in Seq(S) /\ Len(back) = Len(s) - n
      /\ \A i \in 1 .. Len(s) - n : back[i] = s[n + i]
  <2>1. \A i \in n + 1 .. Len(s) : s[i] \in S
    BY <1>1
  <2>2. n + 1 \in Int /\ Len(s) \in Int
    BY <1>1
  <2>3. /\ back \in Seq(S)
        /\ Len(back) = IF n + 1 <= Len(s) THEN Len(s) - (n + 1) + 1 ELSE 0
        /\ \A i \in 1 .. Len(s) - (n + 1) + 1 : back[i] = s[n + 1 + i - 1]
    BY <2>1, <2>2, SubSeqProperties
  <2> HIDE DEF back
  <2>4. \A i \in 1 .. Len(s) - n : i \in 1 .. Len(s) - (n + 1) + 1 /\ n + 1 + i - 1 = n + i
    BY <1>1
  <2>5. \A i \in 1 .. Len(s) - n : back[i] = s[n + i]
    BY <2>3, <2>4
  <2>6. Len(back) = Len(s) - n
    <3>1. CASE n + 1 <= Len(s)
      BY <1>1, <2>3, <3>1
    <3>2. CASE ~ (n + 1 <= Len(s))
      <4> DEFINE l == Len(s)
      <4>1. l \in Nat /\ n \in Nat /\ n <= l /\ ~ (n + 1 <= l)
        BY <1>1, <3>2
      <4> HIDE DEF l
      <4>2. l - n = 0
        BY <4>1
      <4> QED BY <2>3, <3>2, <4>2 DEF l
    <3> QED BY <3>1, <3>2
  <2> QED BY <2>3, <2>5, <2>6
<1>4. DOMAIN front = 1 .. n /\ DOMAIN back = 1 .. Len(s) - n
  BY <1>2, <1>3, LenProperties
<1> HIDE DEF front, back
<1>5. IsInjective(front) /\ IsInjective(back)
  <2>1. IsInjective(front)
    BY <1>1, <1>2, <1>4 DEF IsInjective
  <2>2. ASSUME NEW a \in 1 .. Len(s) - n, NEW b \in 1 .. Len(s) - n, back[a] = back[b]
        PROVE  a = b
    <3>1. n + a \in 1 .. Len(s) /\ n + b \in 1 .. Len(s) /\ s[n + a] = s[n + b]
      BY <1>1, <1>3, <2>2
    <3>2. n + a = n + b
      BY <1>1, <3>1 DEF IsInjective
    <3> QED BY <1>1, <3>2
  <2>3. IsInjective(back)
    BY <1>4, <2>2 DEF IsInjective
  <2> QED BY <2>1, <2>3
<1>6. ToSet(front) = {s[i] : i \in 1 .. n}
  BY <1>2, <1>4 DEF ToSet
<1>7. ToSet(back) = {s[i] : i \in n + 1 .. Len(s)}
  <2>1. ASSUME NEW i \in n + 1 .. Len(s) PROVE s[i] \in ToSet(back)
    <3>1. i - n \in 1 .. Len(s) - n /\ n + (i - n) = i
      BY <1>1
    <3> QED BY <1>3, <1>4, <3>1 DEF ToSet
  <2>2. ASSUME NEW j \in 1 .. Len(s) - n PROVE back[j] \in {s[i] : i \in n + 1 .. Len(s)}
    <3>1. n + j \in n + 1 .. Len(s) /\ back[j] = s[n + j]
      BY <1>1, <1>3
    <3> QED BY <3>1
  <2> QED BY <1>4, <2>1, <2>2 DEF ToSet
<1> QED BY <1>2, <1>3, <1>5, <1>6, <1>7 DEF front, back

LEMMA RemoveFromList ==
  ASSUME NEW S, NEW s \in Seq(S), IsInjective(s), NEW n \in 1 .. Len(s)
  PROVE  LET t == RemoveAt(s, n)
         IN  /\ t \in Seq(S) /\ Len(t) = Len(s) - 1 /\ IsInjective(t)
             /\ \A i \in 1 .. n - 1 : t[i] = s[i]
             /\ \A i \in n .. Len(s) - 1 : t[i] = s[i + 1]
             /\ ToSet(t) = ToSet(s) \ {s[n]}
<1> DEFINE front == SubSeq(s, 1, n - 1)
           back  == SubSeq(s, n + 1, Len(s))
           t     == front \o back
<1>1. Len(s) \in Nat /\ n \in Nat /\ DOMAIN s = 1 .. Len(s)
      /\ n - 1 \in 0 .. Len(s) /\ n \in 0 .. Len(s)
  BY LenProperties
<1>2. /\ front \in Seq(S) /\ Len(front) = n - 1 /\ IsInjective(front)
      /\ \A i \in 1 .. n - 1 : front[i] = s[i]
      /\ ToSet(front) = {s[i] : i \in 1 .. n - 1}
  <2> HIDE DEF back, t
  <2> DEFINE m == n - 1
  <2>1. m \in 0 .. Len(s)
    BY <1>1
  <2> HIDE DEF m
  <2>2. /\ SubSeq(s, 1, m) \in Seq(S) /\ Len(SubSeq(s, 1, m)) = m
        /\ IsInjective(SubSeq(s, 1, m))
        /\ \A i \in 1 .. m : SubSeq(s, 1, m)[i] = s[i]
        /\ ToSet(SubSeq(s, 1, m)) = {s[i] : i \in 1 .. m}
    BY <2>1, CutList
  <2> QED BY <2>2 DEF m
<1>3. /\ back \in Seq(S) /\ Len(back) = Len(s) - n /\ IsInjective(back)
      /\ \A i \in 1 .. Len(s) - n : back[i] = s[n + i]
      /\ ToSet(back) = {s[i] : i \in n + 1 .. Len(s)}
  <2> HIDE DEF front
  <2>1. n \in 0 .. Len(s)
    BY <1>1
  <2> QED BY <2>1, CutList DEF back
<1> HIDE DEF front, back
<1>4. ToSet(front) \cap ToSet(back) = {}
  <2>1. \A i \in 1 .. n - 1, j \in n + 1 .. Len(s) : s[i] # s[j]
    BY <1>1 DEF IsInjective
  <2> QED BY <1>2, <1>3, <2>1
<1> HIDE DEF front, back
<1>5. /\ t \in Seq(S) /\ Len(t) = Len(front) + Len(back) /\ IsInjective(t)
      /\ ToSet(t) = ToSet(front) \cup ToSet(back)
  <2>1. front \in Seq(S) /\ back \in Seq(S) /\ IsInjective(front) /\ IsInjective(back)
    BY <1>2, <1>3
  <2> HIDE DEF t
  <2> QED BY <1>4, <2>1, ConcatLists DEF t
<1>6. \A i \in 1 .. Len(front) + Len(back) :
        t[i] = IF i <= Len(front) THEN front[i] ELSE back[i - Len(front)]
  BY <1>2, <1>3, ConcatProperties DEF t
<1> HIDE DEF t
<1>7. \A i \in 1 .. n - 1 : t[i] = s[i]
  BY <1>1, <1>2, <1>3, <1>6
<1>8. ASSUME NEW i \in n .. Len(s) - 1 PROVE t[i] = s[i + 1]
  <2>1. /\ i \in 1 .. Len(front) + Len(back) /\ ~ (i <= Len(front))
        /\ i - Len(front) \in 1 .. Len(s) - n /\ n + (i - Len(front)) = i + 1
    BY <1>1, <1>2, <1>3
  <2> QED BY <1>3, <1>6, <2>1
<1>9. ToSet(t) = ToSet(s) \ {s[n]}
  <2>1. 1 .. Len(s) = (1 .. n - 1) \cup {n} \cup (n + 1 .. Len(s))
    BY <1>1
  <2>2. \A i \in 1 .. Len(s) : i # n => s[i] # s[n]
    BY <1>1 DEF IsInjective
  <2>3. ToSet(s) = {s[i] : i \in 1 .. Len(s)}
    BY <1>1 DEF ToSet
  <2> QED BY <1>1, <1>2, <1>3, <1>5, <2>1, <2>2, <2>3
<1>10. RemoveAt(s, n) = t
  BY DEF RemoveAt, t, front, back
<1>11. Len(t) = Len(s) - 1
  BY <1>1, <1>2, <1>3, <1>5
<1> QED BY <1>5, <1>7, <1>8, <1>9, <1>10, <1>11

-----------------------------------------------------------------------------
(* Blocks a sequence needs.                                                *)

LEMMA BlocksStep ==
  ASSUME NEW p \in Nat
  PROVE  /\ Layout!BlkIdx(p) \in Nat /\ Layout!BlocksFor(p) \in Nat
         /\ Layout!BlocksFor(p + 1) = Layout!BlkIdx(p) + 1
         /\ Layout!BlocksFor(p) \in {Layout!BlkIdx(p), Layout!BlkIdx(p) + 1}
  <1>1. ASSUME NEW q \in Nat PROVE Layout!BlkIdx(q) \in Nat
    BY PoolAssumption, DivRange DEF Layout!BlkIdx
  <1>2. Layout!BlocksFor(p + 1) = Layout!BlkIdx(p) + 1
    <2>1. p + 1 # 0 /\ p + 1 - 1 = p
      OBVIOUS
    <2> QED BY <2>1 DEF Layout!BlocksFor
  <1>3. CASE p = 0
    <2>1. 0 \div BlockSize = 0
      BY PoolAssumption, SMT
    <2> QED BY <1>1, <1>2, <1>3, <2>1 DEF Layout!BlocksFor, Layout!BlkIdx
  <1>4. CASE p # 0
    <2>1. p - 1 \in Nat
      BY <1>4
    <2> DEFINE a == (p - 1) \div BlockSize
               b == p \div BlockSize
    <2>2. /\ a \in Nat /\ BlockSize * a <= p - 1 /\ p - 1 < BlockSize * a + BlockSize
          /\ b \in Nat /\ BlockSize * b <= p /\ p < BlockSize * b + BlockSize
      BY <2>1, PoolAssumption, DivRange
    <2>3. Layout!BlocksFor(p) = a + 1 /\ Layout!BlkIdx(p) = b
      BY <1>4 DEF Layout!BlocksFor, Layout!BlkIdx
    <2> HIDE DEF a, b
    <2>4. b <= a + 1
      <3> SUFFICES ASSUME a + 2 <= b PROVE FALSE
        BY <2>2
      <3>1. BlockSize * (a + 2) <= BlockSize * b
        BY <2>2, PoolAssumption, MulMonotone
      <3>2. BlockSize * (a + 2) = BlockSize * a + BlockSize + BlockSize
        BY <2>2, PoolAssumption, SMT
      <3> QED BY <3>1, <3>2, <2>2, PoolAssumption
    <2>5. a <= b
      <3> SUFFICES ASSUME b + 1 <= a PROVE FALSE
        BY <2>2
      <3>1. BlockSize * (b + 1) <= BlockSize * a
        BY <2>2, PoolAssumption, MulMonotone
      <3>2. BlockSize * (b + 1) = BlockSize * b + BlockSize
        BY <2>2, PoolAssumption, SMT
      <3> QED BY <3>1, <3>2, <2>2, PoolAssumption
    <2>6. Layout!BlocksFor(p) \in {b, b + 1} /\ Layout!BlocksFor(p) \in Nat
      BY <2>2, <2>3, <2>4, <2>5
    <2> QED BY <2>6, <2>3, <2>2, <1>2
  <1> QED BY <1>3, <1>4

LEMMA BlocksMonotone ==
  ASSUME NEW p \in Nat, NEW q \in Nat, p <= q
  PROVE  Layout!BlocksFor(p) <= Layout!BlocksFor(q)
  <1>1. CASE p = 0
    BY <1>1, BlocksStep DEF Layout!BlocksFor
  <1>2. CASE p # 0
    <2> DEFINE a == p - 1
               b == q - 1
    <2>1. a \in Nat /\ b \in Nat /\ a <= b /\ p = a + 1 /\ q = b + 1
      BY <1>2
    <2> HIDE DEF a, b
    <2>2. a \div BlockSize <= b \div BlockSize
      <3>1. /\ b \div BlockSize \in Nat
            /\ b < BlockSize * (b \div BlockSize) + BlockSize
        BY <2>1, PoolAssumption, DivRange
      <3> DEFINE x == b \div BlockSize
      <3> HIDE DEF x
      <3>2. x \in Nat /\ b < BlockSize * x + BlockSize
        BY <3>1 DEF x
      <3>3. BlockSize * (x + 1) = BlockSize * x + BlockSize /\ BlockSize * x \in Nat
        BY <3>2, PoolAssumption, SMT
      <3>4. a < BlockSize * (x + 1)
        BY <2>1, <3>2, <3>3, PoolAssumption
      <3>5. a \div BlockSize <= x
        BY <2>1, <3>2, <3>4, PoolAssumption, DivAtMost
      <3> QED BY <3>5 DEF x
    <2>3. Layout!BlkIdx(a) <= Layout!BlkIdx(b)
      BY <2>2 DEF Layout!BlkIdx
    <2>4. /\ Layout!BlocksFor(p) = Layout!BlkIdx(a) + 1
          /\ Layout!BlocksFor(q) = Layout!BlkIdx(b) + 1
          /\ Layout!BlkIdx(a) \in Nat /\ Layout!BlkIdx(b) \in Nat
      BY <2>1, BlocksStep
    <2> QED BY <2>3, <2>4
  <1> QED BY <1>1, <1>2

-----------------------------------------------------------------------------
(* Objects and accounts.                                                   *)

(* The tokens sampled so far are those engine.generate would sample, and   *)
(* an answer stopped where it would, or was refused a block before.        *)
Sampled(id, s) ==
  /\ Len(s.gen) <= s.req.eos /\ Len(s.gen) <= s.req.max
  /\ \A k \in 1 .. Len(s.gen) : s.gen[k] = Tag(id, s.req.prompt + k - 1)

Answered(s) ==
  \/ s.reason = "stop" /\ Len(s.gen) = s.req.eos /\ s.req.eos < s.req.max
  \/ s.reason = "length" /\ Len(s.gen) = s.req.max /\ s.req.max <= s.req.eos
  \/ s.reason = "capacity" /\ (Len(s.gen) < s.req.max \/ s.gen = << >>)

(* What a Sequence object holds in each state, wherever the step is.       *)
Sound(id, s) ==
  /\ s.state # "NONE" => /\ s.req \in Requests /\ Accepts(s.req)
                         /\ s.kvLen <= WrittenAtMost(s.req)
  /\ s.state \in {"NONE", "WAITING"} => s.kvLen = 0 /\ s.cursor = 0
  /\ s.state \in {"NONE", "WAITING", "PREFILLING"} => s.gen = << >>
  /\ s.state \in {"FINISHED", "GONE"} <=> s.reason # Unfinished
  /\ s.state = "RUNNING" => Len(s.gen) \in 1 .. s.req.max - 1
  /\ s.state = "FINISHED" => Answered(s)
  /\ Sampled(id, s)
  /\ s.held = IF s.state = "GONE" THEN 0 ELSE Layout!BlocksFor(s.kvLen)

Objects == \A id \in Ids : Sound(id, seq[id])

(* The blocks of the pool are free or held.                                *)
Accounted == freeBlocks + HeldBy(Ids) = NumBlocks

LEMMA IdsFinite == /\ IsFiniteSet(Ids) /\ Ids \subseteq Nat
                   /\ MaxSeqs \in Nat
  <1>1. 0 \in Int /\ MaxSeqs - 1 \in Int /\ MaxSeqs \in Nat
    BY RequestAssumption
  <1>2. IsFiniteSet(0 .. MaxSeqs - 1)
    BY <1>1, FS_Interval
  <1> QED BY <1>1, <1>2 DEF Ids

Held == [id \in Ids |-> seq[id].held]

LEMMA HeldType ==
  ASSUME BaseTypeOK
  PROVE  Held \in [Ids -> Nat] /\ HeldBy(Ids) = Total(Held, Ids) /\ HeldBy(Ids) \in Nat
  <1>1. Held \in [Ids -> Nat]
    BY DEF BaseTypeOK, SeqRecords, Held
  <1>2. HeldBy(Ids) = Total(Held, Ids)
    BY DEF HeldBy, Held
  <1>3. Total(Held, Ids) \in Nat
    <2>1. \A id \in Ids : Held[id] \in Nat
      BY <1>1
    <2> QED BY <2>1, IdsFinite, EntriesFinite
  <1> QED BY <1>1, <1>2, <1>3

(* No block changes hands.                                                 *)
LEMMA HeldStays ==
  ASSUME \A id \in Ids : seq'[id].held = seq[id].held, freeBlocks' = freeBlocks,
         Accounted
  PROVE  Accounted'
  <1>1. [id \in Ids |-> seq'[id].held] = [id \in Ids |-> seq[id].held]
    OBVIOUS
  <1>2. Total([id \in Ids |-> seq'[id].held], Ids) = Total([id \in Ids |-> seq[id].held], Ids)
    BY <1>1
  <1> QED BY <1>2 DEF HeldBy, Accounted

(* A write takes a block from the pool if it needs one.                    *)
LEMMA WriteAccounts ==
  ASSUME BaseTypeOK, Accounted, NEW c \in Ids, NEW p, CanWrite(c, p),
         seq'[c].held = IF NeedsBlock(c, p) THEN seq[c].held + 1 ELSE seq[c].held,
         \A id \in Ids \ {c} : seq'[id].held = seq[id].held,
         freeBlocks' = FreeAfterWrite(c, p)
  PROVE  Accounted' /\ freeBlocks' \in 0 .. NumBlocks
  <1>1. CASE ~ NeedsBlock(c, p)
    <2>1. freeBlocks' = freeBlocks /\ freeBlocks \in 0 .. NumBlocks
      BY <1>1 DEF FreeAfterWrite, BaseTypeOK
    <2>2. \A id \in Ids : seq'[id].held = seq[id].held
      BY <1>1
    <2> QED BY <2>1, <2>2, HeldStays
  <1>2. CASE NeedsBlock(c, p)
    <2>1. freeBlocks' = freeBlocks - 1 /\ freeBlocks > 0
      BY <1>2 DEF FreeAfterWrite, CanWrite
    <2>2. Held \in [Ids -> Nat] /\ HeldBy(Ids) = Total(Held, Ids) /\ HeldBy(Ids) \in Nat
      BY HeldType
    <2>3. [id \in Ids |-> seq'[id].held] = [Held EXCEPT ![c] = @ + 1]
      BY <1>2 DEF Held
    <2>4. Total([Held EXCEPT ![c] = @ + 1], Ids) = Total(Held, Ids) + 1
      BY <2>2, IdsFinite, TotalAdd
    <2>5. HeldBy(Ids)' = HeldBy(Ids) + 1
      BY <2>2, <2>3, <2>4 DEF HeldBy
    <2>6. freeBlocks \in 0 .. NumBlocks /\ NumBlocks \in Nat
      BY PoolAssumption DEF BaseTypeOK
    <2> HIDE DEF HeldBy
    <2> QED BY <2>1, <2>2, <2>5, <2>6 DEF Accounted
  <1> QED BY <1>1, <1>2

(* Retired sequences give back all they hold.                              *)
LEMMA RetireAccounts ==
  ASSUME BaseTypeOK, Accounted, NEW list \in Seq(Ids), Retire(list)
  PROVE  Accounted' /\ freeBlocks' \in 0 .. NumBlocks
  <1> DEFINE gone == ToSet(list)
  <1>1. gone \in SUBSET Ids
    BY ListMembers
  <1>2. Held \in [Ids -> Nat] /\ HeldBy(Ids) = Total(Held, Ids) /\ HeldBy(Ids) \in Nat
    BY HeldType
  <1>3. [id \in Ids |-> seq'[id].held]
          = [id \in Ids |-> IF id \in gone THEN 0 ELSE Held[id]]
    <2>1. ASSUME NEW id \in Ids
          PROVE  seq'[id].held = IF id \in gone THEN 0 ELSE Held[id]
      <3>1. seq'[id] = IF id \in ToSet(list)
                              THEN [seq[id] EXCEPT !.state = "GONE", !.held = 0]
                              ELSE seq[id]
        BY DEF Retire
      <3>2. seq[id] \in SeqRecords
        BY DEF BaseTypeOK
      <3> QED BY <3>1, <3>2 DEF Held, SeqRecords
    <2> QED BY <2>1
  <1> HIDE DEF gone
  <1>4. Total([id \in Ids |-> IF id \in gone THEN 0 ELSE Held[id]], Ids)
          = Total(Held, Ids) - Total(Held, gone)
    BY <1>1, <1>2, IdsFinite, TotalDrop
  <1>5. HeldBy(gone) = Total(Held, gone) /\ Total(Held, gone) \in Nat
    <2>1. \A id \in gone : Held[id] \in Nat
      BY <1>1, <1>2
    <2>2. IsFiniteSet(gone)
      BY <1>1, IdsFinite, FS_Subset
    <2>3. Total(Held, gone) \in Nat
      BY <2>1, <2>2, EntriesFinite
    <2> QED BY <2>3 DEF HeldBy, Held
  <1>6. HeldBy(Ids)' = HeldBy(Ids) - HeldBy(gone)
    BY <1>2, <1>3, <1>4, <1>5 DEF HeldBy
  <1>7. freeBlocks' = freeBlocks + HeldBy(gone)
    BY DEF Retire, gone
  <1>8. freeBlocks \in Nat /\ NumBlocks \in Nat
    BY PoolAssumption DEF BaseTypeOK
  <1>9. HeldBy(Ids)' \in Nat
    <2>1. \A id \in Ids : [i \in Ids |-> seq'[i].held][id] \in Nat
      BY <1>3, <1>2
    <2> QED BY <2>1, IdsFinite, EntriesFinite DEF HeldBy
  <1> HIDE DEF HeldBy
  <1> QED BY <1>2, <1>5, <1>6, <1>7, <1>8, <1>9 DEF Accounted

(* A refused block: if only members of a group can hold blocks, they need  *)
(* more than the pool.                                                     *)
LEMMA RefusalNeedsMore ==
  ASSUME BaseTypeOK, Objects, Accounted,
         NEW group \in SUBSET Ids,
         \A id \in Ids \ group : seq[id].state \in {"NONE", "WAITING", "GONE"},
         \A id \in group : seq[id].state \notin {"NONE", "GONE"},
         NEW c \in group, NEW p \in Nat, ~ CanWrite(c, p),
         p + 1 <= WrittenAtMost(seq[c].req)
  PROVE  ~ (Total([id \in Ids |-> Layout!BlocksFor(WrittenAtMost(seq[id].req))], group)
              <= NumBlocks)
  <1> DEFINE need == [id \in Ids |-> Layout!BlocksFor(WrittenAtMost(seq[id].req))]
  <1>1. IsFiniteSet(group)
    BY IdsFinite, FS_Subset
  <1>2. c \in group /\ c \in Ids
    OBVIOUS
  <1>3. /\ Held \in [Ids -> Nat] /\ HeldBy(Ids) = Total(Held, Ids) /\ HeldBy(Ids) \in Nat
    BY HeldType
  <1>6. ASSUME NEW id \in Ids
        PROVE  /\ seq[id].kvLen \in Nat
               /\ seq[id].state # "NONE" =>
                    /\ WrittenAtMost(seq[id].req) \in Nat
                    /\ seq[id].kvLen <= WrittenAtMost(seq[id].req)
    <2>1. seq[id].kvLen \in Nat
      BY DEF BaseTypeOK, SeqRecords
    <2>2. ASSUME seq[id].state # "NONE"
          PROVE  /\ WrittenAtMost(seq[id].req) \in Nat
                 /\ seq[id].kvLen <= WrittenAtMost(seq[id].req)
      <3>1. seq[id].req \in Requests /\ seq[id].kvLen <= WrittenAtMost(seq[id].req)
        BY <2>2 DEF Objects, Sound
      <3>2. seq[id].req.prompt \in Nat /\ seq[id].req.max \in Nat
        BY <3>1, RequestAssumption
      <3> QED BY <3>1, <3>2, SMTT(30) DEF WrittenAtMost
    <2> QED BY <2>1, <2>2
  <1>7. ASSUME NEW id \in group
        PROVE  Held[id] \in Nat /\ need[id] \in Nat /\ Held[id] <= need[id]
    <2>1. /\ id \in Ids /\ seq[id].kvLen \in Nat /\ WrittenAtMost(seq[id].req) \in Nat
          /\ seq[id].kvLen <= WrittenAtMost(seq[id].req)
          /\ seq[id].state # "GONE"
      BY <1>6
    <2>2. Held[id] = Layout!BlocksFor(seq[id].kvLen)
      BY <2>1 DEF Objects, Sound, Held
    <2>3. need[id] = Layout!BlocksFor(WrittenAtMost(seq[id].req))
      BY <2>1
    <2>4. /\ Layout!BlocksFor(seq[id].kvLen) \in Nat
          /\ Layout!BlocksFor(WrittenAtMost(seq[id].req)) \in Nat
          /\ Layout!BlocksFor(seq[id].kvLen) <= Layout!BlocksFor(WrittenAtMost(seq[id].req))
      BY <2>1, BlocksStep, BlocksMonotone
    <2> QED BY <2>2, <2>3, <2>4
  <1>8. Held[c] < need[c]
    <2>1. Held[c] <= Layout!BlkIdx(p) /\ freeBlocks <= 0
      <3>1. NeedsBlock(c, p) /\ ~ (freeBlocks > 0)
        BY DEF CanWrite
      <3>2. Layout!BlkIdx(p) \in Nat /\ seq[c].held \in Nat /\ freeBlocks \in Nat
        <4>1. Layout!BlkIdx(p) \in Nat
          BY BlocksStep
        <4>2. seq[c].held \in Nat
          BY <1>2, <1>3 DEF Held
        <4>3. freeBlocks \in Nat
          BY DEF BaseTypeOK
        <4> QED BY <4>1, <4>2, <4>3
      <3> QED BY <3>1, <3>2, <1>2 DEF NeedsBlock, Held
    <2>2. WrittenAtMost(seq[c].req) \in Nat
      BY <1>2, <1>6
    <2>3. /\ Layout!BlocksFor(p + 1) = Layout!BlkIdx(p) + 1 /\ Layout!BlkIdx(p) \in Nat
          /\ Layout!BlocksFor(p + 1) <= Layout!BlocksFor(WrittenAtMost(seq[c].req))
          /\ Layout!BlocksFor(WrittenAtMost(seq[c].req)) \in Nat
      <3>1. p + 1 \in Nat
        OBVIOUS
      <3> QED BY <3>1, <2>2, BlocksStep, BlocksMonotone
    <2>4. need[c] = Layout!BlocksFor(WrittenAtMost(seq[c].req)) /\ Held[c] \in Nat
      BY <1>2, <1>3
    <2> HIDE DEF need
    <2> QED BY <2>1, <2>3, <2>4
  <1> HIDE DEF need
  <1>9. Total(Held, group) < Total(need, group)
    BY <1>1, <1>2, <1>7, <1>8, TotalLess
  <1>10. Total(Held, Ids) = Total(Held, group)
    <2>1. \A id \in Ids \ group : Held[id] = 0
      <3> SUFFICES ASSUME NEW id \in Ids \ group PROVE Held[id] = 0
        OBVIOUS
      <3>2. seq[id].state \in {"NONE", "WAITING", "GONE"}
        OBVIOUS
      <3>3. seq[id].held = IF seq[id].state = "GONE" THEN 0
                             ELSE Layout!BlocksFor(seq[id].kvLen)
        BY DEF Objects, Sound
      <3>4. CASE seq[id].state = "GONE"
        BY <3>3, <3>4 DEF Held
      <3>5. CASE seq[id].state \in {"NONE", "WAITING"}
        <4>1. seq[id].kvLen = 0
          BY <3>5 DEF Objects, Sound
        <4> QED BY <3>3, <3>5, <4>1 DEF Held, Layout!BlocksFor
      <3> QED BY <3>2, <3>4, <3>5
    <2> QED BY <2>1, <1>1, <1>3, TotalSupport
  <1>11. Total(Held, group) = NumBlocks
    <2>1. freeBlocks = 0
      <3>1. ~ (freeBlocks > 0) /\ freeBlocks \in Nat
        BY DEF CanWrite, BaseTypeOK
      <3> QED BY <3>1
    <2>2. NumBlocks \in Nat
      BY PoolAssumption
    <2> QED BY <2>1, <2>2, <1>3, <1>10 DEF Accounted
  <1>12. ~ (Total(need, group) <= NumBlocks)
    <2>1. Total(need, group) \in Nat
      BY <1>1, <1>7, EntriesFinite
    <2>2. NumBlocks \in Nat
      BY PoolAssumption
    <2> QED BY <2>1, <2>2, <1>9, <1>11
  <1> QED BY <1>12 DEF need

-----------------------------------------------------------------------------
(* Fields of a Sequence object, and one step of its decoding.              *)

LEMMA ReasonsDiffer == Unfinished \notin {"stop", "length", "capacity"}
  BY DEF Unfinished

LEMMA SeqFields ==
  ASSUME BaseTypeOK, NEW id \in Ids
  PROVE  /\ seq[id] \in SeqRecords
         /\ seq[id].cursor \in Nat /\ seq[id].kvLen \in Nat /\ seq[id].held \in Nat
         /\ seq[id].gen \in Seq(Rows) /\ Len(seq[id].gen) \in Nat
         /\ seq[id].state \in States
         /\ seq[id].req.prompt \in Nat /\ seq[id].req.max \in Nat /\ seq[id].req.eos \in Nat
  <1>1. seq[id] \in SeqRecords
    BY DEF BaseTypeOK
  <1>2. seq[id].req \in [prompt : Nat, max : Nat, eos : Nat]
    <2>1. seq[id].req \in Requests \cup {NoRequest}
      BY <1>1 DEF SeqRecords
    <2>2. NoRequest \in [prompt : Nat, max : Nat, eos : Nat]
      BY DEF NoRequest
    <2> QED BY <2>1, <2>2, RequestAssumption
  <1>3. seq[id].gen \in Seq(Rows)
    BY <1>1 DEF SeqRecords
  <1>4. Len(seq[id].gen) \in Nat
    BY <1>3, LenProperties
  <1> QED BY <1>1, <1>2, <1>3, <1>4 DEF SeqRecords

LEMMA NewFields ==
  ASSUME NEW r \in Requests \cup {NoRequest}
  PROVE  /\ NewSeq(r) \in SeqRecords
         /\ NewSeq(r).req = r /\ NewSeq(r).state = "WAITING"
         /\ NewSeq(r).kvLen = 0 /\ NewSeq(r).held = 0 /\ NewSeq(r).cursor = 0
         /\ NewSeq(r).gen = << >> /\ NewSeq(r).reason = Unfinished
  <1>1. << >> \in Seq(Rows)
    OBVIOUS
  <1> QED BY <1>1 DEF NewSeq, SeqRecords, States

LEMMA LiveFields ==
  ASSUME BaseTypeOK, Objects, NEW id \in Ids, seq[id].state # "NONE"
  PROVE  /\ seq[id].req \in Requests
         /\ seq[id].req.prompt > 0 /\ seq[id].req.prompt + seq[id].req.max <= MaxPos
         /\ WrittenAtMost(seq[id].req) \in Nat
         /\ seq[id].req.prompt <= WrittenAtMost(seq[id].req)
         /\ seq[id].kvLen <= WrittenAtMost(seq[id].req)
  <1>1. /\ seq[id].req \in Requests /\ Accepts(seq[id].req)
        /\ seq[id].kvLen <= WrittenAtMost(seq[id].req)
    BY DEF Objects, Sound
  <1>2. seq[id].req.prompt \in Nat /\ seq[id].req.max \in Nat
    BY SeqFields
  <1> QED BY <1>1, <1>2 DEF Accepts, WrittenAtMost

LEMMA TagIsRow ==
  ASSUME NEW id \in Ids, NEW n \in Nat
  PROVE  /\ Tag(id, n) \in Rows /\ Tag(id, n) # Dead /\ Tag(id, n).of = id
         /\ Tag(id, n).at = n /\ Dead \in Rows /\ Garbage \in Rows
  BY IdsFinite DEF Tag, Rows, Dead, Garbage

(* A write at the position the cache stops at, or one before.              *)
LEMMA WriteFields ==
  ASSUME BaseTypeOK, NEW c \in Ids, NEW p \in Nat,
         seq[c].kvLen \in {p, p + 1}, seq[c].held = Layout!BlocksFor(seq[c].kvLen)
  PROVE  /\ AfterWrite(c, p) \in SeqRecords
         /\ AfterWrite(c, p).kvLen = p + 1
         /\ AfterWrite(c, p).held = Layout!BlocksFor(p + 1)
         /\ AfterWrite(c, p).held = IF NeedsBlock(c, p) THEN seq[c].held + 1
                                                        ELSE seq[c].held
         /\ AfterWrite(c, p).state = seq[c].state /\ AfterWrite(c, p).req = seq[c].req
         /\ AfterWrite(c, p).gen = seq[c].gen /\ AfterWrite(c, p).reason = seq[c].reason
         /\ AfterWrite(c, p).cursor = seq[c].cursor
         /\ LogitsAt(c, p) = Tag(c, p + 1)
  <1>1. seq[c] \in SeqRecords /\ seq[c].held \in Nat /\ seq[c].kvLen \in Nat
    BY SeqFields
  <1> DEFINE h == IF NeedsBlock(c, p) THEN seq[c].held + 1 ELSE seq[c].held
             t == [seq[c] EXCEPT !.kvLen = p + 1, !.held = h]
  <1>2. AfterWrite(c, p) = t
    BY <1>1 DEF AfterWrite, SeqRecords
  <1>3. h = Layout!BlocksFor(p + 1) /\ h \in Nat
    <2>1. /\ Layout!BlkIdx(p) \in Nat
          /\ Layout!BlocksFor(p + 1) = Layout!BlkIdx(p) + 1
          /\ Layout!BlocksFor(p) \in {Layout!BlkIdx(p), Layout!BlkIdx(p) + 1}
      BY BlocksStep
    <2> QED BY <1>1, <2>1 DEF NeedsBlock
  <1> HIDE DEF h
  <1>4. t \in SeqRecords
    <2>1. p + 1 \in Nat
      OBVIOUS
    <2> QED BY <1>1, <1>3, <2>1 DEF SeqRecords
  <1>5. LogitsAt(c, p) = Tag(c, p + 1)
    BY DEF LogitsAt
  <1>6. /\ t.kvLen = p + 1 /\ t.held = h /\ t.state = seq[c].state /\ t.req = seq[c].req
        /\ t.gen = seq[c].gen /\ t.reason = seq[c].reason /\ t.cursor = seq[c].cursor
    BY <1>1 DEF SeqRecords
  <1> HIDE DEF t
  <1> QED BY <1>2, <1>3, <1>4, <1>5, <1>6 DEF h

LEMMA FinishFields ==
  ASSUME NEW s \in SeqRecords, NEW why \in {"stop", "length", "capacity"}
  PROVE  /\ Finish(s, why) \in SeqRecords
         /\ Finish(s, why).state = "FINISHED" /\ Finish(s, why).reason = why
         /\ Finish(s, why).req = s.req /\ Finish(s, why).gen = s.gen
         /\ Finish(s, why).kvLen = s.kvLen /\ Finish(s, why).held = s.held
         /\ Finish(s, why).cursor = s.cursor
  BY DEF Finish, SeqRecords, States

(* One sampled token: the sequence goes on with the token generate would   *)
(* have sampled, or ends where generate ends.                              *)
LEMMA SampledFrom ==
  ASSUME BaseTypeOK, NEW c \in Ids, NEW o \in SeqRecords,
         o.req = seq[c].req, Sampled(c, o), o.reason = Unfinished,
         Len(o.gen) < o.req.max,
         NEW lg, lg = Tag(c, o.req.prompt + Len(o.gen))
  PROVE  LET s == AfterSample(o, lg)
         IN  /\ s \in SeqRecords
             /\ s.req = o.req /\ s.kvLen = o.kvLen
             /\ s.held = o.held /\ s.cursor = o.cursor
             /\ Sampled(c, s)
             /\ \/ /\ s.state = "FINISHED" /\ s.reason \in {"stop", "length"}
                   /\ Answered(s)
                \/ /\ s.state = "RUNNING" /\ s.reason = Unfinished
                   /\ Len(s.gen) = Len(o.gen) + 1 /\ Len(s.gen) < s.req.max
  <1> DEFINE g == o.gen
             n == Len(g)
             m == o.req.max
             e == o.req.eos
             q == o.req.prompt
             pushed == [o EXCEPT !.gen = Append(@, lg)]
             s == AfterSample(o, lg)
  <1>1. /\ o \in SeqRecords /\ g \in Seq(Rows) /\ n \in Nat
        /\ m \in Nat /\ e \in Nat /\ q \in Nat /\ lg = Tag(c, q + n)
    <2>1. g \in Seq(Rows)
      BY DEF SeqRecords
    <2>2. n \in Nat
      BY <2>1, LenProperties
    <2> QED BY <2>1, <2>2, SeqFields
  <1>2. /\ n <= e /\ n < m
        /\ \A k \in 1 .. n : g[k] = Tag(c, q + k - 1)
    BY DEF Sampled
  <1>3. ASSUME lg.of = c PROVE IsEos(lg) <=> lg.at - q = e
    BY <1>3 DEF IsEos
  <1>4. IF IsEos(lg) THEN s = Finish(o, "stop")
        ELSE IF Len(pushed.gen) >= m THEN s = Finish(pushed, "length")
        ELSE s = [pushed EXCEPT !.state = "RUNNING"]
    BY DEF AfterSample
  <1> HIDE DEF s, n, m, e, q
  <1>5. lg \in Rows /\ lg.of = c /\ lg.at = q + n
    <2>1. q + n \in Nat
      BY <1>1
    <2> QED BY <1>1, <2>1, TagIsRow
  <1>6. IsEos(lg) <=> n = e
    <2>1. IsEos(lg) <=> lg.at - q = e
      BY <1>3, <1>5
    <2> QED BY <2>1, <1>1, <1>5
  <1>7. /\ Append(g, lg) \in Seq(Rows) /\ Len(Append(g, lg)) = n + 1
        /\ \A k \in 1 .. n : Append(g, lg)[k] = g[k]
        /\ Append(g, lg)[n + 1] = lg
    BY <1>1, <1>5, AppendProperties DEF n
  <1>8. /\ pushed \in SeqRecords /\ pushed.gen = Append(g, lg)
        /\ pushed.req = o.req /\ pushed.kvLen = o.kvLen
        /\ pushed.held = o.held /\ pushed.cursor = o.cursor
        /\ pushed.reason = Unfinished
    BY <1>1, <1>7 DEF SeqRecords
  <1> HIDE DEF pushed
  <1>9. CASE IsEos(lg)
    <2>1. s = Finish(o, "stop")
      BY <1>9, <1>4
    <2>2. n = e /\ e < m
      BY <1>6, <1>2, <1>9
    <2>3. /\ s \in SeqRecords /\ s.req = o.req /\ s.kvLen = o.kvLen
          /\ s.held = o.held /\ s.cursor = o.cursor /\ s.gen = g
          /\ s.state = "FINISHED" /\ s.reason = "stop"
      BY <2>1, <1>1, FinishFields
    <2>4. Answered(s)
      BY <2>2, <2>3 DEF Answered, n, e, m
    <2>5. Sampled(c, s)
      BY <2>3 DEF Sampled
    <2> QED BY <2>3, <2>4, <2>5 DEF s
  <1>10. CASE ~ IsEos(lg)
    <2>1. ASSUME NEW k \in 1 .. n + 1
          PROVE  Append(g, lg)[k] = Tag(c, q + k - 1)
      <3>1. CASE k = n + 1
        <4>1. q + k - 1 = q + n
          BY <3>1, <1>1
        <4> QED BY <3>1, <4>1, <1>1, <1>7
      <3>2. CASE k # n + 1
        <4>1. k \in 1 .. n
          BY <3>2, <1>1
        <4> QED BY <4>1, <1>7, <1>2
      <3> QED BY <3>1, <3>2
    <2>2. n + 1 <= e /\ n + 1 <= m
      BY <1>1, <1>2, <1>6, <1>10
    <2>3. Len(pushed.gen) = n + 1
      BY <1>7, <1>8
    <2>4. ASSUME s.gen = Append(g, lg), s.req = o.req
          PROVE  Sampled(c, s)
      <3>1. Len(s.gen) = n + 1 /\ s.req.max = m /\ s.req.eos = e /\ s.req.prompt = q
        BY <2>4, <1>7 DEF m, e, q
      <3>2. \A k \in 1 .. Len(s.gen) : s.gen[k] = Tag(c, s.req.prompt + k - 1)
        BY <2>1, <2>4, <3>1
      <3> QED BY <3>1, <3>2, <2>2 DEF Sampled
    <2>5. CASE Len(pushed.gen) >= m
      <3>1. s = Finish(pushed, "length")
        BY <1>10, <2>5, <1>4
      <3>2. /\ s \in SeqRecords /\ s.req = o.req /\ s.kvLen = o.kvLen
            /\ s.held = o.held /\ s.cursor = o.cursor
            /\ s.gen = Append(g, lg)
            /\ s.state = "FINISHED" /\ s.reason = "length"
        BY <3>1, <1>8, FinishFields
      <3>3. n + 1 = m /\ m <= e
        BY <2>2, <2>3, <2>5, <1>1
      <3>4. Len(s.gen) = n + 1 /\ s.req.max = m /\ s.req.eos = e
        BY <3>2, <1>7 DEF m, e
      <3>5. Answered(s)
        BY <3>2, <3>3, <3>4 DEF Answered
      <3> QED BY <3>2, <3>5, <2>4 DEF s
    <2>6. CASE ~ (Len(pushed.gen) >= m)
      <3>1. s = [pushed EXCEPT !.state = "RUNNING"]
        BY <1>10, <2>6, <1>4
      <3>2. /\ s \in SeqRecords /\ s.req = o.req /\ s.kvLen = o.kvLen
            /\ s.held = o.held /\ s.cursor = o.cursor
            /\ s.gen = Append(g, lg)
            /\ s.state = "RUNNING" /\ s.reason = Unfinished
        BY <3>1, <1>8 DEF SeqRecords, States
      <3>3. n + 1 < m
        BY <2>6, <2>3, <1>1
      <3>4. Len(s.gen) = n + 1 /\ s.req.max = m
        BY <3>2, <1>7 DEF m
      <3>5. Len(s.gen) = Len(o.gen) + 1 /\ Len(s.gen) < s.req.max
        BY <3>3, <3>4 DEF n
      <3> QED BY <3>2, <3>5, <2>4 DEF s
    <2> QED BY <2>5, <2>6
  <1> QED BY <1>9, <1>10

LEMMA SampleFields ==
  ASSUME BaseTypeOK, NEW c \in Ids, Sampled(c, seq[c]), seq[c].reason = Unfinished,
         Len(seq[c].gen) < seq[c].req.max,
         NEW lg, lg = Tag(c, seq[c].req.prompt + Len(seq[c].gen))
  PROVE  LET s == AfterSample(seq[c], lg)
         IN  /\ s \in SeqRecords
             /\ s.req = seq[c].req /\ s.kvLen = seq[c].kvLen
             /\ s.held = seq[c].held /\ s.cursor = seq[c].cursor
             /\ Sampled(c, s)
             /\ \/ /\ s.state = "FINISHED" /\ s.reason \in {"stop", "length"}
                   /\ Answered(s)
                \/ /\ s.state = "RUNNING" /\ s.reason = Unfinished
                   /\ Len(s.gen) = Len(seq[c].gen) + 1 /\ Len(s.gen) < s.req.max
  <1>1. seq[c] \in SeqRecords
    BY SeqFields
  <1> QED BY <1>1, SampledFrom

(* The first token of a sequence, sampled from its prefilled prompt; a     *)
(* request for none is answered at once.                                   *)
LEMMA PrefillSampled ==
  ASSUME BaseTypeOK, NEW c \in Ids, Sampled(c, seq[c]), seq[c].reason = Unfinished,
         seq[c].gen = << >>, NEW lg, lg = Tag(c, seq[c].req.prompt),
         NEW t, t = AfterPrefill(seq[c], lg)
  PROVE  /\ t \in SeqRecords
         /\ t.req = seq[c].req /\ t.kvLen = seq[c].kvLen /\ t.held = seq[c].held
         /\ Sampled(c, t)
         /\ \/ /\ t.state = "FINISHED" /\ t.reason \in {"stop", "length"} /\ Answered(t)
            \/ /\ t.state = "RUNNING" /\ t.reason = Unfinished
               /\ Len(t.gen) = 1 /\ Len(t.gen) < seq[c].req.max
  <1> DEFINE q == seq[c].req.prompt
             m == seq[c].req.max
  <1>1. /\ seq[c] \in SeqRecords /\ q \in Nat /\ m \in Nat /\ seq[c].req.eos \in Nat
    BY SeqFields
  <1>2. CASE m = 0
    <2>1. t = Finish(seq[c], "length")
      BY <1>2 DEF AfterPrefill
    <2>2. /\ t \in SeqRecords /\ t.req = seq[c].req /\ t.kvLen = seq[c].kvLen
          /\ t.held = seq[c].held /\ t.gen = seq[c].gen
          /\ t.state = "FINISHED" /\ t.reason = "length"
      BY <2>1, <1>1, FinishFields
    <2>3. Len(t.gen) = 0
      <3>1. Len(<< >>) = 0
        OBVIOUS
      <3> QED BY <3>1, <2>2
    <2>4. Sampled(c, t)
      BY <2>2 DEF Sampled
    <2>5. Answered(t)
      <3>1. t.req.max = 0 /\ 0 <= t.req.eos
        BY <2>2, <1>2, <1>1
      <3> QED BY <2>2, <2>3, <3>1 DEF Answered
    <2> QED BY <2>2, <2>4, <2>5
  <1>3. CASE m # 0
    <2>1. t = AfterSample(seq[c], lg)
      BY <1>3 DEF AfterPrefill
    <2>2. Len(seq[c].gen) = 0
      <3>1. Len(<< >>) = 0
        OBVIOUS
      <3> QED BY <3>1
    <2>3. Len(seq[c].gen) < seq[c].req.max
      BY <2>2, <1>3, <1>1
    <2>4. lg = Tag(c, seq[c].req.prompt + Len(seq[c].gen))
      <3>1. q + 0 = q
        BY <1>1
      <3> QED BY <3>1, <2>2
    <2> DEFINE s == AfterSample(seq[c], lg)
    <2>5. /\ s \in SeqRecords
          /\ s.req = seq[c].req /\ s.kvLen = seq[c].kvLen /\ s.held = seq[c].held
          /\ Sampled(c, s)
          /\ \/ /\ s.state = "FINISHED" /\ s.reason \in {"stop", "length"} /\ Answered(s)
             \/ /\ s.state = "RUNNING" /\ s.reason = Unfinished
                /\ Len(s.gen) = Len(seq[c].gen) + 1 /\ Len(s.gen) < s.req.max
      <3>1. /\ BaseTypeOK /\ c \in Ids /\ Sampled(c, seq[c]) /\ seq[c].reason = Unfinished
            /\ Len(seq[c].gen) < seq[c].req.max
            /\ lg = Tag(c, seq[c].req.prompt + Len(seq[c].gen))
        BY <2>3, <2>4
      <3> QED BY <3>1, SampleFields
    <2> HIDE DEF s
    <2>6. t = s
      BY <2>1 DEF s
    <2>7. s.req.max = m
      BY <2>5
    <2> QED BY <2>2, <2>5, <2>6, <2>7
  <1> QED BY <1>2, <1>3

LEMMA RetireFields ==
  ASSUME BaseTypeOK, NEW list \in Seq(Ids), Retire(list), NEW id \in Ids
  PROVE  /\ seq'[id] \in SeqRecords
         /\ id \notin ToSet(list) => seq'[id] = seq[id]
         /\ id \in ToSet(list) => /\ seq'[id].state = "GONE" /\ seq'[id].held = 0
                                  /\ seq'[id].req = seq[id].req /\ seq'[id].gen = seq[id].gen
                                  /\ seq'[id].reason = seq[id].reason
                                  /\ seq'[id].kvLen = seq[id].kvLen
                                  /\ seq'[id].cursor = seq[id].cursor
  <1>1. seq'[id] = IF id \in ToSet(list)
                     THEN [seq[id] EXCEPT !.state = "GONE", !.held = 0] ELSE seq[id]
    BY DEF Retire
  <1>2. seq[id] \in SeqRecords
    BY SeqFields
  <1>3. CASE id \in ToSet(list)
    <2>1. seq'[id] = [seq[id] EXCEPT !.state = "GONE", !.held = 0]
      BY <1>1, <1>3
    <2> DEFINE s == seq[id]
               t == [s EXCEPT !.state = "GONE", !.held = 0]
    <2> HIDE DEF s
    <2>2. s \in SeqRecords
      BY <1>2 DEF s
    <2>3. t \in SeqRecords
      BY <2>2 DEF SeqRecords, States
    <2>4. /\ t.state = "GONE" /\ t.held = 0 /\ t.req = s.req /\ t.gen = s.gen
          /\ t.reason = s.reason /\ t.kvLen = s.kvLen /\ t.cursor = s.cursor
      BY <2>2 DEF SeqRecords
    <2>5. seq'[id] = t
      BY <2>1 DEF s
    <2> HIDE DEF t
    <2> QED BY <1>3, <2>3, <2>4, <2>5 DEF s
  <1>4. CASE id \notin ToSet(list)
    BY <1>1, <1>2, <1>4
  <1> QED BY <1>3, <1>4

LEMMA ResultFields ==
  ASSUME BaseTypeOK, Objects, NEW id \in Ids, seq[id].state = "FINISHED"
  PROVE  ResultOf(id) \in [id : Ids, gen : Seq(Rows),
                           reason : {"stop", "length", "capacity"}]
  <1>1. seq[id].gen \in Seq(Rows) /\ seq[id] \in SeqRecords
    BY SeqFields
  <1>2. seq[id].reason \in {"stop", "length", "capacity"}
    BY <1>1 DEF Objects, Sound, SeqRecords
  <1> QED BY <1>1, <1>2 DEF ResultOf

LEMMA RetireResults ==
  ASSUME BaseTypeOK, Objects, NEW list \in Seq(Ids), Retire(list),
         \A id \in ToSet(list) : seq[id].state = "FINISHED"
  PROVE  /\ results' \in Seq([id : Ids, gen : Seq(Rows),
                              reason : {"stop", "length", "capacity"}])
         /\ [i \in DOMAIN list |-> ResultOf(list[i])]
              \in Seq([id : Ids, gen : Seq(Rows), reason : {"stop", "length", "capacity"}])
  <1> DEFINE R   == [id : Ids, gen : Seq(Rows), reason : {"stop", "length", "capacity"}]
             new == [i \in DOMAIN list |-> ResultOf(list[i])]
  <1>1. Len(list) \in Nat /\ DOMAIN list = 1 .. Len(list)
    BY LenProperties
  <1>2. ASSUME NEW i \in DOMAIN list PROVE ResultOf(list[i]) \in R
    <2>1. list[i] \in ToSet(list) /\ list[i] \in Ids
      BY <1>1 DEF ToSet
    <2> QED BY <2>1, ResultFields
  <1> HIDE DEF R
  <1>3. new \in [1 .. Len(list) -> R]
    BY <1>1, <1>2
  <1>4. new \in Seq(R)
    <2>1. [1 .. Len(list) -> R] \subseteq Seq(R)
      BY <1>1, SeqDef
    <2> QED BY <1>3, <2>1
  <1>5. results \in Seq(R) /\ results' = results \o new
    BY DEF BaseTypeOK, Retire, R
  <1> HIDE DEF new
  <1>6. results' \in Seq(R)
    BY <1>4, <1>5, ConcatProperties
  <1> QED BY <1>4, <1>6 DEF R, new

LEMMA ObjectsAfter ==
  ASSUME Objects, NEW c \in Ids, \A id \in Ids \ {c} : seq'[id] = seq[id],
         Sound(c, seq'[c])
  PROVE  Objects'
  <1> SUFFICES ASSUME NEW id \in Ids PROVE Sound(id, seq'[id])
    BY DEF Objects
  <1> QED BY DEF Objects

-----------------------------------------------------------------------------
(* What the steps of both schedulers leave of types, objects and accounts. *)

LEMMA InitObjects ==
  ASSUME BaseInit
  PROVE  /\ BaseTypeOK /\ Objects /\ Accounted
         /\ \A id \in Ids : seq[id].state = "NONE" /\ seq[id].reason = Unfinished
  <1>1. /\ seq = [id \in Ids |-> NoSeq] /\ nextId = 0 /\ results = << >>
        /\ freeBlocks = NumBlocks
    BY DEF BaseInit
  <1>2. /\ NoSeq \in SeqRecords /\ NoSeq.state = "NONE" /\ NoSeq.kvLen = 0 /\ NoSeq.held = 0
        /\ NoSeq.cursor = 0 /\ NoSeq.gen = << >> /\ NoSeq.reason = Unfinished
        /\ NoSeq.req = NoRequest
    <2>1. NewSeq(NoRequest) \in SeqRecords
      BY NewFields
    <2>2. NoSeq = [NewSeq(NoRequest) EXCEPT !.state = "NONE"]
      BY DEF NoSeq
    <2>3. NoSeq \in SeqRecords /\ NoSeq.state = "NONE"
      BY <2>1, <2>2 DEF SeqRecords, States
    <2>4. /\ NoSeq.kvLen = NewSeq(NoRequest).kvLen /\ NoSeq.held = NewSeq(NoRequest).held
          /\ NoSeq.cursor = NewSeq(NoRequest).cursor /\ NoSeq.gen = NewSeq(NoRequest).gen
          /\ NoSeq.reason = NewSeq(NoRequest).reason /\ NoSeq.req = NewSeq(NoRequest).req
      BY <2>1, <2>2 DEF SeqRecords
    <2> QED BY <2>3, <2>4, NewFields
  <1>3. \A id \in Ids : seq[id] = NoSeq
    BY <1>1
  <1>4. BaseTypeOK
    <2>1. NumBlocks \in Nat /\ MaxSeqs \in Nat
      BY PoolAssumption, RequestAssumption
    <2>2. seq \in [Ids -> SeqRecords]
      BY <1>1, <1>2
    <2> QED BY <1>1, <2>1, <2>2 DEF BaseTypeOK
  <1>5. Objects
    <2>1. Layout!BlocksFor(0) = 0
      BY DEF Layout!BlocksFor
    <2>2. ASSUME NEW id \in Ids PROVE Sound(id, NoSeq)
      <3>1. Sampled(id, NoSeq)
        <4>1. NoRequest.eos = 0 /\ NoRequest.max = 0 /\ Len(<< >>) = 0
          BY DEF NoRequest
        <4> QED BY <1>2, <4>1 DEF Sampled
      <3> QED BY <1>2, <2>1, <3>1 DEF Sound
    <2> QED BY <1>3, <2>2 DEF Objects
  <1>6. Accounted
    <2>1. Held \in [Ids -> Nat] /\ HeldBy(Ids) = Total(Held, Ids)
      BY <1>4, HeldType
    <2>2. \A id \in Ids : Held[id] = 0
      BY <1>2, <1>3 DEF Held
    <2>3. Total(Held, Ids) = Total(Held, {})
      BY <2>1, <2>2, TotalSupport
    <2>4. Total(Held, {}) = 0
      <3>1. Entries(Held, {}) = {}
        BY EntriesMember
      <3> QED BY <3>1, FS_EmptySet DEF Total
    <2> QED BY <1>1, <2>1, <2>3, <2>4, PoolAssumption DEF Accounted
  <1> QED BY <1>2, <1>3, <1>4, <1>5, <1>6

(* enqueue(): a new object under the next id.                              *)
LEMMA EnqueueObjects ==
  ASSUME BaseTypeOK, Objects, Accounted, NEW r \in Requests, Accepts(r),
         nextId < MaxSeqs, seq[nextId].state = "NONE",
         seq' = [seq EXCEPT ![nextId] = NewSeq(r)], nextId' = nextId + 1,
         UNCHANGED << results, freeBlocks >>
  PROVE  /\ BaseTypeOK' /\ Objects' /\ Accounted'
         /\ nextId \in Ids /\ seq'[nextId] = NewSeq(r)
         /\ \A id \in Ids \ {nextId} : seq'[id] = seq[id]
  <1> DEFINE c == nextId
  <1>1. c \in Ids /\ c + 1 \in 0 .. MaxSeqs /\ c \in Nat
    <2>1. c \in 0 .. MaxSeqs /\ MaxSeqs \in Nat
      BY RequestAssumption DEF BaseTypeOK
    <2> QED BY <2>1 DEF Ids
  <1>2. /\ NewSeq(r) \in SeqRecords
        /\ NewSeq(r).req = r /\ NewSeq(r).state = "WAITING"
        /\ NewSeq(r).kvLen = 0 /\ NewSeq(r).held = 0 /\ NewSeq(r).cursor = 0
        /\ NewSeq(r).gen = << >> /\ NewSeq(r).reason = Unfinished
    BY NewFields
  <1>3. seq'[c] = NewSeq(r) /\ \A id \in Ids \ {c} : seq'[id] = seq[id]
    BY <1>1 DEF BaseTypeOK
  <1>4. seq[c].held = 0
    <2>1. seq[c].kvLen = 0 /\ seq[c].held = Layout!BlocksFor(seq[c].kvLen)
      BY <1>1 DEF Objects, Sound
    <2> QED BY <2>1 DEF Layout!BlocksFor
  <1>5. BaseTypeOK'
    <2>1. seq' \in [Ids -> SeqRecords]
      BY <1>2 DEF BaseTypeOK
    <2> QED BY <1>1, <2>1 DEF BaseTypeOK
  <1>6. Objects'
    <2>1. Layout!BlocksFor(0) = 0
      BY DEF Layout!BlocksFor
    <2>2. 0 <= WrittenAtMost(r) /\ r.eos \in Nat /\ r.max \in Nat
      <3>1. r.prompt \in Nat /\ r.max \in Nat /\ r.eos \in Nat
        BY RequestAssumption
      <3> QED BY <3>1 DEF WrittenAtMost
    <2>3. Sampled(c, NewSeq(r))
      <3>1. Len(<< >>) = 0
        OBVIOUS
      <3> QED BY <3>1, <2>2, <1>2 DEF Sampled
    <2>4. Sound(c, NewSeq(r))
      BY <2>1, <2>2, <2>3, <1>2 DEF Sound
    <2> QED BY <1>1, <1>3, <2>4, ObjectsAfter
  <1>7. Accounted'
    <2>1. \A id \in Ids : seq'[id].held = seq[id].held
      BY <1>2, <1>3, <1>4
    <2> QED BY <2>1, HeldStays
  <1> QED BY <1>1, <1>3, <1>5, <1>6, <1>7

(* One object changes and no block changes hands.                          *)
LEMMA OneObject ==
  ASSUME BaseTypeOK, Objects, Accounted, NEW c \in Ids, NEW t \in SeqRecords,
         seq' = [seq EXCEPT ![c] = t], t.held = seq[c].held, Sound(c, t),
         UNCHANGED << nextId, results, freeBlocks >>
  PROVE  /\ BaseTypeOK' /\ Objects' /\ Accounted'
         /\ seq'[c] = t /\ \A id \in Ids \ {c} : seq'[id] = seq[id]
  <1>1. seq'[c] = t /\ \A id \in Ids \ {c} : seq'[id] = seq[id]
    BY DEF BaseTypeOK
  <1>2. Accounted'
    <2>1. \A id \in Ids : seq'[id].held = seq[id].held
      BY <1>1
    <2> QED BY <2>1, HeldStays
  <1>3. BaseTypeOK'
    BY DEF BaseTypeOK
  <1>4. Objects'
    BY <1>1, ObjectsAfter
  <1> QED BY <1>1, <1>2, <1>3, <1>4

(* A write extends one cache and takes its block from the pool.            *)
LEMMA OneCache ==
  ASSUME BaseTypeOK, Objects, Accounted, NEW c \in Ids, NEW p \in Nat, NEW t \in SeqRecords,
         CanWrite(c, p), seq[c].kvLen \in {p, p + 1}, seq[c].state # "GONE",
         seq' = [seq EXCEPT ![c] = t], freeBlocks' = FreeAfterWrite(c, p),
         t.held = AfterWrite(c, p).held, Sound(c, t),
         UNCHANGED << nextId, results >>
  PROVE  /\ BaseTypeOK' /\ Objects' /\ Accounted'
         /\ seq'[c] = t /\ \A id \in Ids \ {c} : seq'[id] = seq[id]
  <1>1. seq'[c] = t /\ \A id \in Ids \ {c} : seq'[id] = seq[id]
    BY DEF BaseTypeOK
  <1>2. seq[c].held = Layout!BlocksFor(seq[c].kvLen)
    BY DEF Objects, Sound
  <1>3. t.held = IF NeedsBlock(c, p) THEN seq[c].held + 1 ELSE seq[c].held
    BY <1>2, WriteFields
  <1>4. Accounted' /\ freeBlocks' \in 0 .. NumBlocks
    BY <1>1, <1>3, WriteAccounts
  <1>5. BaseTypeOK'
    BY <1>4 DEF BaseTypeOK
  <1>6. Objects'
    BY <1>1, ObjectsAfter
  <1> QED BY <1>1, <1>4, <1>5, <1>6

(* The objects and the pool after finished entries of a list are retired.  *)
LEMMA RetireObjects ==
  ASSUME BaseTypeOK, Objects, Accounted, NEW list \in Seq(Ids), Retire(list),
         nextId' = nextId, \A id \in ToSet(list) : seq[id].state = "FINISHED"
  PROVE  BaseTypeOK' /\ Objects' /\ Accounted'
  <1>1. Accounted' /\ freeBlocks' \in 0 .. NumBlocks
    BY RetireAccounts
  <1>2. BaseTypeOK'
    <2>1. seq' \in [Ids -> SeqRecords]
      <3>1. \A id \in Ids : seq'[id] \in SeqRecords
        BY RetireFields
      <3>2. seq' = [id \in Ids |-> seq'[id]]
        BY DEF Retire
      <3> QED BY <3>1, <3>2
    <2> QED BY <1>1, <2>1, RetireResults DEF BaseTypeOK
  <1>3. Objects'
    <2> SUFFICES ASSUME NEW id \in Ids PROVE Sound(id, seq'[id])
      BY DEF Objects
    <2>1. Sound(id, seq[id])
      BY DEF Objects
    <2>2. CASE id \in ToSet(list)
      BY <2>1, <2>2, RetireFields DEF Sound, Sampled
    <2>3. CASE id \notin ToSet(list)
      BY <2>1, <2>3, RetireFields
    <2> QED BY <2>2, <2>3
  <1> QED BY <1>1, <1>2, <1>3

-----------------------------------------------------------------------------
(* What a caller sees, in the words of Serving.                            *)

Service == INSTANCE Serving WITH asked <- Asked, pending <- Pending, InOrder <- FALSE

LEMMA IsPrefixOf ==
  ASSUME NEW S, NEW a \in Seq(S), NEW b \in Seq(S), Len(a) <= Len(b),
         \A i \in 1 .. Len(a) : a[i] = b[i]
  PROVE  IsPrefix(a, b)
  <1>1. /\ Len(a) \in Nat /\ Len(b) \in Nat
        /\ \A i \in 1 .. Len(a) : a[i] \in S /\ b[i] \in S
    BY LenProperties
  <1> DEFINE n == Len(a)
             u == SubSeq(a, 1, n)
             v == SubSeq(b, 1, n)
  <1>2. n \in Nat /\ \A i \in 1 .. n : a[i] \in S /\ b[i] \in S
    BY <1>1
  <1> HIDE DEF n
  <1>3. 1 \in Int /\ n \in Int
    BY <1>2
  <1>4. /\ u \in Seq(S) /\ v \in Seq(S)
        /\ Len(u) = IF 1 <= n THEN n - 1 + 1 ELSE 0
        /\ Len(v) = IF 1 <= n THEN n - 1 + 1 ELSE 0
        /\ \A i \in 1 .. n - 1 + 1 : u[i] = a[1 + i - 1] /\ v[i] = b[1 + i - 1]
    BY <1>2, <1>3, SubSeqProperties
  <1>5. Len(u) = n /\ Len(v) = n /\ \A i \in 1 .. n : u[i] = a[i] /\ v[i] = b[i]
    BY <1>2, <1>4
  <1>6. u = v
    <2>1. \A i \in 1 .. n : u[i] = v[i]
      BY <1>5 DEF n
    <2> HIDE DEF u, v
    <2> QED BY <1>4, <1>5, <2>1, SeqEqual
  <1> QED BY <1>6 DEF n, IsPrefix

LEMMA AskedAt ==
  ASSUME BaseTypeOK, NEW id \in Ids, id < nextId
  PROVE  Asked[id + 1] = seq[id].req
  <1>1. id \in Nat /\ nextId \in Nat
    BY IdsFinite DEF BaseTypeOK
  <1> DEFINE k == id + 1
  <1>2. k \in 1 .. nextId /\ k - 1 = id
    BY <1>1
  <1> HIDE DEF k
  <1>3. Asked[k] = seq[k - 1].req
    BY <1>2 DEF Asked
  <1> QED BY <1>2, <1>3 DEF k

(* An answered sequence holds what engine.generate returns, or its first   *)
(* tokens if it was refused a block.                                       *)
LEMMA AnswersAsGenerate ==
  ASSUME BaseTypeOK, Objects, NEW id \in Ids, seq[id].state = "FINISHED", id < nextId
  PROVE  Service!Answers(ResultOf(id))
  <1> DEFINE s   == seq[id]
             r   == seq[id].req
             len == IF r.eos < r.max THEN r.eos ELSE r.max
             g   == [i \in 1 .. len |-> Tag(id, r.prompt + i - 1)]
  <1>1. /\ s.gen \in Seq(Rows) /\ Len(s.gen) \in Nat
        /\ r.prompt \in Nat /\ r.max \in Nat /\ r.eos \in Nat
    BY SeqFields
  <1>2. Sampled(id, s) /\ Answered(s) /\ r.prompt > 0
    BY LiveFields DEF Objects, Sound
  <1>3. Asked[id + 1] = r
    BY AskedAt
  <1>4. Service!Generate(id) = [gen |-> g, reason |-> IF r.eos < r.max THEN "stop" ELSE "length"]
    BY <1>3 DEF Service!Generate, Service!Tag, Tag
  <1>5. len \in Nat /\ Len(s.gen) <= len
    BY <1>1, <1>2 DEF Sampled
  <1>6. g \in Seq(Rows) /\ Len(g) = len
    <2> HIDE DEF len
    <2>1. ASSUME NEW i \in 1 .. len PROVE Tag(id, r.prompt + i - 1) \in Rows
      <3>1. r.prompt + i - 1 \in Nat
        BY <1>1, <1>5
      <3> QED BY <3>1 DEF Tag, Rows
    <2>2. g \in [1 .. len -> Rows]
      BY <2>1
    <2> HIDE DEF g
    <2> QED BY <1>5, <2>2
  <1>7. \A i \in 1 .. Len(s.gen) : s.gen[i] = g[i]
    BY <1>1, <1>2, <1>5 DEF Sampled
  <1>8. ResultOf(id) = [id |-> id, gen |-> s.gen, reason |-> s.reason]
    BY DEF ResultOf
  <1>9. Len(s.gen) = len => s.gen = g
    <2> HIDE DEF len, g, s
    <2> QED BY <1>1, <1>6, <1>7, SeqEqual
  <1>10. CASE s.reason = "stop" /\ Len(s.gen) = r.eos /\ r.eos < r.max
    BY <1>4, <1>8, <1>9, <1>10 DEF Service!Answers
  <1>11. CASE s.reason = "length" /\ Len(s.gen) = r.max /\ r.max <= r.eos
    <2>1. ~ (r.eos < r.max)
      BY <1>1, <1>11
    <2> QED BY <2>1, <1>4, <1>8, <1>9, <1>11 DEF Service!Answers
  <1>12. CASE s.reason = "capacity" /\ (Len(s.gen) < r.max \/ s.gen = << >>)
    <2>1. IsPrefix(s.gen, g)
      <3>1. Len(s.gen) <= Len(g)
        BY <1>5, <1>6
      <3> HIDE DEF s, g
      <3> QED BY <1>1, <1>6, <1>7, <3>1, IsPrefixOf
    <2>2. s.gen = g => r.eos < r.max \/ s.gen = << >>
      BY <1>1, <1>6, <1>12, SMTT(30)
    <2>3. /\ ResultOf(id).id = id /\ ResultOf(id).gen = s.gen
          /\ ResultOf(id).reason = "capacity"
      BY <1>8, <1>12
    <2>4. /\ Service!Generate(id).gen = g
          /\ r.eos < r.max => Service!Generate(id).reason = "stop"
      BY <1>4
    <2> HIDE DEF s, g, len
    <2>5. Service!IsPrefix(s.gen, g)
      BY <2>1 DEF IsPrefix, Service!IsPrefix
    <2> QED BY <2>2, <2>3, <2>4, <2>5 DEF Service!Answers
  <1> QED BY <1>2, <1>10, <1>11, <1>12 DEF Answered

(* What a caller does not see.                                             *)
LEMMA Unseen ==
  ASSUME BaseTypeOK, UNCHANGED << nextId, results >>,
         \A id \in Ids : /\ id < nextId => seq'[id].req = seq[id].req
                         /\ seq'[id].state = "GONE" <=> seq[id].state = "GONE"
  PROVE  UNCHANGED << Asked, Pending, results >>
  <1>1. nextId \in 0 .. MaxSeqs /\ MaxSeqs \in Nat
    BY RequestAssumption DEF BaseTypeOK
  <1>2. Asked' = Asked
    <2>1. ASSUME NEW i \in 1 .. nextId PROVE seq'[i - 1].req = seq[i - 1].req
      <3>1. i - 1 \in Ids /\ i - 1 < nextId
        BY <1>1 DEF Ids
      <3> QED BY <3>1
    <2> QED BY <2>1 DEF Asked
  <1>3. Pending' = Pending
    <2>1. \A id \in 0 .. nextId - 1 : id \in Ids
      BY <1>1 DEF Ids
    <2> QED BY <2>1 DEF Pending
  <1> QED BY <1>2, <1>3

(* One object changes, none retires.                                       *)
LEMMA UnseenObject ==
  ASSUME BaseTypeOK, NEW c \in Ids, NEW t, seq' = [seq EXCEPT ![c] = t],
         t.req = seq[c].req, t.state # "GONE", seq[c].state # "GONE",
         UNCHANGED << nextId, results >>
  PROVE  UNCHANGED << Asked, Pending, results >>
  <1>1. seq'[c] = t /\ \A id \in Ids \ {c} : seq'[id] = seq[id]
    BY DEF BaseTypeOK
  <1>2. \A id \in Ids : /\ id < nextId => seq'[id].req = seq[id].req
                        /\ seq'[id].state = "GONE" <=> seq[id].state = "GONE"
    BY <1>1
  <1> QED BY <1>2, Unseen

LEMMA SameSequence ==
  ASSUME NEW s \in SeqRecords, s.state # "GONE", NEW lg
  PROVE  /\ AfterSample(s, lg).req = s.req /\ AfterSample(s, lg).state # "GONE"
         /\ AfterPrefill(s, lg).req = s.req /\ AfterPrefill(s, lg).state # "GONE"
         /\ Finish(s, "capacity").req = s.req /\ Finish(s, "capacity").state # "GONE"
  <1>1. ASSUME NEW why
        PROVE  Finish(s, why).req = s.req /\ Finish(s, why).state = "FINISHED"
    BY DEF Finish, SeqRecords
  <1> DEFINE pushed == [s EXCEPT !.gen = Append(@, lg)]
  <1>2. pushed.req = s.req
    BY DEF SeqRecords
  <1>3. ASSUME NEW why
        PROVE  Finish(pushed, why).req = s.req /\ Finish(pushed, why).state = "FINISHED"
    BY <1>2 DEF Finish, SeqRecords
  <1>4. [pushed EXCEPT !.state = "RUNNING"].req = s.req
        /\ [pushed EXCEPT !.state = "RUNNING"].state = "RUNNING"
    BY <1>2 DEF SeqRecords
  <1>5. AfterSample(s, lg) \in {Finish(s, "stop"), Finish(pushed, "length"),
                                [pushed EXCEPT !.state = "RUNNING"]}
    BY DEF AfterSample
  <1>6. AfterSample(s, lg).req = s.req /\ AfterSample(s, lg).state # "GONE"
    <2> HIDE DEF pushed
    <2> QED BY <1>1, <1>3, <1>4, <1>5
  <1>7. AfterPrefill(s, lg) \in {Finish(s, "length"), AfterSample(s, lg)}
    BY DEF AfterPrefill
  <1> QED BY <1>1, <1>6, <1>7

LEMMA SameWritten ==
  ASSUME BaseTypeOK, NEW c \in Ids, NEW p
  PROVE  AfterWrite(c, p).req = seq[c].req /\ AfterWrite(c, p).state = seq[c].state
  <1>1. seq[c] \in SeqRecords
    BY SeqFields
  <1> QED BY <1>1 DEF AfterWrite, SeqRecords

(* An accepted request is the next one asked, and pending.                 *)
LEMMA EnqueueAsks ==
  ASSUME BaseTypeOK, NEW r \in Requests, nextId < MaxSeqs,
         seq' = [seq EXCEPT ![nextId] = NewSeq(r)], nextId' = nextId + 1
  PROVE  Asked' = Append(Asked, r) /\ Pending' = Pending \cup {Len(Asked)}
  <1> DEFINE c == nextId
             B == Requests \cup {NoRequest}
  <1>1. c \in 0 .. MaxSeqs /\ MaxSeqs \in Nat
    BY RequestAssumption DEF BaseTypeOK
  <1>2. c < MaxSeqs /\ seq' = [seq EXCEPT ![c] = NewSeq(r)] /\ nextId' = c + 1
    OBVIOUS
  <1>3. c \in Nat /\ c \in Ids
    BY <1>1, <1>2 DEF Ids
  <1>4. NewSeq(r).req = r /\ NewSeq(r).state = "WAITING"
    BY NewFields
  <1>5. seq'[c] = NewSeq(r) /\ \A id \in Ids \ {c} : seq'[id] = seq[id]
    BY <1>1, <1>2, <1>3 DEF BaseTypeOK
  <1>6. Asked \in Seq(B) /\ Len(Asked) = c
    <2>1. ASSUME NEW i \in 1 .. c PROVE seq[i - 1].req \in B
      <3>1. i - 1 \in Ids
        BY <1>1 DEF Ids
      <3>2. seq[i - 1] \in SeqRecords
        BY <3>1, <1>1, SeqFields
      <3> QED BY <3>2 DEF SeqRecords
    <2>2. Asked \in [1 .. c -> B]
      BY <2>1 DEF Asked
    <2> HIDE DEF c, B
    <2> QED BY <2>2, <1>3
  <1>7. /\ Append(Asked, r) \in Seq(B) /\ Len(Append(Asked, r)) = c + 1
        /\ \A i \in 1 .. c : Append(Asked, r)[i] = Asked[i]
        /\ Append(Asked, r)[c + 1] = r
    <2>1. r \in B
      OBVIOUS
    <2> HIDE DEF B
    <2> QED BY <2>1, <1>6, AppendProperties
  <1>8. ASSUME NEW i \in 1 .. c PROVE Asked'[i] = Asked[i]
    <2>1. i - 1 \in Ids \ {c} /\ i \in 1 .. c + 1
      BY <1>1, <1>3 DEF Ids
    <2>2. Asked[i] = seq[i - 1].req
      BY DEF Asked
    <2>3. Asked'[i] = seq'[i - 1].req
      BY <2>1, <1>2 DEF Asked
    <2> QED BY <2>1, <2>2, <2>3, <1>5
  <1>9. Asked'[c + 1] = r
    <2> DEFINE k == c + 1
    <2>1. k \in 1 .. c + 1 /\ k - 1 = c
      BY <1>3
    <2> HIDE DEF k
    <2>2. Asked'[k] = seq'[k - 1].req
      BY <2>1, <1>2 DEF Asked
    <2> QED BY <2>1, <2>2, <1>4, <1>5 DEF k
  <1>10. Asked' \in Seq(B) /\ Len(Asked') = c + 1
    <2>1. DOMAIN Asked' = 1 .. c + 1 /\ Asked' = [i \in 1 .. c + 1 |-> Asked'[i]]
      BY <1>2 DEF Asked
    <2>2. ASSUME NEW i \in 1 .. c + 1 PROVE Asked'[i] \in B
      <3>1. CASE i = c + 1
        BY <3>1, <1>9
      <3>2. CASE i # c + 1
        <4>1. i \in 1 .. c
          BY <3>2, <1>3
        <4>2. Asked[i] \in B
          BY <4>1, <1>6, LenProperties
        <4> QED BY <4>1, <4>2, <1>8
      <3> QED BY <3>1, <3>2
    <2>3. Asked' \in [1 .. c + 1 -> B]
      BY <2>1, <2>2
    <2> HIDE DEF B
    <2> QED BY <2>3, <1>3
  <1>11. Asked' = Append(Asked, r)
    <2>1. ASSUME NEW i \in 1 .. c + 1 PROVE Asked'[i] = Append(Asked, r)[i]
      <3>1. CASE i = c + 1
        BY <3>1, <1>7, <1>9
      <3>2. CASE i # c + 1
        <4>1. i \in 1 .. c
          BY <3>2, <1>3
        <4> QED BY <4>1, <1>7, <1>8
      <3> QED BY <3>1, <3>2
    <2> HIDE DEF B
    <2> QED BY <2>1, <1>7, <1>10, SeqEqual
  <1>12. Pending' = Pending \cup {Len(Asked)}
    <2>1. 0 .. c + 1 - 1 = (0 .. c - 1) \cup {c}
      BY <1>3
    <2>2. Pending' = {id \in 0 .. c : seq'[id].state # "GONE"}
      <3>1. (c + 1) - 1 = c
        BY <1>3
      <3> QED BY <3>1, <1>2 DEF Pending
    <2>3. \A id \in 0 .. c : (id \in Ids \ {c} /\ id \in 0 .. c - 1) \/ id = c
      BY <1>1, <1>3 DEF Ids
    <2>4. c \in 0 .. c /\ \A id \in 0 .. c - 1 : id \in 0 .. c /\ id \in Ids \ {c}
      BY <1>1, <1>3 DEF Ids
    <2> QED BY <2>2, <2>3, <2>4, <1>4, <1>5, <1>6 DEF Pending
  <1> QED BY <1>11, <1>12

(* The ids handed out are those of the objects.                            *)
Known == \A id \in Ids : seq[id].state = "NONE" <=> id >= nextId

(* The retired sequences are answered, all at once and in the list's order. *)
AnswersAtOnce(list) ==
  LET new == SubSeq(results', Len(results) + 1, Len(results'))
  IN  /\ IsStrictPrefix(results, results')
      /\ [k \in DOMAIN new |-> new[k].id] = list
      /\ \A k \in DOMAIN new : Service!Answers(new[k])
      /\ ToSet(list) \subseteq Pending /\ Pending' = Pending \ ToSet(list)
      /\ Asked' = Asked

LEMMA RetireAnswers ==
  ASSUME BaseTypeOK, Objects, Known, NEW list \in Seq(Ids),
         \A id \in ToSet(list) : seq[id].state = "FINISHED",
         Retire(list), nextId' = nextId
  PROVE  /\ list # << >> => AnswersAtOnce(list)
         /\ list = << >> => UNCHANGED << Asked, Pending, results >>
  <1> DEFINE R   == [id : Ids, gen : Seq(Rows), reason : {"stop", "length", "capacity"}]
             new == [i \in DOMAIN list |-> ResultOf(list[i])]
             ids == [i \in DOMAIN new |-> new[i].id]
  <1>1. /\ BaseTypeOK /\ Objects /\ nextId \in Nat
        /\ \A id \in Ids : seq[id].state = "NONE" <=> id >= nextId
    BY DEF BaseTypeOK, Known
  <1>2. DOMAIN list = 1 .. Len(list) /\ Len(list) \in Nat /\ list \in [1 .. Len(list) -> Ids]
    BY LenProperties
  <1>3. /\ results \in Seq(R) /\ new \in Seq(R) /\ results' = results \o new
    BY <1>1, RetireResults DEF Retire, BaseTypeOK
  <1>4. \A i \in DOMAIN list : list[i] \in ToSet(list) /\ list[i] \in Ids
    BY <1>2 DEF ToSet
  <1>5. DOMAIN new = DOMAIN list /\ ids = list
    <2>1. \A i \in DOMAIN list : new[i].id = list[i]
      BY DEF ResultOf
    <2> QED BY <1>2, <2>1
  <1>6. ASSUME NEW id \in Ids
        PROVE  /\ seq'[id].req = seq[id].req
               /\ seq'[id].state = "GONE" <=> seq[id].state = "GONE" \/ id \in ToSet(list)
    BY <1>1, RetireFields
  <1>7. Asked' = Asked
    <2>1. nextId \in 0 .. MaxSeqs /\ MaxSeqs \in Nat
      BY <1>1, RequestAssumption DEF BaseTypeOK
    <2>2. ASSUME NEW i \in 1 .. nextId PROVE seq'[i - 1].req = seq[i - 1].req
      <3>1. i - 1 \in Ids
        BY <2>1 DEF Ids
      <3> QED BY <3>1, <1>6
    <2> QED BY <2>2 DEF Asked
  <1>8. Pending' = Pending \ ToSet(list)
    <2>1. \A id \in 0 .. nextId - 1 : id \in Ids
      BY <1>1, RequestAssumption DEF BaseTypeOK, Ids
    <2> QED BY <2>1, <1>6 DEF Pending
  <1>9. ASSUME NEW i \in DOMAIN list
        PROVE  list[i] < nextId /\ list[i] \in Pending
    <2>1. list[i] \in Ids /\ seq[list[i]].state = "FINISHED" /\ list[i] \in Nat
      BY <1>4, IdsFinite
    <2>2. list[i] < nextId
      BY <1>1, <2>1
    <2> QED BY <1>1, <2>1, <2>2 DEF Pending
  <1>10. ASSUME NEW i \in DOMAIN new PROVE Service!Answers(new[i])
    <2>1. i \in DOMAIN list /\ new[i] = ResultOf(list[i])
      BY <1>5
    <2>2. list[i] \in Ids /\ seq[list[i]].state = "FINISHED" /\ list[i] < nextId
      BY <2>1, <1>4, <1>9
    <2> QED BY <1>1, <2>1, <2>2, AnswersAsGenerate
  <1>11. CASE list = << >>
    <2>1. ToSet(list) = {}
      BY <1>11 DEF ToSet
    <2>2. Len(list) = 0
      BY <1>11
    <2>3. Len(new) = 0
      <3>1. new = << >>
        BY <1>2, <2>2
      <3> QED BY <3>1
    <2>4. new = << >>
      <3> HIDE DEF new
      <3> QED BY <1>3, <2>3, EmptySeq
    <2>5. results' = results
      <3> HIDE DEF new, R
      <3> QED BY <1>3, <2>4, ConcatEmptySeq
    <2>6. Pending' = Pending
      BY <2>1, <1>8
    <2> QED BY <2>5, <2>6, <1>7, <1>11
  <1>12. CASE list # << >>
    <2>1. Len(list) \in Nat \ {0}
      BY <1>12, EmptySeq
    <2>2. Len(new) = Len(list)
      <3>1. DOMAIN new = 1 .. Len(list)
        BY <1>2
      <3> HIDE DEF new
      <3> QED BY <1>2, <1>3, <3>1, LenProperties
    <2> DEFINE m == Len(results)
               n == Len(results')
    <2>3. /\ m \in Nat /\ n = m + Len(list) /\ n \in Nat
          /\ results' \in Seq(R)
          /\ \A i \in 1 .. n : results'[i] = IF i <= m THEN results[i] ELSE new[i - m]
      <3> HIDE DEF new, R
      <3>1. results \in Seq(R) /\ new \in Seq(R)
        BY <1>3
      <3>2. m \in Nat
        BY <3>1, LenProperties
      <3>3. /\ results \o new \in Seq(R) /\ Len(results \o new) = m + Len(new)
            /\ \A i \in 1 .. m + Len(new) :
                 (results \o new)[i] = IF i <= m THEN results[i] ELSE new[i - m]
        BY <3>1, ConcatProperties
      <3> QED BY <1>2, <1>3, <2>2, <3>2, <3>3
    <2>4. IsStrictPrefix(results, results')
      <3> HIDE DEF new, R
      <3>1. m <= n /\ \A i \in 1 .. m : results[i] = results'[i]
        BY <2>1, <2>3
      <3>2. results \in Seq(R) /\ results' \in Seq(R)
        BY <1>3, <2>3
      <3>3. IsPrefix(results, results')
        BY <3>1, <3>2, IsPrefixOf
      <3>4. results # results'
        BY <2>1, <2>3
      <3> QED BY <3>3, <3>4 DEF IsStrictPrefix
    <2>5. SubSeq(results', m + 1, n) = new
      <3> HIDE DEF new, R, m, n
      <3>1. m + 1 \in Int /\ n \in Int /\ n - (m + 1) + 1 = Len(list) /\ m + 1 <= n
        BY <1>2, <2>1, <2>3
      <3>2. \A i \in m + 1 .. n : results'[i] \in R
        <4>1. results' \in [1 .. n -> R]
          BY <2>3, LenProperties DEF n
        <4> QED BY <2>3, <4>1
      <3>3. /\ SubSeq(results', m + 1, n) \in Seq(R)
            /\ Len(SubSeq(results', m + 1, n)) = Len(list)
            /\ \A i \in 1 .. Len(list) :
                 SubSeq(results', m + 1, n)[i] = results'[m + 1 + i - 1]
        BY <3>1, <3>2, SubSeqProperties
      <3>4. ASSUME NEW i \in 1 .. Len(list)
            PROVE  SubSeq(results', m + 1, n)[i] = new[i]
        <4>1. m + 1 + i - 1 = m + i /\ m + i \in 1 .. n /\ ~ (m + i <= m) /\ m + i - m = i
          BY <1>2, <2>3
        <4> QED BY <4>1, <2>3, <3>3
      <3> QED BY <1>3, <2>2, <3>3, <3>4, SeqEqual
    <2>6. ToSet(list) \subseteq Pending
      BY <1>9 DEF ToSet
    <2>7. /\ ids = list /\ \A i \in DOMAIN new : Service!Answers(new[i])
          /\ Pending' = Pending \ ToSet(list)
      BY <1>5, <1>8, <1>10
    <2>8. SubSeq(results', Len(results) + 1, Len(results')) = new
      BY <2>5
    <2> HIDE DEF new, R, m, n
    <2> QED BY <1>7, <1>12, <2>4, <2>6, <2>7, <2>8, Zenon DEF AnswersAtOnce
  <1> QED BY <1>11, <1>12
=============================================================================

-------------------------- MODULE ModelLoad_proofs --------------------------
(***************************************************************************)
(* Proofs about WeightFiles and ModelLoad, for files of any content and    *)
(* models of any dimensions: what is open and mapped is the weight map's,  *)
(* a published tensor lies in its mapping, and a forward pass sees every   *)
(* tensor whole and in its place.                                          *)
(***************************************************************************)
EXTENDS ModelLoad, SequenceTheorems, NaturalsInduction, WellFoundedInduction, TLAPS

LEMMA DivRange ==
  ASSUME NEW a \in Nat, NEW n \in Nat \ {0}
  PROVE  /\ a \div n \in Nat
         /\ n * (a \div n) <= a /\ a < n * (a \div n) + n
  BY SMT

LEMMA MulMonotone ==
  ASSUME NEW n \in Nat, NEW a \in Nat, NEW b \in Nat, a <= b
  PROVE  /\ n * a \in Nat /\ n * b \in Nat
         /\ n * a <= n * b
  BY SMT

-----------------------------------------------------------------------------
(* The size of a shape.  Both sizes are recursive along the shape; a set   *)
(* of numbers has a least one, which is induction without a schema.        *)

LEMMA Least ==
  ASSUME NEW T \in SUBSET Nat, T # {}
  PROVE  \E x \in T : \A y \in T : x <= y
<1>1. PICK x \in T : \A y \in T : ~ (<< y, x >> \in OpToRel(<, Nat))
  BY NatLessThanWellFounded, WFMin
<1>2. \A y \in T : y \in Nat /\ x \in Nat /\ ~ (y < x)
  BY <1>1 DEF OpToRel
<1>3. \A y \in T : x <= y
  BY <1>2
<1> QED BY <1>3

(* f carries a along 1 .. n by the functions g[1], ... g[n].               *)
Carries(f, S, a, n, g) ==
  /\ f \in [0 .. n -> S] /\ f[0] = a
  /\ \A r \in 1 .. n : f[r] = g[r][f[r - 1]]

(* A recursion over 0 .. n has a solution.                                 *)
LEMMA Recursion ==
  ASSUME NEW S, NEW a, NEW n, NEW g,
         a \in S, n \in Nat, g \in [1 .. n -> [S -> S]]
  PROVE  \E f : Carries(f, S, a, n, g)
<1> DEFINE Solves(f, k) == /\ f \in [0 .. k -> S] /\ f[0] = a
                           /\ \A r \in 1 .. k : f[r] = g[r][f[r - 1]]
           T == {k \in 0 .. n : ~ \E f : Solves(f, k)}
<1>1. SUFFICES T = {}
  <2>1. n \in 0 .. n
    OBVIOUS
  <2>2. \E f : Solves(f, n)
    BY <1>1, <2>1
  <2> QED BY <2>2 DEF Carries
<1>2. SUFFICES ASSUME T # {} PROVE FALSE
  OBVIOUS
<1>3. PICK k \in T : \A y \in T : k <= y
  <2>1. T \in SUBSET Nat
    OBVIOUS
  <2> HIDE DEF T
  <2> QED BY <1>2, <2>1, Least
<1>4. k \in 0 .. n /\ ~ \E f : Solves(f, k)
  OBVIOUS
<1>5. CASE k = 0
  <2>1. Solves([r \in 0 .. 0 |-> a], 0)
    OBVIOUS
  <2> QED BY <1>4, <1>5, <2>1
<1>6. CASE k # 0
  <2>1. k - 1 \in 0 .. n /\ ~ (k <= k - 1) /\ k - 1 \in Nat /\ k \in 1 .. n
    BY <1>4, <1>6
  <2>2. \E f : Solves(f, k - 1)
    BY <1>3, <2>1
  <2>3. PICK f : Solves(f, k - 1)
    BY <2>2
  <2> DEFINE h == [r \in 0 .. k |-> IF r = k THEN g[k][f[k - 1]] ELSE f[r]]
  <2>4. g[k][f[k - 1]] \in S
    BY <2>1, <2>3
  <2>5. h \in [0 .. k -> S] /\ h[0] = a
    BY <2>1, <2>3, <2>4
  <2>6. ASSUME NEW r \in 1 .. k PROVE h[r] = g[r][h[r - 1]]
    <3>1. r - 1 \in 0 .. k - 1 /\ r - 1 # k /\ h[r - 1] = f[r - 1]
      BY <2>1
    <3>2. CASE r = k
      <4>1. h[k] = g[k][f[k - 1]] /\ h[k - 1] = f[k - 1]
        BY <2>1, <3>1, <3>2
      <4> HIDE DEF h
      <4> QED BY <3>2, <4>1
    <3>3. CASE r # k
      <4>1. r \in 1 .. k - 1 /\ h[r] = f[r]
        BY <2>1, <3>3
      <4> QED BY <2>3, <3>1, <4>1
    <3> QED BY <3>2, <3>3
  <2> HIDE DEF h
  <2>7. Solves(h, k)
    BY <2>5, <2>6
  <2> QED BY <1>4, <2>7
<1> QED BY <1>5, <1>6

LEMMA ElementsUpTo ==
  ASSUME NEW shape \in Seq(Int)
  PROVE  \E f \in [0 .. Len(shape) -> Int] :
           /\ f[0] = 1 /\ Elements(shape) = f[Len(shape)]
           /\ \A r \in 1 .. Len(shape) : f[r] = f[r - 1] * shape[r]
<1> DEFINE n == Len(shape)
           P(f) == f = [r \in 0 .. n |-> IF r = 0 THEN 1 ELSE f[r - 1] * shape[r]]
           g == [r \in 1 .. n |-> [x \in Int |-> x * shape[r]]]
<1>1. n \in Nat /\ \A r \in 1 .. n : shape[r] \in Int
  OBVIOUS
<1> HIDE DEF n
<1>2. g \in [1 .. n -> [Int -> Int]]
  BY <1>1
<1>3. PICK f : Carries(f, Int, 1, n, g)
  <2>1. 1 \in Int
    OBVIOUS
  <2> HIDE DEF g
  <2> QED BY <1>1, <1>2, <2>1, Recursion
<1>4. \A r \in 1 .. n : f[r] = f[r - 1] * shape[r]
  <2> SUFFICES ASSUME NEW r \in 1 .. n PROVE f[r] = f[r - 1] * shape[r]
    OBVIOUS
  <2>1. f \in [0 .. n -> Int] /\ f[r] = g[r][f[r - 1]]
    <3> HIDE DEF g
    <3> QED BY <1>3 DEF Carries
  <2>2. r - 1 \in 0 .. n
    BY <1>1
  <2>3. f[r - 1] \in Int
    BY <2>1, <2>2
  <2> QED BY <2>1, <2>3
<1>5. P(f)
  BY <1>1, <1>3, <1>4 DEF Carries
<1>6. P(CHOOSE h : P(h))
  BY <1>5
<1> DEFINE u == CHOOSE h : P(h)
<1>7. Elements(shape) = u[n]
  BY DEF Elements, n
<1> HIDE DEF u
<1>8. u = [r \in 0 .. n |-> IF r = 0 THEN 1 ELSE u[r - 1] * shape[r]]
  BY <1>6 DEF u
<1>9. u[0] = 1 /\ \A r \in 1 .. n : u[r] = u[r - 1] * shape[r]
  BY <1>1, <1>8
<1>10. \A r \in 0 .. n : u[r] \in Int
  <2> DEFINE T == {r \in 0 .. n : u[r] \notin Int}
  <2> SUFFICES ASSUME T # {} PROVE FALSE
    OBVIOUS
  <2>1. T \in SUBSET Nat
    BY <1>1
  <2>2. PICK k \in T : \A y \in T : k <= y
    <3> HIDE DEF T
    <3> QED BY <2>1, Least
  <2>3. k # 0 /\ k \in 1 .. n
    BY <1>1, <1>9
  <2>4. k - 1 \in 0 .. n /\ ~ (k <= k - 1)
    BY <1>1, <2>3
  <2>5. u[k - 1] \in Int
    BY <2>2, <2>4
  <2>6. u[k] \in Int
    <3>1. shape[k] \in Int /\ u[k] = u[k - 1] * shape[k]
      BY <1>1, <1>9, <2>3
    <3>2. \A x, y \in Int : x * y \in Int
      OBVIOUS
    <3> QED BY <2>5, <3>1, <3>2
  <2> QED BY <2>6
<1>11. u \in [0 .. n -> Int]
  BY <1>8, <1>10
<1> QED BY <1>7, <1>9, <1>11 DEF n

LEMMA WordRange == Word \in Nat /\ Word > 8
BY WordAssumption

(* The guard of a multiplication lets through what does not wrap.          *)
LEMMA TimesInt ==
  ASSUME NEW count \in Int, NEW d \in Int
  PROVE  Times(count, d) \in Int
<1>1. count * d \in Int
  <2>1. \A x, y \in Int : x * y \in Int
    OBVIOUS
  <2> QED BY <2>1
<1> DEFINE p == count * d
<1>2. p % Word \in Int
  <2> HIDE DEF p
  <2>1. p \in Int
    BY <1>1 DEF p
  <2> QED BY <2>1, WordRange
<1> QED BY <1>2 DEF Times, Bad

LEMMA TimesExact ==
  ASSUME NEW count \in 0 .. Word - 1, NEW d \in Int, Times(count, d) # Bad
  PROVE  /\ d \in Nat
         /\ count * d \in 0 .. Word - 1
         /\ Times(count, d) = count * d
<1>1. d \in Nat /\ ~ Overflows(count, d) /\ Times(count, d) = (count * d) % Word
  BY DEF Times
<1>2. count \in Nat /\ count <= Word - 1 /\ Word - 1 \in Nat
  BY WordRange
<1>3. count * d \in Nat
  <2>1. \A x, y \in Nat : x * y \in Nat
    OBVIOUS
  <2> QED BY <1>1, <1>2, <2>1
<1>4. count * d <= Word - 1
  <2>1. CASE d = 0
    BY <1>2, <2>1
  <2>2. CASE d # 0
    <3> DEFINE m == Word - 1  q == m \div d
    <3>1. d \in Nat \ {0} /\ m \in Nat
      BY <1>1, <1>2, <2>2
    <3>2. ~ (count > q)
      BY <1>1, <2>2 DEF Overflows
    <3>3. q \in Nat /\ d * q <= m
      <4> HIDE DEF m
      <4> QED BY <3>1, DivRange
    <3> HIDE DEF q
    <3>4. count <= q
      BY <1>2, <3>2, <3>3
    <3>5. d * count <= d * q /\ d * count \in Nat /\ d * q \in Nat
      BY <1>1, <1>2, <3>3, <3>4, MulMonotone
    <3>6. d * count = count * d
      BY <1>1, <1>2
    <3> DEFINE x == d * count  y == d * q
    <3>7. x <= y /\ y <= m /\ x \in Nat /\ y \in Nat
      BY <3>3, <3>5
    <3> HIDE DEF x, y, m
    <3>8. x <= m
      BY <3>1, <3>7
    <3> QED BY <3>6, <3>8 DEF x, m
  <2> QED BY <2>1, <2>2
<1> DEFINE p == count * d
<1>5. p \in 0 .. Word - 1
  BY <1>2, <1>3, <1>4
<1> HIDE DEF p
<1>6. p % Word = p
  BY <1>5, WordRange
<1> QED BY <1>1, <1>5, <1>6 DEF p

LEMMA BytesUpTo ==
  ASSUME NEW shape \in Seq(Int), NEW dtype
  PROVE  \E f \in [0 .. Len(shape) -> Int] :
           /\ f[0] = 1 /\ ExpectedBytes(dtype, shape) = Times(f[Len(shape)], Width[dtype])
           /\ \A r \in 1 .. Len(shape) : f[r] = Times(f[r - 1], shape[r])
<1> DEFINE n == Len(shape)
           P(f) == f = [r \in 0 .. n |-> IF r = 0 THEN 1 ELSE Times(f[r - 1], shape[r])]
           g == [r \in 1 .. n |-> [x \in Int |-> Times(x, shape[r])]]
<1>1. n \in Nat /\ \A r \in 1 .. n : shape[r] \in Int
  OBVIOUS
<1> HIDE DEF n
<1>2. g \in [1 .. n -> [Int -> Int]]
  BY <1>1, TimesInt
<1>3. PICK f : Carries(f, Int, 1, n, g)
  <2>1. 1 \in Int
    OBVIOUS
  <2> HIDE DEF g
  <2> QED BY <1>1, <1>2, <2>1, Recursion
<1>4. \A r \in 1 .. n : f[r] = Times(f[r - 1], shape[r])
  <2> SUFFICES ASSUME NEW r \in 1 .. n PROVE f[r] = Times(f[r - 1], shape[r])
    OBVIOUS
  <2>1. f \in [0 .. n -> Int] /\ f[r] = g[r][f[r - 1]]
    <3> HIDE DEF g
    <3> QED BY <1>3 DEF Carries
  <2>2. r - 1 \in 0 .. n
    BY <1>1
  <2>3. f[r - 1] \in Int
    BY <2>1, <2>2
  <2> QED BY <2>1, <2>3
<1>5. P(f)
  BY <1>1, <1>3, <1>4 DEF Carries
<1>6. P(CHOOSE h : P(h))
  BY <1>5
<1> DEFINE u == CHOOSE h : P(h)
<1>7. ExpectedBytes(dtype, shape) = Times(u[n], Width[dtype])
  BY DEF ExpectedBytes, n
<1> HIDE DEF u
<1>8. u = [r \in 0 .. n |-> IF r = 0 THEN 1 ELSE Times(u[r - 1], shape[r])]
  BY <1>6 DEF u
<1>9. u[0] = 1 /\ \A r \in 1 .. n : u[r] = Times(u[r - 1], shape[r])
  BY <1>1, <1>8
<1>10. \A r \in 0 .. n : u[r] \in Int
  <2> DEFINE T == {r \in 0 .. n : u[r] \notin Int}
  <2> SUFFICES ASSUME T # {} PROVE FALSE
    OBVIOUS
  <2>1. T \in SUBSET Nat
    BY <1>1
  <2>2. PICK k \in T : \A y \in T : k <= y
    <3> HIDE DEF T
    <3> QED BY <2>1, Least
  <2>3. k # 0 /\ k \in 1 .. n
    BY <1>1, <1>9
  <2>4. k - 1 \in 0 .. n /\ ~ (k <= k - 1)
    BY <1>1, <2>3
  <2>5. u[k - 1] \in Int
    BY <2>2, <2>4
  <2>6. u[k] \in Int
    BY <1>1, <1>9, <2>3, <2>5, TimesInt
  <2> QED BY <2>6
<1>11. u \in [0 .. n -> Int]
  BY <1>8, <1>10
<1> QED BY <1>7, <1>9, <1>11 DEF n

(* A size that is not refused is the exact one.                            *)
LEMMA SizeExact ==
  ASSUME NEW shape \in Seq(Int), NEW dtype \in DOMAIN Width,
         ExpectedBytes(dtype, shape) # Bad
  PROVE  /\ shape \in Seq(Nat)
         /\ ExpectedBytes(dtype, shape) = Elements(shape) * Width[dtype]
         /\ ExpectedBytes(dtype, shape) \in 0 .. Word - 1
<1> DEFINE n == Len(shape)
<1>1. PICK e \in [0 .. n -> Int] :
        /\ e[0] = 1 /\ Elements(shape) = e[n]
        /\ \A r \in 1 .. n : e[r] = e[r - 1] * shape[r]
  BY ElementsUpTo
<1>2. PICK b \in [0 .. n -> Int] :
        /\ b[0] = 1 /\ ExpectedBytes(dtype, shape) = Times(b[n], Width[dtype])
        /\ \A r \in 1 .. n : b[r] = Times(b[r - 1], shape[r])
  BY BytesUpTo
<1>3. n \in Nat /\ \A r \in 1 .. n : shape[r] \in Int
  OBVIOUS
<1> HIDE DEF n
<1> DEFINE Good(r) == b[r] = Bad \/ (/\ b[r] = e[r] /\ e[r] \in 0 .. Word - 1
                                     /\ \A j \in 1 .. r : shape[j] \in Nat)
<1>4. \A r \in 0 .. n : Good(r)
  <2> DEFINE T == {r \in 0 .. n : ~ Good(r)}
  <2> SUFFICES ASSUME T # {} PROVE FALSE
    OBVIOUS
  <2>1. T \in SUBSET Nat
    BY <1>3
  <2>2. PICK k \in T : \A y \in T : k <= y
    <3> HIDE DEF T
    <3> QED BY <2>1, Least
  <2>3. Good(0)
    BY <1>1, <1>2, WordRange
  <2>4. k \in 0 .. n /\ ~ Good(k)
    BY <2>2
  <2>5. k # 0 /\ k \in 1 .. n
    <3> HIDE DEF Good
    <3> QED BY <1>3, <2>3, <2>4
  <2>6. k - 1 \in 0 .. n /\ ~ (k <= k - 1)
    BY <1>3, <2>5
  <2>7. Good(k - 1)
    <3> HIDE DEF Good
    <3> QED BY <2>2, <2>6
  <2>8. b[k] = Times(b[k - 1], shape[k]) /\ e[k] = e[k - 1] * shape[k] /\ shape[k] \in Int
    BY <1>1, <1>2, <1>3, <2>5
  <2>9. b[k] # Bad
    BY <2>4
  <2>10. b[k - 1] # Bad
    BY <2>8, <2>9 DEF Times
  <2>11. /\ b[k - 1] = e[k - 1] /\ e[k - 1] \in 0 .. Word - 1
         /\ \A j \in 1 .. k - 1 : shape[j] \in Nat
    BY <2>7, <2>10
  <2>12. Times(e[k - 1], shape[k]) # Bad
    BY <2>8, <2>9, <2>11
  <2>13. /\ shape[k] \in Nat /\ e[k - 1] * shape[k] \in 0 .. Word - 1
         /\ Times(e[k - 1], shape[k]) = e[k - 1] * shape[k]
    BY <2>8, <2>11, <2>12, TimesExact
  <2>14. b[k] = e[k] /\ e[k] \in 0 .. Word - 1
    BY <2>8, <2>11, <2>13
  <2>15. \A j \in 1 .. k : shape[j] \in Nat
    <3> SUFFICES ASSUME NEW j \in 1 .. k PROVE shape[j] \in Nat
      OBVIOUS
    <3>1. j = k \/ j \in 1 .. k - 1
      BY <2>5, <1>3
    <3> QED BY <2>11, <2>13, <3>1
  <2> QED BY <2>4, <2>14, <2>15
<1>5. b[n] # Bad
  BY <1>2 DEF Times
<1>6. /\ b[n] = e[n] /\ e[n] \in 0 .. Word - 1
      /\ \A j \in 1 .. n : shape[j] \in Nat
  <2>1. n \in 0 .. n
    BY <1>3
  <2>2. Good(n)
    <3> HIDE DEF Good
    <3> QED BY <1>4, <2>1
  <2> QED BY <1>5, <2>2
<1>7. Width[dtype] \in Int
  BY DEF Width
<1>8. Times(e[n], Width[dtype]) # Bad
  BY <1>2, <1>6
<1>9. /\ e[n] * Width[dtype] \in 0 .. Word - 1
      /\ Times(e[n], Width[dtype]) = e[n] * Width[dtype]
  BY <1>6, <1>7, <1>8, TimesExact
<1>10. shape \in Seq(Nat)
  <2>1. shape \in [1 .. n -> Nat]
    BY <1>6 DEF n
  <2> QED BY <1>3, <2>1
<1> QED BY <1>1, <1>2, <1>6, <1>9, <1>10

-----------------------------------------------------------------------------
(* The weight map                                                          *)

(* The locals of the scan in each of its phases: the header of the shard   *)
(* in hand ends inside its mapping.                                        *)
Scanning == {"open", "map", "own", "header", "entry"}

ScanOK ==
  /\ scan.pc \in {"closed", "alias", "loaded"} \cup Scanning
  /\ scan.pc \in {"open", "map", "own", "header"} =>
       scan = [pc |-> scan.pc, shard |-> scan.shard]
  /\ scan.pc \in Scanning => scan.shard \in 1 .. Len(Shards)
  /\ scan.pc = "entry" =>
       /\ scan = [pc |-> "entry", shard |-> scan.shard, header |-> scan.header,
                  todo |-> scan.todo]
       /\ scan.header \in Nat /\ Prefix + scan.header <= mapped[scan.shard]
       /\ scan.todo \in Seq(Names)

(* The map owns the shards before the one in hand, and that one once       *)
(* files_ has taken it.                                                    *)
OwnsScanned ==
  /\ scan.pc = "closed" => files = {}
  /\ scan.pc \in {"open", "map", "own"} => files = 1 .. scan.shard - 1
  /\ scan.pc \in {"header", "entry"} => files = 1 .. scan.shard
  /\ scan.pc \in {"alias", "loaded"} => files = 1 .. Len(Shards)

(* Whose the descriptors and mappings of the process are.                  *)
OpenAndMapped ==
  /\ fds \in [1 .. Len(Shards) -> Nat] /\ maps \in [1 .. Len(Shards) -> Nat]
  /\ lost \in [1 .. Len(Shards) -> Nat]
  /\ \A s \in 1 .. Len(Shards) :
       /\ fds[s] = One(s, files) + One(s, InHand({"map", "own"})) + lost[s]
       /\ maps[s] = One(s, files) + One(s, InHand({"own"})) + lost[s]

MappedOK == mapped \in [1 .. Len(Shards) -> 0 .. Word - 1]

(* A published tensor has the bytes of its form, all of them in its shard. *)
Lies(t) ==
  /\ t.shard \in files /\ t.dtype \in DOMAIN Width /\ t.shape \in Seq(Nat)
  /\ t.nbytes = Elements(t.shape) * Width[t.dtype]
  /\ t.data \in Nat /\ t.nbytes \in Nat
  /\ t.data >= Prefix /\ t.data + t.nbytes <= mapped[t.shard]

Published ==
  /\ DOMAIN tensors = Names
  /\ \A n \in Names : tensors[n] # Absent => Lies(tensors[n])

Deviations == odd \in 0 .. MaxOdd

FilesInv ==
  ScanOK /\ OwnsScanned /\ OpenAndMapped /\ MappedOK /\ Published /\ Deviations

-----------------------------------------------------------------------------
LEMMA ShardsAre == DOMAIN Shards = 1 .. Len(Shards) /\ Len(Shards) \in Nat /\ Len(Shards) > 0
BY WordAssumption

(* What a file or a header may say where the sound model says x.           *)
LEMMA AmongThese ==
  ASSUME NEW x, NEW others, NEW y \in Among(x, others), Count(y # x), Deviations
  PROVE  (y = x \/ y \in others) /\ Deviations'
<1>1. odd \in Int /\ MaxOdd \in Int /\ odd <= MaxOdd /\ odd >= 0
  BY TensorAssumption DEF Deviations
<1>2. CASE odd < MaxOdd
  BY <1>1, <1>2 DEF Among, Count, Deviations
<1>3. CASE ~ (odd < MaxOdd)
  BY <1>1, <1>3 DEF Among, Count, Deviations
<1> QED BY <1>2, <1>3

LEMMA NothingPublished ==
  ASSUME tensors' = [n \in Names |-> Absent]
  PROVE  Published'
BY DEF Published

(* Tensors keep lying where they lie while their shards stay mapped.       *)
LEMMA StillPublished ==
  ASSUME Published, tensors' = tensors, files \subseteq files',
         \A s \in files : mapped'[s] = mapped[s]
  PROVE  Published'
<1> SUFFICES ASSUME NEW n \in Names, tensors[n] # Absent PROVE Lies(tensors[n])'
  BY DEF Published
<1>1. Lies(tensors[n])
  BY DEF Published
<1> QED BY <1>1 DEF Lies

(* Between shards, and inside one that the map owns, nothing is in hand.   *)
LEMMA NothingInHand ==
  ASSUME OpenAndMapped, scan.pc \notin {"map", "own"}, NEW s \in 1 .. Len(Shards)
  PROVE  fds[s] = One(s, files) + lost[s] /\ maps[s] = One(s, files) + lost[s]
<1>1. One(s, InHand({"map", "own"})) = 0 /\ One(s, InHand({"own"})) = 0
  BY DEF One, InHand
<1>2. One(s, files) \in Nat /\ lost[s] \in Nat
  BY DEF One, OpenAndMapped
<1> QED BY <1>1, <1>2 DEF OpenAndMapped

LEMMA CountsKept ==
  ASSUME OpenAndMapped, MappedOK, UNCHANGED << fds, maps, mapped, files, lost >>,
         scan.pc \notin {"map", "own"}, scan'.pc \notin {"map", "own"}
  PROVE  OpenAndMapped' /\ MappedOK'
<1>1. ASSUME NEW s \in 1 .. Len(Shards)
      PROVE  /\ One(s, InHand({"map", "own"})') = 0 /\ One(s, InHand({"own"})') = 0
             /\ One(s, files) \in Nat /\ lost[s] \in Nat
  BY DEF One, InHand, OpenAndMapped
<1>2. ASSUME NEW s \in 1 .. Len(Shards)
      PROVE  /\ fds[s] = One(s, files) + One(s, InHand({"map", "own"})') + lost[s]
             /\ maps[s] = One(s, files) + One(s, InHand({"own"})') + lost[s]
  BY <1>1, NothingInHand
<1>3. OpenAndMapped'
  BY <1>2 DEF OpenAndMapped, One
<1> QED BY <1>3 DEF MappedOK

(* An exception destroys the map; open and mapped is then what was lost.   *)
LEMMA Unwound ==
  ASSUME scan' = Closed, files' = {}, odd' = 0, mapped' = Zero,
         tensors' = [n \in Names |-> Absent], lost' \in [1 .. Len(Shards) -> Nat],
         fds' = [s \in 1 .. Len(Shards) |-> lost'[s]],
         maps' = [s \in 1 .. Len(Shards) |-> lost'[s]]
  PROVE  FilesInv'
<1>1. scan'.pc = "closed"
  BY DEF Closed
<1>2. ScanOK' /\ OwnsScanned'
  BY <1>1 DEF ScanOK, Scanning, OwnsScanned
<1>3. OpenAndMapped'
  <2>1. ASSUME NEW s \in 1 .. Len(Shards)
        PROVE  /\ One(s, files') = 0 /\ lost'[s] \in Nat
               /\ One(s, InHand({"map", "own"})') = 0 /\ One(s, InHand({"own"})') = 0
    BY <1>1 DEF One, InHand
  <2>2. ASSUME NEW s \in 1 .. Len(Shards)
        PROVE  /\ fds'[s] = One(s, files') + One(s, InHand({"map", "own"})') + lost'[s]
               /\ maps'[s] = One(s, files') + One(s, InHand({"own"})') + lost'[s]
    BY <2>1
  <2>3. /\ fds' \in [1 .. Len(Shards) -> Nat] /\ maps' \in [1 .. Len(Shards) -> Nat]
    OBVIOUS
  <2> QED BY <2>2, <2>3 DEF OpenAndMapped, One
<1>4. MappedOK'
  BY ShardsAre, WordRange DEF MappedOK, Zero
<1>5. Deviations'
  BY TensorAssumption DEF Deviations
<1> QED BY <1>2, <1>3, <1>4, <1>5, NothingPublished DEF FilesInv

LEMMA DestroyInv ==
  ASSUME FilesInv, Destroy, scan.pc \notin {"map", "own"}
  PROVE  FilesInv'
<1>1. /\ scan' = Closed /\ files' = {} /\ odd' = 0 /\ mapped' = Zero
      /\ tensors' = [n \in Names |-> Absent] /\ lost' = lost
      /\ fds' = [s \in 1 .. Len(Shards) |-> fds[s] - One(s, files)]
      /\ maps' = [s \in 1 .. Len(Shards) |-> maps[s] - One(s, files)]
  BY ShardsAre DEF Destroy, Unwind
<1>2. lost \in [1 .. Len(Shards) -> Nat]
  BY DEF FilesInv, OpenAndMapped
<1>3. ASSUME NEW s \in 1 .. Len(Shards)
      PROVE  fds[s] - One(s, files) = lost[s] /\ maps[s] - One(s, files) = lost[s]
  <2>1. One(s, files) \in Int /\ lost[s] \in Int
    BY <1>2 DEF One
  <2>2. fds[s] = One(s, files) + lost[s] /\ maps[s] = One(s, files) + lost[s]
    BY NothingInHand DEF FilesInv
  <2> QED BY <2>1, <2>2
<1> QED BY <1>1, <1>2, <1>3, Unwound

LEMMA ListDirectoryInv == ASSUME FilesInv, ListDirectory PROVE FilesInv'
<1>1. CASE Destroy
  BY <1>1, DestroyInv DEF ListDirectory
<1>2. CASE /\ scan' = [pc |-> "open", shard |-> 1]
           /\ UNCHANGED << tied, fds, maps, mapped, files, tensors, odd, lost >>
  <2>1. Published' /\ Deviations'
    BY <1>2, StillPublished DEF FilesInv, Deviations
  <2>2. files = {} /\ scan.pc = "closed"
    BY DEF ListDirectory, FilesInv, OwnsScanned
  <2>3. ScanOK' /\ OwnsScanned'
    BY <1>2, <2>2, ShardsAre DEF ScanOK, Scanning, OwnsScanned
  <2>4. OpenAndMapped' /\ MappedOK'
    BY <1>2, <2>2, CountsKept DEF FilesInv
  <2> QED BY <2>1, <2>3, <2>4 DEF FilesInv
<1> QED BY <1>1, <1>2 DEF ListDirectory

LEMMA OpenFileInv == ASSUME FilesInv, OpenFile PROVE FilesInv'
<1>1. CASE Destroy
  BY <1>1, DestroyInv DEF OpenFile
<1>2. CASE /\ fds' = [fds EXCEPT ![scan.shard] = @ + 1]
           /\ scan' = [scan EXCEPT !.pc = "map"]
           /\ UNCHANGED << tied, maps, mapped, files, tensors, odd, lost >>
  <2>1. Published' /\ Deviations' /\ MappedOK'
    BY <1>2, StillPublished DEF FilesInv, Deviations, MappedOK
  <2>2. /\ scan.pc = "open" /\ scan' = [pc |-> "map", shard |-> scan.shard]
        /\ scan.shard \in 1 .. Len(Shards) /\ OpenAndMapped
    BY <1>2 DEF OpenFile, FilesInv, ScanOK, Scanning
  <2>3. ScanOK' /\ OwnsScanned'
    BY <1>2, <2>2 DEF FilesInv, ScanOK, Scanning, OwnsScanned
  <2>4. OpenAndMapped'
    <3>1. ASSUME NEW s \in 1 .. Len(Shards)
          PROVE  /\ fds'[s] = One(s, files) + One(s, InHand({"map", "own"})') + lost[s]
                 /\ maps[s] = One(s, files) + One(s, InHand({"own"})') + lost[s]
      <4>1. fds[s] = One(s, files) + lost[s] /\ maps[s] = One(s, files) + lost[s]
        BY <2>2, NothingInHand
      <4>2. /\ One(s, InHand({"map", "own"})') = IF s = scan.shard THEN 1 ELSE 0
            /\ One(s, InHand({"own"})') = 0
        <5>1. scan'.pc = "map" /\ scan'.shard = scan.shard
          BY <2>2
        <5> QED BY <5>1 DEF One, InHand
      <4>3. One(s, files) \in Int
        BY DEF One
      <4>4. lost[s] \in Int
        BY <2>2 DEF OpenAndMapped
      <4>5. fds'[s] = IF s = scan.shard THEN fds[s] + 1 ELSE fds[s]
        BY <1>2, <2>2 DEF OpenAndMapped
      <4> QED BY <4>1, <4>2, <4>3, <4>4, <4>5
    <3>2. fds' \in [1 .. Len(Shards) -> Nat]
      BY <1>2, <2>2 DEF OpenAndMapped
    <3> QED BY <1>2, <2>2, <3>1, <3>2 DEF OpenAndMapped, One
  <2> QED BY <2>1, <2>3, <2>4 DEF FilesInv
<1> QED BY <1>1, <1>2 DEF OpenFile

(* The descriptor that the map does not own yet is closed by the throw.    *)
LEMMA MapFailsInv == ASSUME FilesInv, MapFails PROVE FilesInv'
<1>1. /\ scan' = Closed /\ files' = {} /\ odd' = 0 /\ mapped' = Zero
      /\ tensors' = [n \in Names |-> Absent] /\ lost' = lost
      /\ fds' = [s \in 1 .. Len(Shards) |-> fds[s] - One(s, files \cup {scan.shard})]
      /\ maps' = [s \in 1 .. Len(Shards) |-> maps[s] - One(s, files)]
  BY ShardsAre DEF MapFails, Unwind
<1>2. /\ scan.pc = "map" /\ scan.shard \notin files
      /\ lost \in [1 .. Len(Shards) -> Nat]
  BY DEF MapFails, FilesInv, ScanOK, Scanning, OwnsScanned, OpenAndMapped
<1>3. ASSUME NEW s \in 1 .. Len(Shards)
      PROVE  /\ fds[s] - One(s, files \cup {scan.shard}) = lost[s]
             /\ maps[s] - One(s, files) = lost[s]
  <2>1. /\ fds[s] = One(s, files) + One(s, {scan.shard}) + lost[s]
        /\ maps[s] = One(s, files) + One(s, {}) + lost[s]
    BY <1>2 DEF FilesInv, OpenAndMapped, InHand
  <2>2. /\ One(s, files \cup {scan.shard}) = One(s, files) + One(s, {scan.shard})
        /\ One(s, {}) = 0
    BY <1>2 DEF One
  <2>3. {One(s, files), One(s, {scan.shard}), lost[s]} \subseteq Int
    BY <1>2 DEF One
  <2> QED BY <2>1, <2>2, <2>3
<1> QED BY <1>1, <1>2, <1>3, Unwound

LEMMA MapFileInv == ASSUME FilesInv, MapFile PROVE FilesInv'
<1>1. /\ scan.pc = "map" /\ scan' = [pc |-> "own", shard |-> scan.shard]
      /\ scan.shard \in 1 .. Len(Shards) /\ OpenAndMapped
      /\ maps' = [maps EXCEPT ![scan.shard] = @ + 1]
      /\ UNCHANGED << fds, files, tensors, lost >>
  BY DEF MapFile, FilesInv, ScanOK, Scanning
<1>2. PICK size \in Among(Shards[scan.shard].size, OddSizes) \ {0} :
        /\ mapped' = [mapped EXCEPT ![scan.shard] = size]
        /\ Count(size # Shards[scan.shard].size)
  BY DEF MapFile
<1>3. (size = Shards[scan.shard].size \/ size \in OddSizes) /\ Deviations'
  BY <1>2, AmongThese DEF FilesInv
<1>4. size \in 0 .. Word - 1
  <2>1. Shards[scan.shard].size \in Nat /\ 2 * Shards[scan.shard].size < Word
    BY <1>1, WordAssumption, ShardsAre
  <2>2. size \in Nat /\ 2 * size < Word
    BY <1>2, <1>3, <2>1, WordAssumption
  <2> QED BY <2>2, WordRange
<1>5. files = 1 .. scan.shard - 1 /\ scan.shard \notin files
  BY <1>1 DEF FilesInv, OwnsScanned
<1>6. MappedOK'
  BY <1>1, <1>2, <1>4 DEF FilesInv, MappedOK
<1>7. \A s \in files : mapped'[s] = mapped[s]
  BY <1>1, <1>2, <1>5 DEF FilesInv, MappedOK
<1>8. Published'
  BY <1>1, <1>7, StillPublished DEF FilesInv
<1>9. ScanOK' /\ OwnsScanned'
  BY <1>1, <1>5 DEF FilesInv, ScanOK, Scanning, OwnsScanned
<1>10. OpenAndMapped'
  <2>1. ASSUME NEW s \in 1 .. Len(Shards)
        PROVE  /\ fds[s] = One(s, files) + One(s, InHand({"map", "own"})') + lost[s]
               /\ maps'[s] = One(s, files) + One(s, InHand({"own"})') + lost[s]
    <3>1. /\ fds[s] = One(s, files) + One(s, {scan.shard}) + lost[s]
          /\ maps[s] = One(s, files) + One(s, {}) + lost[s]
      BY <1>1 DEF OpenAndMapped, InHand
    <3>2. /\ One(s, InHand({"map", "own"})') = One(s, {scan.shard})
          /\ One(s, InHand({"own"})') = One(s, {scan.shard})
      <4>1. scan'.pc = "own" /\ scan'.shard = scan.shard
        BY <1>1
      <4> QED BY <4>1 DEF One, InHand
    <3>3. maps'[s] = maps[s] + One(s, {scan.shard}) /\ One(s, {}) = 0
      <4>1. maps'[s] = IF s = scan.shard THEN maps[s] + 1 ELSE maps[s]
        BY <1>1 DEF OpenAndMapped
      <4>2. maps[s] \in Nat
        BY <1>1 DEF OpenAndMapped
      <4> QED BY <4>1, <4>2 DEF One
    <3>4. One(s, files) \in Int /\ One(s, {scan.shard}) \in Int
      BY DEF One
    <3>5. lost[s] \in Int
      BY <1>1 DEF OpenAndMapped
    <3> QED BY <3>1, <3>2, <3>3, <3>4, <3>5
  <2>2. maps' \in [1 .. Len(Shards) -> Nat]
    BY <1>1 DEF OpenAndMapped
  <2> QED BY <1>1, <2>1, <2>2 DEF OpenAndMapped, One
<1> QED BY <1>3, <1>6, <1>8, <1>9, <1>10 DEF FilesInv

LEMMA OwnFileInv == ASSUME FilesInv, OwnFile PROVE FilesInv'
<1>1. /\ scan.pc = "own" /\ scan' = [pc |-> "header", shard |-> scan.shard]
      /\ scan.shard \in 1 .. Len(Shards) /\ OpenAndMapped
      /\ files' = files \cup {scan.shard}
      /\ UNCHANGED << fds, maps, mapped, tensors, odd, lost >>
  BY DEF OwnFile, FilesInv, ScanOK, Scanning
<1>2. files = 1 .. scan.shard - 1 /\ files' = 1 .. scan.shard /\ scan.shard \notin files
  BY <1>1 DEF FilesInv, OwnsScanned
<1>3. ScanOK' /\ OwnsScanned'
  BY <1>1, <1>2 DEF FilesInv, ScanOK, Scanning, OwnsScanned
<1>4. Published' /\ Deviations' /\ MappedOK'
  BY <1>1, StillPublished DEF FilesInv, Deviations, MappedOK
<1>5. OpenAndMapped'
  <2>1. ASSUME NEW s \in 1 .. Len(Shards)
        PROVE  /\ fds[s] = One(s, files') + One(s, InHand({"map", "own"})') + lost[s]
               /\ maps[s] = One(s, files') + One(s, InHand({"own"})') + lost[s]
    <3>1. /\ fds[s] = One(s, files) + One(s, {scan.shard}) + lost[s]
          /\ maps[s] = One(s, files) + One(s, {scan.shard}) + lost[s]
      BY <1>1 DEF OpenAndMapped, InHand
    <3>2. One(s, InHand({"map", "own"})') = 0 /\ One(s, InHand({"own"})') = 0
      <4>1. scan'.pc = "header"
        BY <1>1
      <4> QED BY <4>1 DEF One, InHand
    <3>3. One(s, files') = One(s, files) + One(s, {scan.shard})
      BY <1>1, <1>2 DEF One
    <3>4. {One(s, files), One(s, {scan.shard}), lost[s]} \subseteq Int
      BY <1>1 DEF One, OpenAndMapped
    <3> QED BY <3>1, <3>2, <3>3, <3>4
  <2> QED BY <1>1, <2>1 DEF OpenAndMapped, One
<1> QED BY <1>3, <1>4, <1>5 DEF FilesInv

(* What the destructor does not know of is lost.                           *)
LEMMA OwnFailsInv == ASSUME FilesInv, OwnFails PROVE FilesInv'
<1>1. /\ scan' = Closed /\ files' = {} /\ odd' = 0 /\ mapped' = Zero
      /\ tensors' = [n \in Names |-> Absent]
      /\ lost' = [lost EXCEPT ![scan.shard] = @ + 1]
      /\ fds' = [s \in 1 .. Len(Shards) |-> fds[s] - One(s, files)]
      /\ maps' = [s \in 1 .. Len(Shards) |-> maps[s] - One(s, files)]
  BY ShardsAre DEF OwnFails, Unwind
<1>2. /\ scan.pc = "own" /\ scan.shard \in 1 .. Len(Shards)
      /\ lost \in [1 .. Len(Shards) -> Nat]
  BY DEF OwnFails, FilesInv, ScanOK, Scanning, OpenAndMapped
<1>3. lost' \in [1 .. Len(Shards) -> Nat]
  BY <1>1, <1>2
<1>4. ASSUME NEW s \in 1 .. Len(Shards)
      PROVE  fds[s] - One(s, files) = lost'[s] /\ maps[s] - One(s, files) = lost'[s]
  <2>1. /\ fds[s] = One(s, files) + One(s, {scan.shard}) + lost[s]
        /\ maps[s] = One(s, files) + One(s, {scan.shard}) + lost[s]
    BY <1>2 DEF FilesInv, OpenAndMapped, InHand
  <2>2. lost'[s] = One(s, {scan.shard}) + lost[s]
    BY <1>1, <1>2 DEF One
  <2>3. {One(s, files), One(s, {scan.shard}), lost[s]} \subseteq Int
    BY <1>2 DEF One
  <2> QED BY <2>1, <2>2, <2>3
<1> QED BY <1>1, <1>3, <1>4, Unwound

(* A sum with the prefix that wraps does not fit a string.                 *)
LEMMA ReadHeaderInv == ASSUME FilesInv, ReadHeader PROVE FilesInv'
<1>1. CASE Destroy
  BY <1>1, DestroyInv DEF ReadHeader
<1>2. CASE ~ Destroy
  <2>1. PICK len \in Among(Shards[scan.shard].header, OddHeaders) :
          /\ HeaderFits(len)
          /\ scan' = [pc |-> "entry", shard |-> scan.shard, header |-> len,
                      todo |-> Shards[scan.shard].names]
          /\ Count(len # Shards[scan.shard].header)
          /\ UNCHANGED << tied, fds, maps, mapped, files, tensors, lost >>
    BY <1>2 DEF ReadHeader
  <2>2. scan.pc = "header" /\ scan.shard \in 1 .. Len(Shards)
    BY DEF ReadHeader, FilesInv, ScanOK, Scanning
  <2>3. (len = Shards[scan.shard].header \/ len \in OddHeaders) /\ Deviations'
    BY <2>1, AmongThese DEF FilesInv
  <2>4. len \in 0 .. Word - 1 /\ Shards[scan.shard].names \in Seq(Names)
    BY <2>2, <2>3, WordAssumption, ShardsAre
  <2>5. Prefix + len <= mapped[scan.shard]
    <3>1. /\ (len + 8) % Word <= mapped[scan.shard] /\ len <= MaxString
          /\ MaxString \in Nat /\ MaxString + 8 < Word /\ len \in Nat /\ Word \in Nat
      BY <2>1, <2>4, WordAssumption DEF HeaderFits, Size, Prefix
    <3>2. (len + 8) % Word = len + 8
      BY <3>1
    <3>3. mapped[scan.shard] \in Nat
      BY <2>2, WordRange DEF FilesInv, MappedOK
    <3> QED BY <3>1, <3>2, <3>3 DEF Prefix
  <2>6. ScanOK' /\ OwnsScanned'
    BY <2>1, <2>2, <2>4, <2>5, WordRange DEF FilesInv, ScanOK, Scanning, OwnsScanned
  <2>7. OpenAndMapped' /\ MappedOK'
    BY <2>1, <2>2, CountsKept DEF FilesInv
  <2>8. Published'
    BY <2>1, StillPublished DEF FilesInv
  <2> QED BY <2>3, <2>6, <2>7, <2>8 DEF FilesInv
<1> QED BY <1>1, <1>2

(* What Publish lets through lies in the data section.                     *)
LEMMA PublishedLies ==
  ASSUME FilesInv, scan.pc = "entry", NEW n \in Names,
         NEW dtype \in DOMAIN Width, NEW shape \in Seq(Int), NEW lo \in Nat, NEW hi \in Nat,
         Publish(n, dtype, shape, lo, hi), files' = files, mapped' = mapped
  PROVE  Published'
<1> DEFINE t == [shard |-> scan.shard, dtype |-> dtype, shape |-> shape,
                 data |-> (Prefix + scan.header + lo) % Word, nbytes |-> hi - lo]
<1>1. tensors' = [tensors EXCEPT ![n] = IF @ # Absent THEN @ ELSE t]
  BY DEF Publish
<1>2. /\ scan.shard \in 1 .. Len(Shards) /\ scan.header \in Nat
      /\ Prefix + scan.header <= mapped[scan.shard]
      /\ mapped[scan.shard] \in 0 .. Word - 1
  BY DEF FilesInv, ScanOK, Scanning, MappedOK
<1>3. scan.shard \in files
  BY <1>2 DEF FilesInv, OwnsScanned
<1>4. /\ shape \in Seq(Nat) /\ hi - lo = Elements(shape) * Width[dtype]
  BY SizeExact DEF Publish
<1>5. lo <= hi /\ hi <= mapped[scan.shard] - 8 - scan.header
  <2> DEFINE room == mapped[scan.shard] - 8 - scan.header
  <2>1. room \in 0 .. Word - 1
    <3> DEFINE h == scan.header  m == mapped[scan.shard]
    <3>1. h \in Nat /\ 8 + h <= m /\ m \in 0 .. Word - 1
      BY <1>2 DEF Prefix
    <3> HIDE DEF h, m
    <3>2. m - 8 - h \in 0 .. Word - 1
      BY <3>1, WordRange
    <3> QED BY <3>2 DEF h, m
  <2>2. lo <= hi /\ hi <= room % Word
    BY DEF Publish, InDataSection, Size, Prefix
  <2> HIDE DEF room
  <2>3. room % Word = room
    BY <2>1, WordRange
  <2>4. lo <= hi /\ hi <= room
    BY <2>2, <2>3
  <2> QED BY <2>4 DEF room
<1>6. /\ 8 + scan.header + lo \in 0 .. Word - 1
      /\ (8 + scan.header + lo) + (hi - lo) <= mapped[scan.shard]
      /\ 8 + scan.header + lo >= 8 /\ hi - lo \in Nat
  <2> DEFINE h == scan.header  m == mapped[scan.shard]
  <2>1. h \in Nat /\ m \in 0 .. Word - 1 /\ lo <= hi /\ hi <= m - 8 - h
    BY <1>2, <1>5
  <2> HIDE DEF h, m
  <2>2. /\ 8 + h + lo \in 0 .. Word - 1
        /\ (8 + h + lo) + (hi - lo) <= m
        /\ 8 + h + lo >= 8 /\ hi - lo \in Nat
    BY <2>1, WordRange
  <2> QED BY <2>2 DEF h, m
<1>7. (8 + scan.header + lo) % Word = 8 + scan.header + lo
  <2> DEFINE x == 8 + scan.header + lo
  <2>1. x \in 0 .. Word - 1
    BY <1>6
  <2> HIDE DEF x
  <2>2. x % Word = x
    BY <2>1, WordRange
  <2> QED BY <2>2 DEF x
<1>8. t.data = 8 + scan.header + lo /\ t.nbytes = hi - lo /\ t.shard = scan.shard
      /\ t.dtype = dtype /\ t.shape = shape
  BY <1>7 DEF Prefix
<1> HIDE DEF t
<1>9. Lies(t)
  BY <1>3, <1>4, <1>6, <1>8, WordRange DEF Lies, Prefix
<1>10. DOMAIN tensors = Names
  BY DEF FilesInv, Published
<1>11. ASSUME NEW m \in Names, tensors'[m] # Absent PROVE Lies(tensors'[m])
  <2>1. tensors'[m] = tensors[m] \/ tensors'[m] = t
    BY <1>1, <1>10
  <2>2. CASE tensors'[m] = tensors[m]
    BY <1>11, <2>2 DEF FilesInv, Published
  <2> QED BY <1>9, <2>1, <2>2
<1>12. DOMAIN tensors' = Names
  BY <1>1, <1>10
<1> QED BY <1>11, <1>12 DEF Published, Lies

LEMMA ReadEntryInv == ASSUME FilesInv, ReadEntry PROVE FilesInv'
<1>1. CASE Destroy
  BY <1>1, DestroyInv DEF ReadEntry
<1>2. CASE ~ Destroy
  <2> DEFINE n == Head(scan.todo)  sound == Sound[n]
  <2>1. /\ scan.pc = "entry" /\ scan.todo # << >>
        /\ scan' = [scan EXCEPT !.todo = Tail(@)]
        /\ UNCHANGED << tied, fds, maps, mapped, files, lost >>
    BY <1>2 DEF ReadEntry
  <2>2. scan' = [pc |-> "entry", shard |-> scan.shard, header |-> scan.header,
                 todo |-> Tail(scan.todo)]
    BY <2>1 DEF FilesInv, ScanOK
  <2>3. n \in Names /\ Tail(scan.todo) \in Seq(Names)
    BY <2>1 DEF FilesInv, ScanOK
  <2>4. Published' /\ Deviations'
    <3>1. CASE Publish(n, sound.dtype, sound.shape, 0,
                       ExpectedBytes(sound.dtype, sound.shape)) /\ Count(FALSE)
      <4>1. sound.dtype \in DOMAIN Width /\ sound.shape \in Seq(Nat)
        BY <2>3, TensorAssumption
      <4>2. sound.shape \in Seq(Int)
        BY <4>1
      <4>3. ExpectedBytes(sound.dtype, sound.shape) # Bad
        BY <3>1 DEF Publish
      <4>4. ExpectedBytes(sound.dtype, sound.shape) \in Nat
        <5> DEFINE e == ExpectedBytes(sound.dtype, sound.shape)
        <5>1. e \in 0 .. Word - 1
          <6> HIDE DEF n, sound
          <6> QED BY <4>1, <4>2, <4>3, SizeExact
        <5> HIDE DEF e
        <5>2. e \in Nat
          BY <5>1, WordRange
        <5> QED BY <5>2 DEF e
      <4>5. Deviations'
        BY <3>1 DEF Count, Deviations, FilesInv
      <4> HIDE DEF n, sound
      <4>6. Published'
        BY <2>1, <2>3, <3>1, <4>1, <4>2, <4>4, PublishedLies
      <4> QED BY <4>5, <4>6
    <3>2. CASE /\ odd < MaxOdd /\ Count(TRUE)
               /\ \/ tensors' = tensors
                  \/ \E dtype \in DOMAIN Width, shape \in OddShapes,
                        lo, hi \in OddOffsets : Publish(n, dtype, shape, lo, hi)
      <4>1. Deviations'
        <5>1. odd' = odd + 1 /\ odd < MaxOdd /\ odd \in 0 .. MaxOdd /\ MaxOdd \in Nat
          BY <3>2, TensorAssumption DEF Count, FilesInv, Deviations
        <5> QED BY <5>1 DEF Deviations
      <4>2. CASE tensors' = tensors
        <5>1. Published'
          BY <2>1, <4>2, StillPublished DEF FilesInv
        <5> QED BY <4>1, <5>1
      <4>3. ASSUME NEW dtype \in DOMAIN Width, NEW shape \in OddShapes,
                   NEW lo \in OddOffsets, NEW hi \in OddOffsets,
                   Publish(n, dtype, shape, lo, hi)
            PROVE  Published'
        <5>1. lo \in Nat /\ hi \in Nat
          BY WordAssumption
        <5>2. shape \in Seq(Int)
          <6>1. PICK r \in 0 .. 2 : shape \in [1 .. r -> OddDims]
            BY DEF OddShapes
          <6>2. shape \in [1 .. r -> Int]
            BY <6>1, TensorAssumption
          <6> QED BY <6>2
        <5> HIDE DEF n
        <5> QED BY <2>1, <2>3, <4>3, <5>1, <5>2, PublishedLies
      <4> QED BY <3>2, <4>1, <4>2, <4>3
    <3> QED BY <1>2, <3>1, <3>2 DEF ReadEntry
  <2>5. ScanOK' /\ OwnsScanned'
    BY <2>1, <2>2, <2>3 DEF FilesInv, ScanOK, Scanning, OwnsScanned
  <2>6. OpenAndMapped' /\ MappedOK'
    BY <2>1, <2>2, CountsKept DEF FilesInv
  <2> QED BY <2>4, <2>5, <2>6 DEF FilesInv
<1> QED BY <1>1, <1>2

LEMMA NextShardInv == ASSUME FilesInv, NextShard PROVE FilesInv'
<1>1. scan.pc = "entry" /\ scan.shard \in 1 .. Len(Shards) /\ files = 1 .. scan.shard
      /\ UNCHANGED << fds, maps, mapped, files, tensors, odd, lost >>
  BY DEF NextShard, FilesInv, ScanOK, Scanning, OwnsScanned
<1>2. Published' /\ Deviations'
  BY <1>1, StillPublished DEF FilesInv, Deviations
<1>3. CASE scan.shard < Len(Shards)
  <2>1. scan' = [pc |-> "open", shard |-> scan.shard + 1]
    BY <1>3 DEF NextShard
  <2>2. ScanOK' /\ OwnsScanned'
    BY <1>1, <1>3, <2>1, ShardsAre DEF FilesInv, ScanOK, Scanning, OwnsScanned
  <2>3. OpenAndMapped' /\ MappedOK'
    BY <1>1, <2>1, CountsKept DEF FilesInv
  <2> QED BY <1>2, <2>2, <2>3 DEF FilesInv
<1>4. CASE ~ scan.shard < Len(Shards)
  <2>1. scan' = [pc |-> "alias"] /\ scan.shard = Len(Shards)
    BY <1>1, <1>4, ShardsAre DEF NextShard
  <2>2. ScanOK' /\ OwnsScanned'
    BY <1>1, <2>1 DEF FilesInv, ScanOK, Scanning, OwnsScanned
  <2>3. OpenAndMapped' /\ MappedOK'
    BY <1>1, <2>1, CountsKept DEF FilesInv
  <2> QED BY <1>2, <2>2, <2>3 DEF FilesInv
<1> QED BY <1>3, <1>4

LEMMA AliasTiedInv == ASSUME FilesInv, AliasTied PROVE FilesInv'
<1>1. CASE Destroy
  BY <1>1, DestroyInv DEF AliasTied
<1>2. CASE ~ Destroy
  <2>1. /\ scan.pc = "alias" /\ scan' = [pc |-> "loaded"]
        /\ UNCHANGED << fds, maps, mapped, files, odd, lost >>
        /\ \/ tensors' = tensors
           \/ /\ tensors[Embed] # Absent
              /\ tensors' = [tensors EXCEPT ![LmHead] = tensors[Embed]]
    BY <1>2 DEF AliasTied
  <2>2. Published'
    <3>1. CASE tensors' = tensors
      BY <2>1, <3>1, StillPublished DEF FilesInv
    <3>2. CASE /\ tensors[Embed] # Absent
               /\ tensors' = [tensors EXCEPT ![LmHead] = tensors[Embed]]
      <4>1. DOMAIN tensors = Names /\ Embed \in Names /\ Lies(tensors[Embed])
        BY <3>2, TensorAssumption DEF FilesInv, Published
      <4>2. ASSUME NEW m \in Names, tensors'[m] # Absent PROVE Lies(tensors'[m])
        <5>1. tensors'[m] = tensors[m] \/ tensors'[m] = tensors[Embed]
          BY <3>2, <4>1
        <5>2. CASE tensors'[m] = tensors[m]
          BY <4>2, <5>2 DEF FilesInv, Published
        <5> QED BY <4>1, <5>1, <5>2
      <4>3. DOMAIN tensors' = Names
        BY <3>2, <4>1
      <4> QED BY <2>1, <4>2, <4>3 DEF Published, Lies
    <3> QED BY <2>1, <3>1, <3>2
  <2>3. ScanOK' /\ OwnsScanned' /\ Deviations'
    BY <2>1 DEF FilesInv, ScanOK, Scanning, OwnsScanned, Deviations
  <2>4. OpenAndMapped' /\ MappedOK'
    BY <2>1, CountsKept DEF FilesInv
  <2> QED BY <2>2, <2>3, <2>4 DEF FilesInv
<1> QED BY <1>1, <1>2

LEMMA FilesNextInv == ASSUME FilesInv, FilesNext PROVE FilesInv'
BY ListDirectoryInv, OpenFileInv, MapFailsInv, MapFileInv, OwnFileInv, OwnFailsInv,
   ReadHeaderInv, ReadEntryInv, NextShardInv, AliasTiedInv DEF FilesNext

(* The calls of the engine only read the weight map.                       *)
LEMMA FilesUnchanged ==
  ASSUME FilesInv, UNCHANGED fileVars
  PROVE  FilesInv'
<1>1. UNCHANGED << fds, maps, mapped, files, tensors, scan, odd, lost >>
  BY DEF fileVars
<1>2. Published'
  BY <1>1, StillPublished DEF FilesInv
<1>3. ScanOK' /\ OwnsScanned'
  BY <1>1 DEF FilesInv, ScanOK, OwnsScanned
<1>4. OpenAndMapped' /\ MappedOK' /\ Deviations'
  BY <1>1 DEF FilesInv, OpenAndMapped, InHand, One, MappedOK, Deviations
<1> QED BY <1>2, <1>3, <1>4 DEF FilesInv

-----------------------------------------------------------------------------
(* The program of load() and the layout of a layer                         *)

LEMMA Dimensions ==
  /\ Hidden \in Nat \ {0} /\ QDim \in Nat \ {0} /\ KvDim \in Nat \ {0}
  /\ Inter \in Nat \ {0} /\ Vocab \in Nat \ {0} /\ NumLayers \in Nat \ {0}
BY ShapeAssumption

LEMMA MatsAre ==
  /\ DOMAIN Mats = 1 .. 7
  /\ \A i \in 1 .. 7 :
       /\ Mats[i] \in DOMAIN Rows /\ Mats[i] \notin {"attn_norm", "ffn_norm"}
       /\ Rows[Mats[i]] \in Nat \ {0} /\ Cols[Mats[i]] \in Nat \ {0}
<1>1. DOMAIN Mats = 1 .. 7
  BY DEF Mats
<1>2. ASSUME NEW i \in 1 .. 7
      PROVE  Mats[i] \in {"q", "k", "v", "o", "gate", "up", "down"}
  <2>1. i = 1 \/ i = 2 \/ i = 3 \/ i = 4 \/ i = 5 \/ i = 6 \/ i = 7
    OBVIOUS
  <2> QED BY <2>1 DEF Mats
<1>3. ASSUME NEW m \in {"q", "k", "v", "o", "gate", "up", "down"}
      PROVE  /\ m \in DOMAIN Rows /\ m \notin {"attn_norm", "ffn_norm"}
             /\ Rows[m] \in Nat \ {0} /\ Cols[m] \in Nat \ {0}
  BY Dimensions DEF Rows, Cols
<1> QED BY <1>1, <1>2, <1>3

LEMMA LayerProgramAre ==
  ASSUME NEW l
  PROVE  /\ LayerProgram(l)[1] = << "norm", << l, "attn_norm" >>, 1 >>
         /\ LayerProgram(l)[2] = << "norm", << l, "ffn_norm" >>, 2 >>
         /\ \A i \in 1 .. 7 : LayerProgram(l)[2 + i] = << "matrix", << l, Mats[i] >>, i >>
         /\ LayerProgram(l)[10] = << "views", << l >>, 0 >>
<1> DEFINE a == << << "norm", << l, "attn_norm" >>, 1 >>, << "norm", << l, "ffn_norm" >>, 2 >> >>
           b == [i \in 1 .. 7 |-> << "matrix", << l, Mats[i] >>, i >>]
           c == << << "views", << l >>, 0 >> >>
           S == {a[1], a[2], c[1]} \cup {b[i] : i \in 1 .. 7}
<1>1. a \in Seq(S) /\ b \in Seq(S) /\ c \in Seq(S) /\ Len(a) = 2 /\ Len(b) = 7 /\ Len(c) = 1
  OBVIOUS
<1>2. LayerProgram(l) = (a \o b) \o c
  BY DEF LayerProgram
<1>3. /\ a[1] = << "norm", << l, "attn_norm" >>, 1 >>
      /\ a[2] = << "norm", << l, "ffn_norm" >>, 2 >>
      /\ \A i \in 1 .. 7 : b[i] = << "matrix", << l, Mats[i] >>, i >>
      /\ c[1] = << "views", << l >>, 0 >>
  OBVIOUS
<1> HIDE DEF a, b, c, S
<1> DEFINE d == a \o b
<1>4. /\ d \in Seq(S) /\ Len(d) = 9
      /\ d[1] = a[1] /\ d[2] = a[2] /\ \A i \in 1 .. 7 : d[2 + i] = b[i]
  <2>1. /\ d \in Seq(S) /\ Len(d) = Len(a) + Len(b)
        /\ \A i \in 1 .. Len(a) + Len(b) :
             d[i] = IF i <= Len(a) THEN a[i] ELSE b[i - Len(a)]
    BY <1>1, ConcatProperties
  <2> HIDE DEF d
  <2>2. \A i \in 1 .. 9 : d[i] = IF i <= 2 THEN a[i] ELSE b[i - 2]
    BY <1>1, <2>1
  <2>3. ASSUME NEW i \in 1 .. 7 PROVE d[2 + i] = b[i]
    <3>1. 2 + i \in 1 .. 9 /\ ~ (2 + i <= 2) /\ 2 + i - 2 = i
      OBVIOUS
    <3> QED BY <2>2, <3>1
  <2>4. d[1] = a[1] /\ d[2] = a[2]
    BY <2>2
  <2> QED BY <1>1, <2>1, <2>3, <2>4
<1> HIDE DEF d
<1>5. /\ (d \o c)[10] = c[1] /\ \A i \in 1 .. 9 : (d \o c)[i] = d[i]
  <2>1. \A i \in 1 .. Len(d) + Len(c) :
          (d \o c)[i] = IF i <= Len(d) THEN d[i] ELSE c[i - Len(d)]
    BY <1>1, <1>4, ConcatProperties
  <2> DEFINE e == d \o c
  <2>2. \A i \in 1 .. 10 : e[i] = IF i <= 9 THEN d[i] ELSE c[i - 9]
    <3>1. Len(d) = 9 /\ Len(c) = 1
      BY <1>1, <1>4
    <3>2. \A i \in 1 .. Len(d) + Len(c) : e[i] = IF i <= Len(d) THEN d[i] ELSE c[i - Len(d)]
      BY <2>1
    <3> HIDE DEF e
    <3>3. \A i \in 1 .. 9 + 1 : e[i] = IF i <= 9 THEN d[i] ELSE c[i - 9]
      BY <3>1, <3>2
    <3> QED BY <3>3
  <2> HIDE DEF e
  <2>3. e[10] = c[1]
    <3>1. 10 \in 1 .. 10 /\ ~ (10 <= 9) /\ 10 - 9 = 1
      OBVIOUS
    <3> QED BY <2>2, <3>1
  <2>4. \A i \in 1 .. 9 : e[i] = d[i]
    BY <2>2
  <2> QED BY <2>3, <2>4 DEF e
<1>6. LayerProgram(l) = d \o c
  BY <1>2 DEF d
<1>7. \A i \in 1 .. 7 : 2 + i \in 1 .. 9
  OBVIOUS
<1>8. ASSUME NEW i \in 1 .. 7 PROVE LayerProgram(l)[2 + i] = b[i]
  BY <1>4, <1>5, <1>6, <1>7
<1>9. LayerProgram(l)[1] = a[1] /\ LayerProgram(l)[2] = a[2] /\ LayerProgram(l)[10] = c[1]
  <2>1. 1 \in 1 .. 9 /\ 2 \in 1 .. 9
    OBVIOUS
  <2>2. (d \o c)[1] = d[1] /\ (d \o c)[2] = d[2]
    BY <1>5, <2>1, Zenon
  <2> QED BY <1>4, <1>5, <1>6, <2>2, Zenon
<1> QED BY <1>3, <1>8, <1>9, Zenon

LEMMA PrologueAre ==
  /\ Len(Prologue) = 4
  /\ Prologue[1] = << "embed", Embed, 0 >> /\ Prologue[2] = << "final", Norm, 0 >>
  /\ Prologue[3] = << "lm_head", LmHead, 0 >> /\ Prologue[4] = << "reset", << >>, 0 >>
BY DEF Prologue

LEMMA BaseIs ==
  ASSUME NEW l \in Nat
  PROVE  Base(l) = 4 + 10 * (l - 1)
BY PrologueAre DEF Base

LastStep == 5 + 10 * NumLayers

LEMMA ProgramLen == DOMAIN Program = 1 .. LastStep /\ Len(Program) = LastStep /\ LastStep \in Nat
<1> DEFINE n == Base(NumLayers + 1) + 1
<1>1. n = 5 + 10 * NumLayers /\ n \in Nat
  <2>1. NumLayers \in Nat /\ NumLayers + 1 \in Nat
    BY Dimensions
  <2>2. Base(NumLayers + 1) = 4 + 10 * (NumLayers + 1 - 1)
    BY <2>1, BaseIs
  <2> QED BY <2>1, <2>2
<1>2. DOMAIN Program = 1 .. n
  BY DEF Program
<1>3. Program = [k \in 1 .. n |-> Program[k]]
  BY DEF Program
<1> HIDE DEF n
<1>4. Len(Program) = n
  BY <1>1, <1>3
<1> QED BY <1>1, <1>2, <1>4 DEF LastStep

LEMMA ProgramAt ==
  /\ \A k \in 1 .. 4 : Program[k] = Prologue[k]
  /\ Program[LastStep] = << "rope", << >>, 0 >>
  /\ \A l \in Layers, i \in 1 .. 10 : Program[Base(l) + i] = LayerProgram(l)[i]
<1>1. NumLayers \in Nat /\ NumLayers >= 1 /\ NumLayers + 1 \in Nat
  BY Dimensions
<1>2. Base(NumLayers + 1) = 4 + 10 * NumLayers /\ Len(Prologue) = 4
  <2>1. Base(NumLayers + 1) = 4 + 10 * (NumLayers + 1 - 1)
    BY <1>1, BaseIs
  <2> QED BY <1>1, <2>1, PrologueAre
<1>3. \A k \in 1 .. LastStep :
        Program[k] = IF k <= 4 THEN Prologue[k]
                     ELSE IF k > 4 + 10 * NumLayers THEN << "rope", << >>, 0 >>
                     ELSE LET l == CHOOSE l \in Layers : k \in Base(l) + 1 .. Base(l) + 10
                          IN  LayerProgram(l)[k - Base(l)]
  <2>1. Base(NumLayers + 1) + 1 = LastStep
    BY <1>1, <1>2 DEF LastStep
  <2> QED BY <1>2, <2>1 DEF Program
<1>4. ASSUME NEW k \in 1 .. 4 PROVE Program[k] = Prologue[k]
  <2>1. k \in 1 .. LastStep /\ k <= 4
    BY <1>1 DEF LastStep
  <2> QED BY <1>3, <2>1
<1>5. Program[LastStep] = << "rope", << >>, 0 >>
  <2>1. LastStep \in 1 .. LastStep /\ ~ (LastStep <= 4) /\ LastStep > 4 + 10 * NumLayers
    BY <1>1 DEF LastStep
  <2> QED BY <1>3, <2>1
<1>6. ASSUME NEW l \in Layers, NEW i \in 1 .. 10
      PROVE  Program[Base(l) + i] = LayerProgram(l)[i]
  <2> DEFINE k == Base(l) + i
             Here(m) == k \in Base(m) + 1 .. Base(m) + 10
             c == CHOOSE m \in Layers : Here(m)
  <2>1. \A m \in Layers : m \in Nat /\ m >= 1 /\ m <= NumLayers /\ Base(m) = 4 + 10 * (m - 1)
    BY <1>1, BaseIs DEF Layers
  <2>2. /\ k \in 1 .. LastStep /\ ~ (k <= 4) /\ ~ (k > 4 + 10 * NumLayers)
        /\ k - Base(l) = i
    BY <1>1, <2>1 DEF LastStep
  <2>3. Here(l)
    BY <2>1
  <2>4. c \in Layers /\ Here(c)
    <3> HIDE DEF Here
    <3> QED BY <2>3
  <2>5. c = l
    <3> DEFINE x == c
    <3>1. x \in Layers /\ Here(x)
      BY <2>4
    <3> HIDE DEF x
    <3>2. x \in Nat /\ Base(x) = 4 + 10 * (x - 1) /\ l \in Nat /\ Base(l) = 4 + 10 * (l - 1)
      BY <2>1, <3>1
    <3>3. x = l
      BY <3>1, <3>2
    <3> QED BY <3>3 DEF x
  <2>6. Program[k] = LayerProgram(c)[k - Base(c)]
    <3> HIDE DEF k
    <3> QED BY <1>3, <2>2
  <2> HIDE DEF k, c
  <2>7. Program[k] = LayerProgram(l)[i]
    BY <2>2, <2>5, <2>6
  <2> QED BY <2>7 DEF k
<1> QED BY <1>4, <1>5, <1>6

(* Every step is one of these.                                             *)
LEMMA ProgramSteps ==
  ASSUME NEW k \in 1 .. LastStep
  PROVE  k \in 1 .. 4 \/ k = LastStep \/ \E l \in Layers, i \in 1 .. 10 : k = Base(l) + i
<1>1. NumLayers \in Nat /\ NumLayers >= 1
  BY Dimensions
<1>2. CASE k \in 5 .. LastStep - 1
  <2> DEFINE l == ((k - 5) \div 10) + 1  i == ((k - 5) % 10) + 1
  <2>1. k - 5 \in Nat /\ k - 5 < 10 * NumLayers
    BY <1>1, <1>2 DEF LastStep
  <2>2. /\ l \in Nat /\ l >= 1 /\ l <= NumLayers /\ i \in 1 .. 10
        /\ k = 4 + 10 * (l - 1) + i
    BY <1>1, <2>1
  <2>3. l \in Layers /\ k = Base(l) + i
    <3> HIDE DEF l, i
    <3> QED BY <1>1, <2>2, BaseIs DEF Layers
  <2> HIDE DEF l, i
  <2> QED BY <2>2, <2>3
<1>3. CASE k \notin 5 .. LastStep - 1
  BY <1>1, <1>3 DEF LastStep
<1> QED BY <1>2, <1>3

(* Running totals of seven numbers.                                        *)
LEMMA Totals ==
  ASSUME NEW c, \A i \in 1 .. 7 : c[i] \in Nat
  PROVE  \E f : f = [i \in 1 .. 8 |-> IF i = 1 THEN 0 ELSE f[i - 1] + c[i - 1]]
<1> DEFINE g == [r \in 1 .. 7 |-> [x \in Nat |-> x + c[r]]]
<1>1. g \in [1 .. 7 -> [Nat -> Nat]]
  OBVIOUS
<1>2. PICK h : Carries(h, Nat, 0, 7, g)
  <2>1. 0 \in Nat /\ 7 \in Nat
    OBVIOUS
  <2> HIDE DEF g
  <2> QED BY <1>1, <2>1, Recursion
<1>3. h \in [0 .. 7 -> Nat] /\ h[0] = 0 /\ \A r \in 1 .. 7 : h[r] = g[r][h[r - 1]]
  <2> HIDE DEF g
  <2> QED BY <1>2 DEF Carries
<1>4. ASSUME NEW r \in 1 .. 7 PROVE h[r] = h[r - 1] + c[r]
  <2>1. r - 1 \in 0 .. 7 /\ h[r - 1] \in Nat
    BY <1>3
  <2> QED BY <1>3, <2>1
<1> DEFINE f == [i \in 1 .. 8 |-> h[i - 1]]
<1>5. ASSUME NEW i \in 1 .. 8
      PROVE  f[i] = IF i = 1 THEN 0 ELSE f[i - 1] + c[i - 1]
  <2>1. f[i] = h[i - 1]
    OBVIOUS
  <2>2. CASE i = 1
    BY <1>3, <2>1, <2>2
  <2>3. CASE i # 1
    <3>1. i - 1 \in 1 .. 8 /\ i - 1 \in 1 .. 7 /\ f[i - 1] = h[i - 1 - 1]
      BY <2>3
    <3>2. h[i - 1] = h[i - 1 - 1] + c[i - 1]
      BY <1>4, <3>1
    <3> HIDE DEF f
    <3> QED BY <2>1, <2>3, <3>1, <3>2
  <2> QED BY <2>2, <2>3
<1>6. f = [i \in 1 .. 8 |-> f[i]]
  OBVIOUS
<1> HIDE DEF f
<1>7. f = [i \in 1 .. 8 |-> IF i = 1 THEN 0 ELSE f[i - 1] + c[i - 1]]
  BY <1>5, <1>6
<1> QED BY <1>7

(* They grow, and each number lies between two of them.                    *)
LEMMA TotalsGrow ==
  ASSUME NEW c, \A i \in 1 .. 7 : c[i] \in Nat, NEW f,
         f = [i \in 1 .. 8 |-> IF i = 1 THEN 0 ELSE f[i - 1] + c[i - 1]]
  PROVE  /\ \A i \in 1 .. 8 : f[i] \in Nat
         /\ \A i \in 1 .. 7 : f[i] + c[i] <= f[8]
         /\ \A i, j \in 1 .. 7 : j < i => f[j] + c[j] <= f[i]
<1>1. \A i \in 1 .. 8 : f[i] = IF i = 1 THEN 0 ELSE f[i - 1] + c[i - 1]
  OBVIOUS
<1>2. /\ f[1] = 0 /\ f[2] = f[1] + c[1] /\ f[3] = f[2] + c[2] /\ f[4] = f[3] + c[3]
      /\ f[5] = f[4] + c[4] /\ f[6] = f[5] + c[5] /\ f[7] = f[6] + c[6]
      /\ f[8] = f[7] + c[7]
  BY <1>1
<1>3. /\ c[1] \in Nat /\ c[2] \in Nat /\ c[3] \in Nat /\ c[4] \in Nat
      /\ c[5] \in Nat /\ c[6] \in Nat /\ c[7] \in Nat
  OBVIOUS
<1>4. \A i \in 1 .. 8 : f[i] \in Nat
  <2>1. /\ f[1] \in Nat /\ f[2] \in Nat /\ f[3] \in Nat /\ f[4] \in Nat
        /\ f[5] \in Nat /\ f[6] \in Nat /\ f[7] \in Nat /\ f[8] \in Nat
    BY <1>2, <1>3
  <2>2. \A i \in 1 .. 8 : i = 1 \/ i = 2 \/ i = 3 \/ i = 4 \/ i = 5 \/ i = 6 \/ i = 7 \/ i = 8
    OBVIOUS
  <2> QED BY <2>1, <2>2
<1>5. \A j \in 1 .. 7 : f[j] + c[j] = f[j + 1]
  <2> SUFFICES ASSUME NEW j \in 1 .. 7 PROVE f[j] + c[j] = f[j + 1]
    OBVIOUS
  <2>1. j + 1 \in 1 .. 8 /\ j + 1 # 1 /\ j + 1 - 1 = j
    OBVIOUS
  <2> QED BY <1>1, <2>1
<1>6. \A i \in 1 .. 8, j \in 1 .. 8 : j <= i => f[j] <= f[i]
  <2> SUFFICES ASSUME NEW j \in 1 .. 8 PROVE \A i \in 1 .. 8 : j <= i => f[j] <= f[i]
    OBVIOUS
  <2> DEFINE T == {i \in 1 .. 8 : j <= i /\ ~ (f[j] <= f[i])}
  <2> SUFFICES ASSUME T # {} PROVE FALSE
    OBVIOUS
  <2>1. T \in SUBSET Nat
    OBVIOUS
  <2>2. PICK k \in T : \A y \in T : k <= y
    <3> HIDE DEF T
    <3> QED BY <2>1, Least
  <2>3. k \in 1 .. 8 /\ j <= k /\ ~ (f[j] <= f[k]) /\ f[j] \in Nat /\ f[k] \in Nat
    BY <1>4
  <2>4. k # j
    BY <2>3
  <2>5. k - 1 \in 1 .. 7 /\ j <= k - 1 /\ k - 1 \in 1 .. 8 /\ ~ (k <= k - 1) /\ k - 1 + 1 = k
    BY <2>3, <2>4
  <2>6. f[j] <= f[k - 1]
    BY <2>2, <2>5
  <2>7. f[k - 1] + c[k - 1] = f[k] /\ c[k - 1] \in Nat /\ f[k - 1] \in Nat
    BY <1>4, <1>5, <2>5
  <2> QED BY <2>3, <2>6, <2>7
<1>7. ASSUME NEW j \in 1 .. 7, NEW i \in 1 .. 8, j < i PROVE f[j] + c[j] <= f[i]
  <2>1. j + 1 \in 1 .. 8 /\ j + 1 <= i
    BY <1>7
  <2>2. f[j + 1] <= f[i]
    BY <1>6, <2>1
  <2> QED BY <1>5, <2>2
<1> QED BY <1>4, <1>7

(* The space of matrix i in the blob of its layer, and of its scales.      *)
Area(i) == Rows[Mats[i]] * Cols[Mats[i]]

LEMMA OffsetsAre ==
  /\ DOMAIN Offsets = 1 .. 8 /\ \A i \in 1 .. 8 : Offsets[i] \in Nat
  /\ \A i \in 1 .. 7 : Area(i) \in Nat /\ Offsets[i] + Area(i) <= Offsets[8]
  /\ \A i, j \in 1 .. 7 : j < i => Offsets[j] + Area(j) <= Offsets[i]
<1> DEFINE c == [i \in 1 .. 7 |-> Area(i)]
           P(f) == f = [i \in 1 .. 8 |-> IF i = 1 THEN 0 ELSE f[i - 1] + c[i - 1]]
           Q(f) == f = [i \in 1 .. 8 |->
                     IF i = 1 THEN 0 ELSE f[i - 1] + Rows[Mats[i - 1]] * Cols[Mats[i - 1]]]
<1>1. \A i \in 1 .. 7 : c[i] \in Nat
  <2> SUFFICES ASSUME NEW i \in 1 .. 7 PROVE Rows[Mats[i]] * Cols[Mats[i]] \in Nat
    BY DEF Area
  <2>1. Rows[Mats[i]] \in Nat /\ Cols[Mats[i]] \in Nat
    BY MatsAre
  <2>2. \A x, y \in Nat : x * y \in Nat
    OBVIOUS
  <2> QED BY <2>1, <2>2
<1>2. ASSUME NEW i \in 1 .. 8, i # 1
      PROVE  c[i - 1] = Rows[Mats[i - 1]] * Cols[Mats[i - 1]]
  BY <1>2 DEF Area
<1>3. \E f : P(f)
  <2> HIDE DEF c
  <2> QED BY <1>1, Totals
<1>4. ASSUME NEW f PROVE P(f) <=> Q(f)
  <2>1. [i \in 1 .. 8 |-> IF i = 1 THEN 0 ELSE f[i - 1] + c[i - 1]]
          = [i \in 1 .. 8 |->
               IF i = 1 THEN 0 ELSE f[i - 1] + Rows[Mats[i - 1]] * Cols[Mats[i - 1]]]
    <3> HIDE DEF c
    <3> QED BY <1>2
  <2> HIDE DEF c
  <2> QED BY <2>1
<1>5. Offsets = CHOOSE f : Q(f)
  BY DEF Offsets
<1> HIDE DEF P, Q
<1>6. P(Offsets)
  BY <1>3, <1>4, <1>5
<1>7. DOMAIN Offsets = 1 .. 8
  BY <1>6 DEF P
<1>8. /\ \A i \in 1 .. 8 : Offsets[i] \in Nat
      /\ \A i \in 1 .. 7 : Offsets[i] + c[i] <= Offsets[8]
      /\ \A i, j \in 1 .. 7 : j < i => Offsets[j] + c[j] <= Offsets[i]
  <2>1. Offsets = [i \in 1 .. 8 |-> IF i = 1 THEN 0 ELSE Offsets[i - 1] + c[i - 1]]
    BY <1>6 DEF P
  <2> HIDE DEF c
  <2> QED BY <1>1, <2>1, TotalsGrow
<1>9. \A i \in 1 .. 7 : c[i] = Area(i)
  OBVIOUS
<1> HIDE DEF c
<1> QED BY <1>1, <1>7, <1>8, <1>9

LEMMA ScaleOffsetsAre ==
  /\ \A i \in 1 .. 8 : ScaleOffsets[i] \in Nat
  /\ \A i \in 1 .. 7 : ScaleOffsets[i] + Rows[Mats[i]] <= ScaleOffsets[8]
  /\ \A i, j \in 1 .. 7 : j < i => ScaleOffsets[j] + Rows[Mats[j]] <= ScaleOffsets[i]
<1> DEFINE c == [i \in 1 .. 7 |-> Rows[Mats[i]]]
           P(f) == f = [i \in 1 .. 8 |-> IF i = 1 THEN 0 ELSE f[i - 1] + c[i - 1]]
           Q(f) == f = [i \in 1 .. 8 |-> IF i = 1 THEN 0 ELSE f[i - 1] + Rows[Mats[i - 1]]]
<1>1. \A i \in 1 .. 7 : c[i] \in Nat
  BY MatsAre
<1>2. ASSUME NEW i \in 1 .. 8, i # 1 PROVE c[i - 1] = Rows[Mats[i - 1]]
  BY <1>2
<1>3. \E f : P(f)
  <2> HIDE DEF c
  <2> QED BY <1>1, Totals
<1>4. ASSUME NEW f PROVE P(f) <=> Q(f)
  <2>1. [i \in 1 .. 8 |-> IF i = 1 THEN 0 ELSE f[i - 1] + c[i - 1]]
          = [i \in 1 .. 8 |-> IF i = 1 THEN 0 ELSE f[i - 1] + Rows[Mats[i - 1]]]
    <3> HIDE DEF c
    <3> QED BY <1>2
  <2> HIDE DEF c
  <2> QED BY <2>1
<1>5. ScaleOffsets = CHOOSE f : Q(f)
  BY DEF ScaleOffsets
<1> HIDE DEF P, Q
<1>6. P(ScaleOffsets)
  BY <1>3, <1>4, <1>5
<1>7. /\ \A i \in 1 .. 8 : ScaleOffsets[i] \in Nat
      /\ \A i \in 1 .. 7 : ScaleOffsets[i] + c[i] <= ScaleOffsets[8]
      /\ \A i, j \in 1 .. 7 : j < i => ScaleOffsets[j] + c[j] <= ScaleOffsets[i]
  <2>1. ScaleOffsets = [i \in 1 .. 8 |-> IF i = 1 THEN 0 ELSE ScaleOffsets[i - 1] + c[i - 1]]
    BY <1>6 DEF P
  <2> HIDE DEF c
  <2> QED BY <1>1, <2>1, TotalsGrow
<1>8. \A i \in 1 .. 7 : c[i] = Rows[Mats[i]]
  OBVIOUS
<1> HIDE DEF c
<1> QED BY <1>7, <1>8

-----------------------------------------------------------------------------
(* Buffers                                                                 *)

LEMMA ElementsOne ==
  ASSUME NEW a \in Nat
  PROVE  Elements(<< a >>) = a
<1> DEFINE s == << a >>
<1>1. s \in Seq(Int) /\ Len(s) = 1 /\ s[1] = a
  OBVIOUS
<1> HIDE DEF s
<1>2. PICK f \in [0 .. Len(s) -> Int] :
        /\ f[0] = 1 /\ Elements(s) = f[Len(s)]
        /\ \A r \in 1 .. Len(s) : f[r] = f[r - 1] * s[r]
  BY <1>1, ElementsUpTo
<1>3. f[1] = f[0] * s[1]
  <2>1. 1 \in 1 .. Len(s) /\ 1 - 1 = 0
    BY <1>1
  <2> QED BY <1>2, <2>1
<1>4. Elements(s) = a
  BY <1>1, <1>2, <1>3
<1> QED BY <1>4 DEF s

LEMMA ElementsTwo ==
  ASSUME NEW a \in Nat, NEW b \in Nat
  PROVE  Elements(<< a, b >>) = a * b
<1> DEFINE s == << a, b >>
<1>1. s \in Seq(Int) /\ Len(s) = 2 /\ s[1] = a /\ s[2] = b
  OBVIOUS
<1> HIDE DEF s
<1>2. PICK f \in [0 .. Len(s) -> Int] :
        /\ f[0] = 1 /\ Elements(s) = f[Len(s)]
        /\ \A r \in 1 .. Len(s) : f[r] = f[r - 1] * s[r]
  BY <1>1, ElementsUpTo
<1>3. f[1] = f[0] * s[1] /\ f[2] = f[1] * s[2]
  <2>1. 1 \in 1 .. Len(s) /\ 1 - 1 = 0 /\ 2 \in 1 .. Len(s) /\ 2 - 1 = 1
    BY <1>1
  <2> QED BY <1>2, <2>1
<1>4. f[1] = a
  BY <1>1, <1>2, <1>3
<1>5. Elements(s) = a * b
  BY <1>1, <1>2, <1>3, <1>4
<1> QED BY <1>5 DEF s

(* Row-major places are apart.                                             *)
LEMMA RowMajor ==
  ASSUME NEW rows \in Nat, NEW cols \in Nat,
         NEW r \in 0 .. rows - 1, NEW c \in 0 .. cols - 1
  PROVE  /\ rows * cols \in Nat /\ r * cols + c \in 0 .. rows * cols - 1
         /\ (r * cols + c) \div cols = r /\ (r * cols + c) % cols = c
<1>1. r \in Nat /\ c \in Nat /\ cols \in Nat \ {0} /\ c < cols /\ r + 1 <= rows /\ r + 1 \in Nat
  OBVIOUS
<1>2. /\ cols * (r + 1) <= cols * rows
      /\ cols * (r + 1) \in Nat /\ cols * rows \in Nat
  BY <1>1, MulMonotone
<1>3. cols * (r + 1) = r * cols + cols /\ cols * rows = rows * cols /\ r * cols \in Nat
  <2>1. \A x, y \in Nat : y * (x + 1) = x * y + y /\ x * y \in Nat /\ y * x = x * y
    OBVIOUS
  <2> QED BY <1>1, <2>1
<1>4. r * cols + c \in 0 .. rows * cols - 1
  <2> DEFINE p == r * cols  q == rows * cols
  <2>1. p \in Nat /\ q \in Nat /\ p + cols <= q
    BY <1>2, <1>3
  <2> HIDE DEF p, q
  <2>2. p + c \in 0 .. q - 1
    BY <1>1, <2>1
  <2> QED BY <2>2 DEF p, q
<1>5. (r * cols + c) \div cols = r /\ (r * cols + c) % cols = c
  BY <1>1, SMT
<1> QED BY <1>2, <1>3, <1>4, <1>5

(* A tensor that was written is read back whole.                           *)
LEMMA WrittenReads ==
  ASSUME NEW size \in Nat, NEW mem, DOMAIN mem = 0 .. size - 1,
         NEW rows \in Nat, NEW cols \in Nat, NEW p \in Nat, p + rows * cols <= size,
         NEW n, NEW shape,
         shape = << rows, cols >> \/ (rows = 1 /\ shape = << cols >>)
  PROVE  ReadsAs(Written(mem, p, n, shape, rows * cols), p, n, rows, cols)
<1> DEFINE w == Written(mem, p, n, shape, rows * cols)
<1> SUFFICES ASSUME NEW r \in 0 .. rows - 1, NEW c \in 0 .. cols - 1
             PROVE  p + r * cols + c \in DOMAIN w /\ w[p + r * cols + c] = << n, r, c >>
  BY DEF ReadsAs
<1> DEFINE k == r * cols + c
<1>1. /\ rows * cols \in Nat /\ k \in 0 .. rows * cols - 1
      /\ k \div cols = r /\ k % cols = c
  BY RowMajor
<1>2. p + r * cols + c = p + k
  <2>1. r * cols \in Int
    <3>1. \A x, y \in Int : x * y \in Int
      OBVIOUS
    <3> QED BY <3>1
  <2> DEFINE z == r * cols
  <2> HIDE DEF z
  <2>2. p + z + c = p + (z + c)
    BY <2>1 DEF z
  <2> QED BY <2>2 DEF z
<1>3. rows = 1 => k = c
  BY DEF k
<1> HIDE DEF k
<1> DEFINE count == rows * cols
<1>4. count \in Nat /\ k \in 0 .. count - 1 /\ p + count <= size
  BY <1>1
<1>5. w = [i \in DOMAIN mem |->
             IF i \in p .. p + count - 1 THEN Element(n, shape, i - p) ELSE mem[i]]
  BY DEF Written
<1> HIDE DEF w, count
<1>6. p + k \in 0 .. size - 1 /\ p + k \in p .. p + count - 1 /\ (p + k) - p = k
  BY <1>4
<1>7. p + k \in DOMAIN w /\ w[p + k] = Element(n, shape, k)
  <2>1. \A j \in 0 .. size - 1 :
          j \in p .. p + count - 1 => j \in DOMAIN w /\ w[j] = Element(n, shape, j - p)
    BY <1>5
  <2>2. p + k \in DOMAIN w /\ w[p + k] = Element(n, shape, (p + k) - p)
    BY <1>6, <2>1
  <2> QED BY <1>6, <2>2
<1>8. Element(n, shape, k) = << n, r, c >>
  <2>1. CASE shape = << rows, cols >>
    <3>1. Len(shape) = 2 /\ shape[2] = cols
      BY <2>1
    <3> QED BY <1>1, <3>1 DEF Element
  <2>2. CASE rows = 1 /\ shape = << cols >>
    <3>1. Len(shape) = 1 /\ r = 0
      BY <2>2
    <3> QED BY <1>3, <2>2, <3>1 DEF Element
  <2> QED BY <2>1, <2>2
<1> QED BY <1>2, <1>7, <1>8

(* What lies before it stays.                                              *)
LEMMA WrittenKeeps ==
  ASSUME NEW mem, NEW q \in Nat, NEW m, NEW rows \in Nat, NEW cols \in Nat,
         ReadsAs(mem, q, m, rows, cols),
         NEW p \in Nat, q + rows * cols <= p,
         NEW n, NEW shape, NEW count
  PROVE  ReadsAs(Written(mem, p, n, shape, count), q, m, rows, cols)
<1> DEFINE w == Written(mem, p, n, shape, count)
<1> SUFFICES ASSUME NEW r \in 0 .. rows - 1, NEW c \in 0 .. cols - 1
             PROVE  q + r * cols + c \in DOMAIN w /\ w[q + r * cols + c] = << m, r, c >>
  BY DEF ReadsAs
<1>1. q + r * cols + c \in DOMAIN mem /\ mem[q + r * cols + c] = << m, r, c >>
  BY DEF ReadsAs
<1>2. rows * cols \in Nat /\ r * cols + c \in 0 .. rows * cols - 1 /\ r * cols \in Int
  <2>1. \A x, y \in Int : x * y \in Int
    OBVIOUS
  <2> QED BY <2>1, RowMajor
<1> DEFINE z == r * cols  area == rows * cols  k == q + r * cols + c
<1>3. k \in Int /\ k < p
  <2>1. area \in Nat /\ z + c \in 0 .. area - 1 /\ z \in Int /\ q + area <= p /\ k = q + z + c
    BY <1>2
  <2> HIDE DEF z, area, k
  <2> QED BY <2>1
<1> HIDE DEF k
<1>4. k \notin p .. p + count - 1
  BY <1>3
<1>5. k \in DOMAIN w /\ w[k] = mem[k]
  BY <1>1, <1>4 DEF Written, k
<1> QED BY <1>1, <1>5 DEF k

LEMMA ScalesRead ==
  ASSUME NEW size \in Nat, NEW mem, DOMAIN mem = 0 .. size - 1,
         NEW rows \in Nat, NEW p \in Nat, p + rows <= size, NEW n
  PROVE  ScalesAs(WrittenScales(mem, p, n, rows), p, n, rows)
BY DEF ScalesAs, WrittenScales, Scale

LEMMA ScalesKept ==
  ASSUME NEW mem, NEW q \in Nat, NEW m, NEW rows \in Nat, ScalesAs(mem, q, m, rows),
         NEW p \in Nat, q + rows <= p, NEW n, NEW count
  PROVE  ScalesAs(WrittenScales(mem, p, n, count), q, m, rows)
<1> SUFFICES ASSUME NEW r \in 0 .. rows - 1
             PROVE  /\ q + r \in DOMAIN WrittenScales(mem, p, n, count)
                    /\ WrittenScales(mem, p, n, count)[q + r] = << m, r >>
  BY DEF ScalesAs
<1>1. q + r \in DOMAIN mem /\ mem[q + r] = << m, r >> /\ q + r \notin p .. p + count - 1
  BY DEF ScalesAs
<1> QED BY <1>1 DEF WrittenScales

LEMMA Sizes ==
  /\ \A mem, p, n, shape, count : DOMAIN Written(mem, p, n, shape, count) = DOMAIN mem
  /\ \A mem, p, n, rows : DOMAIN WrittenScales(mem, p, n, rows) = DOMAIN mem
  /\ \A n : DOMAIN Blank(n) = 0 .. n - 1
BY DEF Written, WrittenScales, Blank

LEMMA WholeReads ==
  ASSUME NEW rows \in Nat, NEW cols \in Nat, NEW n, NEW shape,
         shape = << rows, cols >> \/ (rows = 1 /\ shape = << cols >>)
  PROVE  ReadsAs(Whole(n, shape), 0, n, rows, cols)
<1> DEFINE size == rows * cols
<1>1. size \in Nat
  <2>1. \A x, y \in Nat : x * y \in Nat
    OBVIOUS
  <2> QED BY <2>1
<1>2. Elements(shape) = size
  <2>1. CASE shape = << rows, cols >>
    BY <2>1, ElementsTwo
  <2>2. CASE rows = 1 /\ shape = << cols >>
    BY <2>2, ElementsOne
  <2> QED BY <2>1, <2>2
<1>3. Whole(n, shape) = Written(Blank(size), 0, n, shape, size)
  BY <1>2 DEF Whole
<1>4. DOMAIN Blank(size) = 0 .. size - 1
  BY Sizes
<1> DEFINE mem == Blank(size)
<1>5. 0 \in Nat /\ 0 + rows * cols <= size /\ DOMAIN mem = 0 .. size - 1
  BY <1>1, <1>4
<1> HIDE DEF mem
<1>6. ReadsAs(Written(mem, 0, n, shape, rows * cols), 0, n, rows, cols)
  BY <1>1, <1>5, WrittenReads
<1> QED BY <1>3, <1>6 DEF mem

-----------------------------------------------------------------------------
(* The load                                                                *)

(* What the steps before the one that load() is at have put in place, in   *)
(* this load or in one that failed before it.                              *)
Fields == {"embed", "final", "lm", "lmScales", "lmPtr", "norms", "blob", "scales",
           "views", "rope"}

EmbedRead == ReadsAs(model.embed, 0, Embed, Vocab, Hidden)
FinalRead == ReadsAs(model.final, 0, Norm, 1, Hidden)

HeadRead ==
  LET head == IF tied THEN Embed ELSE LmHead IN
  /\ model.lmPtr = IF tied /\ storage = "F32" THEN "embed" ELSE "own"
  /\ model.lmPtr = "own" => ReadsAs(model.lm, 0, head, Vocab, Hidden)
  /\ storage = "I8" => ScalesAs(model.lmScales, 0, head, Vocab)

Sized ==
  /\ DOMAIN model.norms = Layers /\ DOMAIN model.blob = Layers
  /\ DOMAIN model.scales = Layers /\ DOMAIN model.views = Layers

NormsRead(l) ==
  /\ at > Base(l) + 1 =>
       /\ DOMAIN model.norms[l] = 0 .. 2 * Hidden - 1
       /\ ReadsAs(model.norms[l], 0, << l, "attn_norm" >>, 1, Hidden)
  /\ at > Base(l) + 2 => ReadsAs(model.norms[l], Hidden, << l, "ffn_norm" >>, 1, Hidden)

MatrixRead(l, i) ==
  LET m == Mats[i] IN
  /\ ReadsAs(model.blob[l], Offsets[i], << l, m >>, Rows[m], Cols[m])
  /\ storage = "I8" => ScalesAs(model.scales[l], ScaleOffsets[i], << l, m >>, Rows[m])

MatricesRead(l) ==
  /\ at > Base(l) + 3 =>
       /\ DOMAIN model.blob[l] = 0 .. Offsets[8] - 1
       /\ storage = "I8" => DOMAIN model.scales[l] = 0 .. ScaleOffsets[8] - 1
  /\ \A i \in 1 .. 7 : at > Base(l) + (2 + i) => MatrixRead(l, i)

ViewsSet(l) == at > Base(l) + 10 => model.views[l] = Views

LayerRead(l) == NormsRead(l) /\ MatricesRead(l) /\ ViewsSet(l)

Partial ==
  /\ DOMAIN model = Fields
  /\ at > 1 => EmbedRead
  /\ at > 2 => FinalRead
  /\ at > 3 => HeadRead
  /\ at > 4 => Sized
  /\ \A l \in Layers : LayerRead(l)
  /\ at = LastStep + 1 => model.rope = TRUE

(* Who is in a call, and how far the model is.                             *)
Calls ==
  /\ tied \in BOOLEAN /\ built \in BOOLEAN /\ storage \in {"F32", "F16", "I8"}
  /\ pc \in [Threads -> {"idle", "locked", "load", "forward"}]
  /\ at \in 1 .. LastStep + 1 /\ faults \in 0 .. MaxFaults
  /\ \A t, u \in Threads : pc[t] # "idle" /\ pc[u] # "idle" => t = u
  /\ \A t \in Threads : pc[t] = "load" => ~ built
  /\ \A t \in Threads : pc[t] = "forward" => built
  /\ built => at = LastStep + 1

IInv == FilesInv /\ Calls /\ Partial

-----------------------------------------------------------------------------
LEMMA Bases ==
  ASSUME NEW l \in Layers
  PROVE  Base(l) \in Nat /\ Base(l) >= 4 /\ Base(l) + 10 < LastStep
<1>1. l \in Nat /\ l >= 1 /\ l <= NumLayers /\ NumLayers \in Nat
  BY Dimensions DEF Layers
<1>2. Base(l) = 4 + 10 * (l - 1)
  BY <1>1, BaseIs
<1> QED BY <1>1, <1>2 DEF LastStep

LEMMA BasesApart ==
  ASSUME NEW l \in Layers, NEW m \in Layers, l # m,
         NEW i \in 1 .. 10, NEW j \in 1 .. 10
  PROVE  Base(l) + i # Base(m) + j
<1>1. l \in Nat /\ m \in Nat
  BY Dimensions DEF Layers
<1>2. Base(l) = 4 + 10 * (l - 1) /\ Base(m) = 4 + 10 * (m - 1)
  BY <1>1, BaseIs
<1> QED BY <1>1, <1>2

(* Before the first step of a layer nothing is asked of it.                *)
LEMMA LayersLater ==
  ASSUME at' \in Nat, at' <= 5
  PROVE  \A l \in Layers : LayerRead(l)'
<1> SUFFICES ASSUME NEW l \in Layers PROVE LayerRead(l)'
  OBVIOUS
<1>1. Base(l) \in Nat /\ Base(l) >= 4
  BY Bases
<1>2. \A i \in 1 .. 10 : ~ (at' > Base(l) + i)
  BY <1>1
<1>3. \A i \in 1 .. 7 : 2 + i \in 1 .. 10
  OBVIOUS
<1> QED BY <1>2, <1>3 DEF LayerRead, NormsRead, MatricesRead, ViewsSet

(* A layer that a step leaves alone stays read.                            *)
LEMMA LayerKept ==
  ASSUME NEW l \in Layers, LayerRead(l), at \in Nat, at' = at + 1, storage' = storage,
         model'.norms[l] = model.norms[l], model'.blob[l] = model.blob[l],
         model'.scales[l] = model.scales[l], model'.views[l] = model.views[l],
         \A i \in 1 .. 10 : at # Base(l) + i
  PROVE  LayerRead(l)'
<1>1. Base(l) \in Nat
  BY Bases
<1>2. \A i \in 1 .. 10 : at' > Base(l) + i => at > Base(l) + i
  BY <1>1
<1>3. NormsRead(l)'
  BY <1>2 DEF LayerRead, NormsRead
<1>4. ViewsSet(l)'
  BY <1>2 DEF LayerRead, ViewsSet
<1>5. \A i \in 1 .. 7 : MatrixRead(l, i) => MatrixRead(l, i)'
  BY DEF MatrixRead
<1>6. \A i \in 1 .. 7 : 2 + i \in 1 .. 10
  OBVIOUS
<1>7. MatricesRead(l)'
  BY <1>2, <1>5, <1>6 DEF LayerRead, MatricesRead
<1> QED BY <1>3, <1>4, <1>7 DEF LayerRead

(* The steps of load() that name a tensor convert the whole of it.         *)
LEMMA Shapes ==
  /\ Shape(Embed) = << Vocab, Hidden >> /\ Shape(LmHead) = << Vocab, Hidden >>
  /\ Shape(Norm) = << Hidden >>
  /\ \A l \in Layers : /\ Shape(<< l, "attn_norm" >>) = << Hidden >>
                       /\ Shape(<< l, "ffn_norm" >>) = << Hidden >>
  /\ \A l \in Layers, i \in 1 .. 7 :
       Shape(<< l, Mats[i] >>) = << Rows[Mats[i]], Cols[Mats[i]] >>
<1>1. ASSUME NEW l \in Layers, NEW part \in {"attn_norm", "ffn_norm"} \cup DOMAIN Rows
      PROVE  << l, part >> \notin {Embed, LmHead, Norm} /\ << l, part >>[2] = part
  BY ShapeAssumption
<1>2. ASSUME NEW l \in Layers, NEW i \in 1 .. 7
      PROVE  Shape(<< l, Mats[i] >>) = << Rows[Mats[i]], Cols[Mats[i]] >>
  <2> DEFINE m == Mats[i]
  <2>1. m \in DOMAIN Rows /\ m \notin {"attn_norm", "ffn_norm"}
    BY MatsAre
  <2> HIDE DEF m
  <2>2. << l, m >> \notin {Embed, LmHead, Norm} /\ << l, m >>[2] = m
    BY <1>1, <2>1
  <2>3. Shape(<< l, m >>) = << Rows[m], Cols[m] >>
    BY <2>1, <2>2 DEF Shape
  <2> QED BY <2>3 DEF m
<1>3. ASSUME NEW l \in Layers, NEW part \in {"attn_norm", "ffn_norm"}
      PROVE  Shape(<< l, part >>) = << Hidden >>
  BY <1>1 DEF Shape
<1>4. Shape(Norm) = << Hidden >>
  BY ShapeAssumption DEF Shape
<1> QED BY <1>2, <1>3, <1>4 DEF Shape

LEMMA LoadedIs ==
  /\ Op = "embed" => Loaded = [model EXCEPT !.embed = Whole(Src, tensors[Src].shape)]
  /\ Op = "final" => Loaded = [model EXCEPT !.final = Whole(Src, tensors[Src].shape)]
  /\ Op = "lm_head" => Loaded = LmHeadLoaded
  /\ Op = "reset" => Loaded = Reset
  /\ Op = "norm" => Loaded = NormLoaded(Src[1])
  /\ Op = "matrix" => Loaded = MatrixLoaded(Src[1])
  /\ Op = "views" => Loaded = [model EXCEPT !.views[Src[1]] = Views]
  /\ Op = "rope" => Loaded = [model EXCEPT !.rope = TRUE]
BY DEF Loaded

(* A step of the load that is at k.                                        *)
Steps ==
  /\ model' = Loaded /\ at' = at + 1
  /\ Reads => Convertible(Src)
  /\ UNCHANGED << tied, storage >>

LEMMA EmbedStep ==
  ASSUME Partial, Calls, Steps, at = 1
  PROVE  Partial'
<1>1. Program[1] = << "embed", Embed, 0 >>
  BY ProgramAt, PrologueAre
<1>2. Op = "embed" /\ Src = Embed
  BY <1>1 DEF Op, Src
<1>3. tensors[Embed].shape = << Vocab, Hidden >>
  BY <1>2, Shapes DEF Steps, Reads, Convertible, RightShape
<1>4. model' = [model EXCEPT !.embed = Whole(Embed, << Vocab, Hidden >>)]
  BY <1>2, <1>3, LoadedIs DEF Steps
<1>5. DOMAIN model' = Fields /\ model'.embed = Whole(Embed, << Vocab, Hidden >>)
  BY <1>4 DEF Partial, Fields
<1>6. EmbedRead'
  <2>1. ReadsAs(Whole(Embed, << Vocab, Hidden >>), 0, Embed, Vocab, Hidden)
    BY Dimensions, WholeReads
  <2>2. EmbedRead' <=> ReadsAs(model'.embed, 0, Embed, Vocab, Hidden)
    BY DEF EmbedRead, ReadsAs
  <2> QED BY <1>5, <2>1, <2>2
<1>7. at' = 2 /\ ~ (2 = LastStep + 1)
  BY Dimensions DEF Steps, LastStep
<1>8. \A l \in Layers : LayerRead(l)'
  BY <1>7, LayersLater
<1> QED BY <1>5, <1>6, <1>7, <1>8 DEF Partial

LEMMA FinalStep ==
  ASSUME Partial, Calls, Steps, at = 2
  PROVE  Partial'
<1>1. Program[2] = << "final", Norm, 0 >>
  BY ProgramAt, PrologueAre
<1>2. Op = "final" /\ Src = Norm
  BY <1>1 DEF Op, Src
<1>3. tensors[Norm].shape = << Hidden >>
  BY <1>2, Shapes DEF Steps, Reads, Convertible, RightShape
<1>4. model' = [model EXCEPT !.final = Whole(Norm, << Hidden >>)]
  BY <1>2, <1>3, LoadedIs DEF Steps
<1>5. /\ DOMAIN model' = Fields /\ model'.final = Whole(Norm, << Hidden >>)
      /\ model'.embed = model.embed
  BY <1>4 DEF Partial, Fields
<1>6. FinalRead'
  <2>1. 1 \in Nat
    OBVIOUS
  <2>2. ReadsAs(Whole(Norm, << Hidden >>), 0, Norm, 1, Hidden)
    BY Dimensions, WholeReads, <2>1
  <2>3. FinalRead' <=> ReadsAs(model'.final, 0, Norm, 1, Hidden)
    BY DEF FinalRead, ReadsAs
  <2> QED BY <1>5, <2>2, <2>3
<1>7. EmbedRead'
  <2>1. EmbedRead
    BY DEF Partial
  <2> QED BY <1>5, <2>1 DEF EmbedRead, ReadsAs
<1>8. at' = 3 /\ ~ (3 = LastStep + 1)
  BY Dimensions DEF Steps, LastStep
<1>9. \A l \in Layers : LayerRead(l)'
  BY <1>8, LayersLater
<1> QED BY <1>5, <1>6, <1>7, <1>8, <1>9 DEF Partial

LEMMA HeadStep ==
  ASSUME Partial, Calls, Steps, at = 3
  PROVE  Partial'
<1> DEFINE head == IF tied THEN Embed ELSE LmHead
           own == IF tied THEN model.embed ELSE Whole(LmHead, tensors[LmHead].shape)
           blank == Blank(Vocab)
           marks == WrittenScales(blank, 0, head, Vocab)
<1>1. Program[3] = << "lm_head", LmHead, 0 >>
  BY ProgramAt, PrologueAre
<1>2. Op = "lm_head" /\ Src = LmHead
  BY <1>1 DEF Op, Src
<1>3. ~ tied => tensors[LmHead].shape = << Vocab, Hidden >>
  BY <1>2, Shapes DEF Steps, Reads, Convertible, RightShape
<1>4. model' = LmHeadLoaded
  BY <1>2, LoadedIs DEF Steps
<1>5. EmbedRead /\ FinalRead /\ DOMAIN model = Fields
  BY DEF Partial
<1>6. ReadsAs(own, 0, head, Vocab, Hidden)
  <2>1. CASE tied
    BY <1>5, <2>1 DEF EmbedRead
  <2>2. CASE ~ tied
    <3>1. ReadsAs(Whole(LmHead, << Vocab, Hidden >>), 0, LmHead, Vocab, Hidden)
      BY Dimensions, WholeReads
    <3> QED BY <1>3, <2>2, <3>1
  <2> QED BY <2>1, <2>2
<1>7. ScalesAs(marks, 0, head, Vocab)
  <2>1. DOMAIN blank = 0 .. Vocab - 1
    BY Sizes
  <2>2. 0 \in Nat /\ Vocab \in Nat /\ 0 + Vocab <= Vocab
    BY Dimensions
  <2> HIDE DEF blank, head
  <2> QED BY <2>1, <2>2, ScalesRead
<1>8. /\ DOMAIN model' = Fields /\ model'.embed = model.embed /\ model'.final = model.final
      /\ model'.lmPtr = IF tied /\ storage = "F32" THEN "embed" ELSE "own"
      /\ ~ (tied /\ storage = "F32") => model'.lm = own
      /\ storage = "I8" => model'.lmScales = marks
  <2> HIDE DEF own, marks
  <2>1. CASE tied /\ storage = "F32"
    <3>1. model' = [model EXCEPT !.lm = << >>, !.lmPtr = "embed"]
      BY <1>4, <2>1 DEF LmHeadLoaded
    <3>2. storage # "I8"
      BY <2>1
    <3> QED BY <1>5, <2>1, <3>1, <3>2 DEF Fields
  <2>2. CASE ~ (tied /\ storage = "F32")
    <3>1. model' = [model EXCEPT !.lm = own, !.lmPtr = "own",
                      !.lmScales = IF storage = "I8" THEN marks ELSE model.lmScales]
      BY <1>4, <2>2 DEF LmHeadLoaded, own, marks
    <3> QED BY <1>5, <2>2, <3>1 DEF Fields
  <2> QED BY <2>1, <2>2
<1>9. tied' = tied /\ storage' = storage
  BY DEF Steps
<1> HIDE DEF own, marks
<1>10. HeadRead'
  <2> DEFINE Head2(lm, ptr, scales) ==
        /\ ptr = IF tied /\ storage = "F32" THEN "embed" ELSE "own"
        /\ ptr = "own" => ReadsAs(lm, 0, head, Vocab, Hidden)
        /\ storage = "I8" => ScalesAs(scales, 0, head, Vocab)
  <2>1. model'.lmPtr = "own" => ReadsAs(model'.lm, 0, head, Vocab, Hidden)
    BY <1>6, <1>8
  <2>2. storage = "I8" => ScalesAs(model'.lmScales, 0, head, Vocab)
    BY <1>7, <1>8
  <2>3. Head2(model'.lm, model'.lmPtr, model'.lmScales)
    <3> HIDE DEF head
    <3> QED BY <1>8, <2>1, <2>2
  <2>4. HeadRead' <=> Head2(model'.lm, model'.lmPtr, model'.lmScales)
    BY <1>9 DEF HeadRead, ReadsAs, ScalesAs
  <2> QED BY <2>3, <2>4
<1>11. EmbedRead' /\ FinalRead'
  BY <1>5, <1>8 DEF EmbedRead, FinalRead, ReadsAs
<1>12. at' = 4 /\ ~ (4 = LastStep + 1)
  BY Dimensions DEF Steps, LastStep
<1>13. \A l \in Layers : LayerRead(l)'
  BY <1>12, LayersLater
<1> QED BY <1>8, <1>10, <1>11, <1>12, <1>13 DEF Partial

(* From the reset on, a step keeps what belongs to no layer.               *)
LEMMA TopKept ==
  ASSUME Partial, at > 3,
         model'.embed = model.embed, model'.final = model.final, model'.lm = model.lm,
         model'.lmPtr = model.lmPtr, model'.lmScales = model.lmScales,
         tied' = tied, storage' = storage, at \in Nat
  PROVE  EmbedRead' /\ FinalRead' /\ HeadRead'
<1>1. EmbedRead /\ FinalRead /\ HeadRead
  BY DEF Partial
<1>2. EmbedRead' /\ FinalRead'
  BY <1>1 DEF EmbedRead, FinalRead, ReadsAs
<1>3. HeadRead'
  BY <1>1 DEF HeadRead, ReadsAs, ScalesAs
<1> QED BY <1>2, <1>3

LEMMA ResetStep ==
  ASSUME Partial, Calls, Steps, at = 4
  PROVE  Partial'
<1>1. Program[4] = << "reset", << >>, 0 >>
  BY ProgramAt, PrologueAre
<1>2. Op = "reset"
  BY <1>1 DEF Op
<1>3. model' = Reset
  BY <1>2, LoadedIs DEF Steps
<1>4. DOMAIN model = Fields
  BY DEF Partial
<1>5. /\ DOMAIN model' = Fields
      /\ model'.embed = model.embed /\ model'.final = model.final /\ model'.lm = model.lm
      /\ model'.lmPtr = model.lmPtr /\ model'.lmScales = model.lmScales
  BY <1>3, <1>4 DEF Reset, Fields
<1>6. Sized'
  <2>1. /\ model'.norms = [l \in Layers |-> << >>] /\ model'.blob = [l \in Layers |-> << >>]
        /\ model'.scales = [l \in Layers |-> << >>]
        /\ model'.views = [l \in Layers |-> NullViews]
    BY <1>3, <1>4 DEF Reset, Fields
  <2> QED BY <2>1 DEF Sized
<1>7. EmbedRead' /\ FinalRead' /\ HeadRead'
  BY <1>5, TopKept DEF Steps
<1>8. at' = 5 /\ ~ (5 = LastStep + 1)
  BY Dimensions DEF Steps, LastStep
<1>9. \A l \in Layers : LayerRead(l)'
  BY <1>8, LayersLater
<1> QED BY <1>5, <1>6, <1>7, <1>8, <1>9 DEF Partial

(* Reading the norms of a layer, its matrices, and the views.              *)
LEMMA LayerStepKeeps ==
  ASSUME Partial, Steps, NEW l \in Layers, NEW i \in 1 .. 10, at = Base(l) + i,
         DOMAIN model' = Fields, Sized',
         model'.embed = model.embed, model'.final = model.final, model'.lm = model.lm,
         model'.lmPtr = model.lmPtr, model'.lmScales = model.lmScales,
         \A m \in Layers \ {l} :
           /\ model'.norms[m] = model.norms[m] /\ model'.blob[m] = model.blob[m]
           /\ model'.scales[m] = model.scales[m] /\ model'.views[m] = model.views[m],
         LayerRead(l)'
  PROVE  Partial'
<1>1. Base(l) \in Nat /\ Base(l) >= 4 /\ Base(l) + 10 < LastStep
  BY Bases
<1>2. at \in Nat /\ at > 4 /\ at' = at + 1 /\ ~ (at' = LastStep + 1) /\ storage' = storage
      /\ tied' = tied
  BY <1>1, ProgramLen DEF Steps
<1>3. EmbedRead' /\ FinalRead' /\ HeadRead'
  BY <1>2, TopKept
<1>4. ASSUME NEW m \in Layers \ {l} PROVE LayerRead(m)'
  <2>1. LayerRead(m)
    BY DEF Partial
  <2>2. \A j \in 1 .. 10 : at # Base(m) + j
    BY BasesApart
  <2> QED BY <1>2, <2>1, <2>2, LayerKept
<1>5. \A m \in Layers : LayerRead(m)'
  BY <1>4
<1> QED BY <1>2, <1>3, <1>5 DEF Partial

(* An assignment to one layer of one of the buffers.                       *)
LEMMA NormsAssigned ==
  ASSUME Partial, at > 4, NEW l \in Layers, NEW w, model' = [model EXCEPT !.norms[l] = w]
  PROVE  /\ DOMAIN model' = Fields /\ Sized'
         /\ model'.embed = model.embed /\ model'.final = model.final
         /\ model'.lm = model.lm /\ model'.lmPtr = model.lmPtr
         /\ model'.lmScales = model.lmScales
         /\ model'.blob = model.blob /\ model'.scales = model.scales
         /\ model'.views = model.views
         /\ model'.norms[l] = w
         /\ \A m \in Layers \ {l} : model'.norms[m] = model.norms[m]
<1>1. DOMAIN model = Fields /\ Sized
  BY DEF Partial
<1>2. /\ DOMAIN model' = Fields
      /\ model'.embed = model.embed /\ model'.final = model.final
      /\ model'.lm = model.lm /\ model'.lmPtr = model.lmPtr
      /\ model'.lmScales = model.lmScales
      /\ model'.blob = model.blob /\ model'.scales = model.scales
      /\ model'.views = model.views
  BY <1>1 DEF Fields
<1>3. model'.norms = [model.norms EXCEPT ![l] = w]
  BY <1>1 DEF Fields
<1>4. DOMAIN model.norms = Layers
  BY <1>1 DEF Sized
<1>5. /\ DOMAIN model'.norms = Layers /\ model'.norms[l] = w
      /\ \A m \in Layers \ {l} : model'.norms[m] = model.norms[m]
  BY <1>3, <1>4
<1>6. Sized'
  BY <1>1, <1>2, <1>5 DEF Sized
<1> QED BY <1>2, <1>5, <1>6

LEMMA BlobsAssigned ==
  ASSUME Partial, at > 4, NEW l \in Layers, NEW b, NEW s,
         model' = [model EXCEPT !.blob[l] = b, !.scales[l] = s]
  PROVE  /\ DOMAIN model' = Fields /\ Sized'
         /\ model'.embed = model.embed /\ model'.final = model.final
         /\ model'.lm = model.lm /\ model'.lmPtr = model.lmPtr
         /\ model'.lmScales = model.lmScales
         /\ model'.norms = model.norms /\ model'.views = model.views
         /\ model'.blob[l] = b /\ model'.scales[l] = s
         /\ \A m \in Layers \ {l} : /\ model'.blob[m] = model.blob[m]
                                    /\ model'.scales[m] = model.scales[m]
<1>1. DOMAIN model = Fields /\ Sized
  BY DEF Partial
<1>2. /\ DOMAIN model' = Fields
      /\ model'.embed = model.embed /\ model'.final = model.final
      /\ model'.lm = model.lm /\ model'.lmPtr = model.lmPtr
      /\ model'.lmScales = model.lmScales
      /\ model'.norms = model.norms /\ model'.views = model.views
  BY <1>1 DEF Fields
<1>3. /\ model'.blob = [model.blob EXCEPT ![l] = b]
      /\ model'.scales = [model.scales EXCEPT ![l] = s]
  BY <1>1 DEF Fields
<1>4. DOMAIN model.blob = Layers /\ DOMAIN model.scales = Layers
  BY <1>1 DEF Sized
<1>5. /\ DOMAIN model'.blob = Layers /\ DOMAIN model'.scales = Layers
      /\ model'.blob[l] = b /\ model'.scales[l] = s
      /\ \A m \in Layers \ {l} : /\ model'.blob[m] = model.blob[m]
                                 /\ model'.scales[m] = model.scales[m]
  BY <1>3, <1>4
<1>6. Sized'
  BY <1>1, <1>2, <1>5 DEF Sized
<1> QED BY <1>2, <1>5, <1>6

LEMMA NormStep ==
  ASSUME Partial, Calls, Steps, NEW l \in Layers, NEW i \in 1 .. 2, at = Base(l) + i
  PROVE  Partial'
<1> DEFINE part == IF i = 1 THEN "attn_norm" ELSE "ffn_norm"
           mem == IF i = 1 THEN Blank(2 * Hidden) ELSE model.norms[l]
           p == (i - 1) * Hidden
           w == Written(mem, p, << l, part >>, << Hidden >>, Hidden)
<1>1. Program[at] = << "norm", << l, part >>, i >>
  <2>1. i \in 1 .. 10 /\ (i = 1 \/ i = 2)
    OBVIOUS
  <2>2. Program[Base(l) + i] = LayerProgram(l)[i]
    BY <2>1, ProgramAt
  <2> QED BY <2>1, <2>2, LayerProgramAre
<1>2. Op = "norm" /\ Src = << l, part >> /\ Idx = i /\ Src[1] = l
  <2> HIDE DEF part
  <2> QED BY <1>1 DEF Op, Src, Idx
<1>3. tensors[Src].shape = << Hidden >>
  <2>1. Shape(<< l, part >>) = << Hidden >>
    BY Shapes
  <2> QED BY <1>2, <2>1 DEF Steps, Reads, Convertible, RightShape
<1>4. model' = [model EXCEPT !.norms[l] = w]
  <2>1. model' = NormLoaded(l)
    BY <1>2, LoadedIs DEF Steps
  <2>2. NormLoaded(l) = [model EXCEPT !.norms[l] =
                           Written(mem, p, Src, tensors[Src].shape, Hidden)]
    <3> HIDE DEF part
    <3> QED BY <1>2 DEF NormLoaded
  <2> HIDE DEF mem, p, part
  <2> QED BY <1>2, <1>3, <2>1, <2>2
<1>5. Base(l) \in Nat /\ Base(l) >= 4 /\ at > 4 /\ at \in Nat /\ at' = at + 1
  BY Bases DEF Steps
<1>6. Hidden \in Nat /\ 2 * Hidden \in Nat /\ 1 * Hidden = Hidden
  BY Dimensions
<1> DEFINE two == 2 * Hidden
<1>7. i = 2 => /\ DOMAIN model.norms[l] = 0 .. two - 1
               /\ ReadsAs(model.norms[l], 0, << l, "attn_norm" >>, 1, Hidden)
  <2>1. NormsRead(l)
    BY DEF Partial, LayerRead
  <2> QED BY <1>5, <2>1 DEF NormsRead
<1>8. DOMAIN mem = 0 .. two - 1
  BY <1>7, Sizes
<1>9. p \in Nat /\ p + Hidden <= two /\ (i = 1 => p = 0) /\ (i = 2 => p = Hidden)
  <2>1. i = 1 \/ i = 2
    OBVIOUS
  <2>2. CASE i = 1
    BY <1>6, <2>2
  <2>3. CASE i = 2
    BY <1>6, <2>3
  <2> QED BY <2>1, <2>2, <2>3
<1> HIDE DEF mem, p, part, w, two
<1>10. ReadsAs(w, p, << l, part >>, 1, Hidden) /\ DOMAIN w = 0 .. two - 1
  <2>1. 1 \in Nat /\ p + 1 * Hidden <= two /\ two \in Nat
    BY <1>6, <1>9 DEF two
  <2>2. ReadsAs(Written(mem, p, << l, part >>, << Hidden >>, 1 * Hidden), p, << l, part >>, 1, Hidden)
    <3> DEFINE shape == << Hidden >>  n == << l, part >>
    <3>1. 1 = 1 /\ shape = << Hidden >>
      OBVIOUS
    <3> HIDE DEF shape, n
    <3>2. ReadsAs(Written(mem, p, n, shape, 1 * Hidden), p, n, 1, Hidden)
      BY <1>6, <1>8, <1>9, <2>1, <3>1, WrittenReads
    <3> QED BY <3>2 DEF shape, n
  <2> QED BY <1>6, <1>8, <2>2, Sizes DEF w
<1>11. i = 2 => ReadsAs(w, 0, << l, "attn_norm" >>, 1, Hidden)
  <2> SUFFICES ASSUME i = 2 PROVE ReadsAs(w, 0, << l, "attn_norm" >>, 1, Hidden)
    OBVIOUS
  <2> DEFINE n == << l, part >>  m == << l, "attn_norm" >>  shape == << Hidden >>
  <2>1. ReadsAs(mem, 0, m, 1, Hidden)
    BY <1>7 DEF mem
  <2>2. 0 \in Nat /\ 1 \in Nat /\ 0 + 1 * Hidden <= p
    BY <1>6, <1>9
  <2> HIDE DEF n, m, shape
  <2>3. ReadsAs(Written(mem, p, n, shape, Hidden), 0, m, 1, Hidden)
    BY <1>6, <1>9, <2>1, <2>2, WrittenKeeps
  <2> QED BY <2>3 DEF w, n, m, shape
<1>12. /\ DOMAIN model' = Fields /\ Sized'
       /\ model'.embed = model.embed /\ model'.final = model.final
       /\ model'.lm = model.lm /\ model'.lmPtr = model.lmPtr
       /\ model'.lmScales = model.lmScales
       /\ model'.blob = model.blob /\ model'.scales = model.scales
       /\ model'.views = model.views
       /\ model'.norms[l] = w
       /\ \A m \in Layers \ {l} : model'.norms[m] = model.norms[m]
  BY <1>4, <1>5, NormsAssigned
<1>13. NormsRead(l)'
  <2>2. CASE i = 1
    <3>1. part = "attn_norm" /\ p = 0 /\ ~ (at' > Base(l) + 2)
      BY <1>5, <1>9, <2>2 DEF part
    <3>2. ReadsAs(model'.norms[l], 0, << l, "attn_norm" >>, 1, Hidden)
      BY <1>10, <1>12, <3>1
    <3>3. DOMAIN model'.norms[l] = 0 .. 2 * Hidden - 1
      BY <1>10, <1>12 DEF two
    <3> QED BY <3>1, <3>2, <3>3 DEF NormsRead, ReadsAs
  <2>3. CASE i = 2
    <3>1. part = "ffn_norm" /\ p = Hidden
      BY <1>9, <2>3 DEF part
    <3>2. ReadsAs(model'.norms[l], 0, << l, "attn_norm" >>, 1, Hidden)
      BY <1>11, <1>12, <2>3
    <3>3. ReadsAs(model'.norms[l], Hidden, << l, "ffn_norm" >>, 1, Hidden)
      BY <1>10, <1>12, <3>1
    <3>4. DOMAIN model'.norms[l] = 0 .. 2 * Hidden - 1
      BY <1>10, <1>12 DEF two
    <3> QED BY <3>2, <3>3, <3>4 DEF NormsRead, ReadsAs
  <2>4. i = 1 \/ i = 2
    OBVIOUS
  <2> QED BY <2>2, <2>3, <2>4
<1>14. MatricesRead(l)' /\ ViewsSet(l)'
  <2>1. \A j \in 3 .. 10 : ~ (at' > Base(l) + j)
    BY <1>5
  <2>2. \A j \in 1 .. 7 : 2 + j \in 3 .. 10
    OBVIOUS
  <2>3. ~ (at' > Base(l) + 3) /\ ~ (at' > Base(l) + 10)
    BY <2>1
  <2>4. \A j \in 1 .. 7 : ~ (at' > Base(l) + (2 + j))
    BY <2>1, <2>2
  <2> QED BY <2>3, <2>4 DEF MatricesRead, ViewsSet
<1>15. i \in 1 .. 10
  OBVIOUS
<1>16. LayerRead(l)'
  BY <1>13, <1>14 DEF LayerRead
<1> QED BY <1>12, <1>15, <1>16, LayerStepKeeps

LEMMA MatrixStep ==
  ASSUME Partial, Calls, Steps, NEW l \in Layers, NEW i \in 1 .. 7,
         at = Base(l) + (2 + i)
  PROVE  Partial'
<1> DEFINE m == Mats[i]  rows == Rows[m]  cols == Cols[m]  n == << l, m >>
           shape == << rows, cols >>
           blob == IF i = 1 THEN Blank(Offsets[8]) ELSE model.blob[l]
           scales == IF i = 1 THEN Blank(ScaleOffsets[8]) ELSE model.scales[l]
           b == Written(blob, Offsets[i], n, shape, rows * cols)
           s == IF storage = "I8" THEN WrittenScales(scales, ScaleOffsets[i], n, rows)
                ELSE << >>
<1>1. Program[at] = << "matrix", n, i >>
  <2>1. 2 + i \in 1 .. 10
    OBVIOUS
  <2>2. Program[Base(l) + (2 + i)] = LayerProgram(l)[2 + i]
    BY <2>1, ProgramAt
  <2>3. LayerProgram(l)[2 + i] = << "matrix", << l, Mats[i] >>, i >>
    BY LayerProgramAre
  <2> QED BY <2>2, <2>3
<1>2. Op = "matrix" /\ Src = n /\ Idx = i /\ Src[1] = l
  <2> HIDE DEF m
  <2> QED BY <1>1 DEF Op, Src, Idx
<1>3. tensors[Src].shape = shape
  <2>1. Shape(n) = shape
    BY Shapes
  <2> HIDE DEF n, shape
  <2> QED BY <1>2, <2>1 DEF Steps, Reads, Convertible, RightShape
<1>4. model' = [model EXCEPT !.blob[l] = b, !.scales[l] = s]
  <2>1. model' = MatrixLoaded(l)
    BY <1>2, LoadedIs DEF Steps
  <2>2. MatrixLoaded(l) =
          [model EXCEPT
             !.blob[l] = Written(blob, Offsets[i], Src, tensors[Src].shape, rows * cols),
             !.scales[l] = IF storage = "I8"
               THEN WrittenScales(scales, ScaleOffsets[i], Src, rows) ELSE << >>]
    <3>1. Idx = i
      BY <1>2
    <3> QED BY <3>1 DEF MatrixLoaded
  <2> HIDE DEF blob, scales, n, shape, rows, cols
  <2> QED BY <1>2, <1>3, <2>1, <2>2
<1>5. Base(l) \in Nat /\ Base(l) >= 4 /\ at > 4 /\ at \in Nat /\ at' = at + 1
      /\ storage' = storage
  BY Bases DEF Steps
<1>6. /\ rows \in Nat /\ cols \in Nat
      /\ Offsets[i] \in Nat /\ Offsets[8] \in Nat
      /\ Offsets[i] + rows * cols <= Offsets[8]
      /\ ScaleOffsets[i] \in Nat /\ ScaleOffsets[8] \in Nat
      /\ ScaleOffsets[i] + rows <= ScaleOffsets[8]
  <2>1. i \in 1 .. 8 /\ 8 \in 1 .. 8
    OBVIOUS
  <2>2. Area(i) = rows * cols
    BY DEF Area
  <2>3. Offsets[i] + Area(i) <= Offsets[8] /\ ScaleOffsets[i] + rows <= ScaleOffsets[8]
    BY OffsetsAre, ScaleOffsetsAre
  <2>4. Offsets[i] \in Nat /\ Offsets[8] \in Nat /\ ScaleOffsets[i] \in Nat
        /\ ScaleOffsets[8] \in Nat
    BY <2>1, OffsetsAre, ScaleOffsetsAre
  <2>5. rows \in Nat /\ cols \in Nat
    BY MatsAre
  <2> HIDE DEF rows, cols
  <2> QED BY <2>2, <2>3, <2>4, <2>5
<1>7. NormsRead(l) /\ MatricesRead(l)
  BY DEF Partial, LayerRead
<1>8. i # 1 => /\ DOMAIN model.blob[l] = 0 .. Offsets[8] - 1
               /\ storage = "I8" => DOMAIN model.scales[l] = 0 .. ScaleOffsets[8] - 1
  <2>1. i # 1 => at > Base(l) + 3
    BY <1>5
  <2> QED BY <1>7, <2>1 DEF MatricesRead
<1>9. /\ DOMAIN blob = 0 .. Offsets[8] - 1
      /\ storage = "I8" => DOMAIN scales = 0 .. ScaleOffsets[8] - 1
  BY <1>8, Sizes
<1>10. ASSUME NEW j \in 1 .. 7, j < i
       PROVE  MatrixRead(l, j) /\ blob = model.blob[l] /\ scales = model.scales[l]
  <2>1. at > Base(l) + (2 + j) /\ i # 1
    BY <1>5, <1>10
  <2> QED BY <1>7, <2>1 DEF MatricesRead
<1> HIDE DEF m, rows, cols, n, shape, blob, scales, b, s
<1>11. DOMAIN b = 0 .. Offsets[8] - 1 /\ ReadsAs(b, Offsets[i], n, rows, cols)
  <2> DEFINE p == Offsets[i]  size == Offsets[8]
  <2>1. p \in Nat /\ size \in Nat /\ p + rows * cols <= size /\ DOMAIN blob = 0 .. size - 1
        /\ rows \in Nat /\ cols \in Nat
    BY <1>6, <1>9
  <2>2. shape = << rows, cols >>
    BY DEF shape
  <2> HIDE DEF p, size
  <2>3. ReadsAs(Written(blob, p, n, shape, rows * cols), p, n, rows, cols)
    BY <2>1, <2>2, WrittenReads
  <2> QED BY <2>1, <2>3, Sizes DEF b, p, size
<1>12. storage = "I8" => /\ DOMAIN s = 0 .. ScaleOffsets[8] - 1
                         /\ ScalesAs(s, ScaleOffsets[i], n, rows)
  <2> SUFFICES ASSUME storage = "I8"
               PROVE  /\ DOMAIN s = 0 .. ScaleOffsets[8] - 1
                      /\ ScalesAs(s, ScaleOffsets[i], n, rows)
    OBVIOUS
  <2> DEFINE p == ScaleOffsets[i]  size == ScaleOffsets[8]
  <2>1. p \in Nat /\ size \in Nat /\ p + rows <= size /\ DOMAIN scales = 0 .. size - 1
        /\ rows \in Nat
    BY <1>6, <1>9
  <2> HIDE DEF p, size
  <2>2. ScalesAs(WrittenScales(scales, p, n, rows), p, n, rows)
    BY <2>1, ScalesRead
  <2>3. s = WrittenScales(scales, p, n, rows)
    BY DEF s, p
  <2> QED BY <2>1, <2>2, <2>3, Sizes DEF p, size
<1>13. ASSUME NEW j \in 1 .. 7, j < i
       PROVE  /\ ReadsAs(b, Offsets[j], << l, Mats[j] >>, Rows[Mats[j]], Cols[Mats[j]])
              /\ storage = "I8" =>
                   ScalesAs(s, ScaleOffsets[j], << l, Mats[j] >>, Rows[Mats[j]])
  <2> DEFINE q == Offsets[j]  k == << l, Mats[j] >>
             rowsJ == Rows[Mats[j]]  colsJ == Cols[Mats[j]]
             p == Offsets[i]  count == rows * cols
             qs == ScaleOffsets[j]  ps == ScaleOffsets[i]
  <2>1. ReadsAs(blob, q, k, rowsJ, colsJ) /\ (storage = "I8" => ScalesAs(scales, qs, k, rowsJ))
    BY <1>10, <1>13 DEF MatrixRead
  <2>2. /\ q \in Nat /\ p \in Nat /\ qs \in Nat /\ ps \in Nat
        /\ q + rowsJ * colsJ <= p /\ qs + rowsJ <= ps
        /\ rowsJ \in Nat /\ colsJ \in Nat
    <3>1. j \in 1 .. 8 /\ i \in 1 .. 8
      OBVIOUS
    <3>2. Offsets[j] + Area(j) <= Offsets[i] /\ ScaleOffsets[j] + Rows[Mats[j]] <= ScaleOffsets[i]
      BY <1>13, OffsetsAre, ScaleOffsetsAre
    <3>3. Area(j) = rowsJ * colsJ
      BY DEF Area
    <3>4. q \in Nat /\ p \in Nat /\ qs \in Nat /\ ps \in Nat /\ rowsJ \in Nat /\ colsJ \in Nat
      BY <3>1, OffsetsAre, ScaleOffsetsAre, MatsAre
    <3>5. q + rowsJ * colsJ <= p
      BY <3>2, <3>3
    <3>6. qs + rowsJ <= ps
      BY <3>2
    <3> HIDE DEF q, p, qs, ps, rowsJ, colsJ
    <3> QED BY <3>4, <3>5, <3>6
  <2> HIDE DEF q, k, rowsJ, colsJ, p, count, qs, ps
  <2>3. ReadsAs(Written(blob, p, n, shape, count), q, k, rowsJ, colsJ)
    BY <2>1, <2>2, WrittenKeeps
  <2>4. storage = "I8" => ScalesAs(WrittenScales(scales, ps, n, rows), qs, k, rowsJ)
    BY <2>1, <2>2, ScalesKept
  <2>5. b = Written(blob, p, n, shape, count)
    BY DEF b, p, count
  <2>6. storage = "I8" => s = WrittenScales(scales, ps, n, rows)
    BY DEF s, ps
  <2>7. ReadsAs(b, q, k, rowsJ, colsJ) /\ (storage = "I8" => ScalesAs(s, qs, k, rowsJ))
    BY <2>3, <2>4, <2>5, <2>6
  <2> QED BY <2>7 DEF q, k, rowsJ, colsJ, qs
<1>14. /\ DOMAIN model' = Fields /\ Sized'
       /\ model'.embed = model.embed /\ model'.final = model.final
       /\ model'.lm = model.lm /\ model'.lmPtr = model.lmPtr
       /\ model'.lmScales = model.lmScales
       /\ model'.norms = model.norms /\ model'.views = model.views
       /\ model'.blob[l] = b /\ model'.scales[l] = s
       /\ \A k \in Layers \ {l} : /\ model'.blob[k] = model.blob[k]
                                  /\ model'.scales[k] = model.scales[k]
  BY <1>4, <1>5, BlobsAssigned
<1>15. MatricesRead(l)'
  <2>1. ASSUME NEW j \in 1 .. 7, at' > Base(l) + (2 + j)
        PROVE  /\ ReadsAs(b, Offsets[j], << l, Mats[j] >>, Rows[Mats[j]], Cols[Mats[j]])
               /\ storage = "I8" =>
                    ScalesAs(s, ScaleOffsets[j], << l, Mats[j] >>, Rows[Mats[j]])
    <3>1. j < i \/ j = i
      BY <1>5, <2>1
    <3>2. CASE j = i
      <4>1. n = << l, Mats[j] >> /\ rows = Rows[Mats[j]] /\ cols = Cols[Mats[j]]
        BY <3>2 DEF n, rows, cols, m
      <4> QED BY <1>11, <1>12, <3>2, <4>1
    <3> QED BY <1>13, <3>1, <3>2
  <2>2. \A j \in 1 .. 7 : at' > Base(l) + (2 + j) => MatrixRead(l, j)'
    <3> SUFFICES ASSUME NEW j \in 1 .. 7, at' > Base(l) + (2 + j)
                 PROVE  MatrixRead(l, j)'
      OBVIOUS
    <3>1. /\ ReadsAs(model'.blob[l], Offsets[j], << l, Mats[j] >>, Rows[Mats[j]], Cols[Mats[j]])
          /\ storage = "I8" =>
               ScalesAs(model'.scales[l], ScaleOffsets[j], << l, Mats[j] >>, Rows[Mats[j]])
      BY <1>14, <2>1
    <3> QED BY <1>5, <3>1 DEF MatrixRead, ReadsAs, ScalesAs
  <2>3. /\ DOMAIN model'.blob[l] = 0 .. Offsets[8] - 1
        /\ storage' = "I8" => DOMAIN model'.scales[l] = 0 .. ScaleOffsets[8] - 1
    BY <1>5, <1>11, <1>12, <1>14
  <2> QED BY <2>2, <2>3 DEF MatricesRead
<1>16. NormsRead(l)'
  <2>1. at > Base(l) + 1 /\ at > Base(l) + 2
    BY <1>5
  <2> QED BY <1>7, <1>14, <2>1 DEF NormsRead, ReadsAs
<1>17. ViewsSet(l)'
  <2>1. ~ (at' > Base(l) + 10)
    BY <1>5
  <2> QED BY <2>1 DEF ViewsSet
<1>18. 2 + i \in 1 .. 10
  OBVIOUS
<1>19. LayerRead(l)'
  BY <1>15, <1>16, <1>17 DEF LayerRead
<1>20. \A k \in Layers \ {l} :
         /\ model'.norms[k] = model.norms[k] /\ model'.blob[k] = model.blob[k]
         /\ model'.scales[k] = model.scales[k] /\ model'.views[k] = model.views[k]
  BY <1>14
<1> QED BY <1>14, <1>18, <1>19, <1>20, LayerStepKeeps

LEMMA ViewsStep ==
  ASSUME Partial, Calls, Steps, NEW l \in Layers, at = Base(l) + 10
  PROVE  Partial'
<1>1. 10 \in 1 .. 10
  OBVIOUS
<1>2. Program[at] = << "views", << l >>, 0 >>
  BY <1>1, ProgramAt, LayerProgramAre
<1>3. Op = "views" /\ Src[1] = l
  BY <1>2 DEF Op, Src
<1>4. model' = [model EXCEPT !.views[l] = Views]
  <2> DEFINE v == Views
  <2>1. model' = [model EXCEPT !.views[Src[1]] = v]
    BY <1>3, LoadedIs DEF Steps
  <2> HIDE DEF v
  <2>2. model' = [model EXCEPT !.views[l] = v]
    BY <1>3, <2>1
  <2> QED BY <2>2 DEF v
<1>5. Base(l) \in Nat /\ Base(l) >= 4 /\ at > 4 /\ at \in Nat /\ at' = at + 1
      /\ storage' = storage
  BY Bases DEF Steps
<1>6. DOMAIN model = Fields /\ Sized
  BY <1>5 DEF Partial
<1>7. /\ DOMAIN model' = Fields
      /\ model'.embed = model.embed /\ model'.final = model.final
      /\ model'.lm = model.lm /\ model'.lmPtr = model.lmPtr
      /\ model'.lmScales = model.lmScales
      /\ model'.norms = model.norms /\ model'.blob = model.blob
      /\ model'.scales = model.scales
  BY <1>4, <1>6 DEF Fields
<1>8. model'.views = [model.views EXCEPT ![l] = Views]
  BY <1>4, <1>6 DEF Fields
<1>9. /\ DOMAIN model'.views = Layers /\ model'.views[l] = Views
      /\ \A m \in Layers \ {l} : model'.views[m] = model.views[m]
  <2> DEFINE v == Views
  <2>1. model'.views = [model.views EXCEPT ![l] = v] /\ DOMAIN model.views = Layers
    BY <1>6, <1>8 DEF Sized
  <2> HIDE DEF v
  <2>2. /\ DOMAIN model'.views = Layers /\ model'.views[l] = v
        /\ \A m \in Layers \ {l} : model'.views[m] = model.views[m]
    BY <2>1
  <2> QED BY <2>2 DEF v
<1>10. Sized'
  BY <1>6, <1>7, <1>9 DEF Sized
<1>11. NormsRead(l) /\ MatricesRead(l)
  BY DEF Partial, LayerRead
<1>12. NormsRead(l)'
  <2>1. at > Base(l) + 1 /\ at > Base(l) + 2
    BY <1>5
  <2> QED BY <1>7, <1>11, <2>1 DEF NormsRead, ReadsAs
<1>13. MatricesRead(l)'
  <2>1. at > Base(l) + 3 /\ \A i \in 1 .. 7 : at > Base(l) + (2 + i)
    BY <1>5
  <2>2. \A i \in 1 .. 7 : MatrixRead(l, i)'
    <3>1. \A i \in 1 .. 7 : MatrixRead(l, i)
      BY <1>11, <2>1 DEF MatricesRead
    <3> QED BY <1>5, <1>7, <3>1 DEF MatrixRead, ReadsAs, ScalesAs
  <2> QED BY <1>5, <1>7, <1>11, <2>1, <2>2 DEF MatricesRead
<1>14. ViewsSet(l)'
  <2> DEFINE v == Views
  <2>1. model'.views[l] = v
    BY <1>9
  <2>2. v' = v
    BY DEF Views
  <2> QED BY <2>1, <2>2 DEF ViewsSet
<1>15. LayerRead(l)'
  BY <1>12, <1>13, <1>14 DEF LayerRead
<1>16. \A m \in Layers \ {l} :
         /\ model'.norms[m] = model.norms[m] /\ model'.blob[m] = model.blob[m]
         /\ model'.scales[m] = model.scales[m] /\ model'.views[m] = model.views[m]
  BY <1>7, <1>9
<1> QED BY <1>1, <1>7, <1>10, <1>15, <1>16, LayerStepKeeps

LEMMA RopeStep ==
  ASSUME Partial, Calls, Steps, at = LastStep
  PROVE  Partial'
<1>1. Program[at] = << "rope", << >>, 0 >>
  BY ProgramAt
<1>2. Op = "rope"
  BY <1>1 DEF Op
<1>3. model' = [model EXCEPT !.rope = TRUE]
  BY <1>2, LoadedIs DEF Steps
<1>4. at > 4 /\ at \in Nat /\ at' = at + 1 /\ at' = LastStep + 1 /\ storage' = storage
      /\ tied' = tied
  BY Dimensions DEF Steps, LastStep
<1>5. DOMAIN model = Fields /\ Sized
  BY <1>4 DEF Partial
<1>6. /\ DOMAIN model' = Fields
      /\ model'.embed = model.embed /\ model'.final = model.final
      /\ model'.lm = model.lm /\ model'.lmPtr = model.lmPtr
      /\ model'.lmScales = model.lmScales
      /\ model'.norms = model.norms /\ model'.blob = model.blob
      /\ model'.scales = model.scales /\ model'.views = model.views
      /\ model'.rope = TRUE
  BY <1>3, <1>5 DEF Fields
<1>7. Sized'
  BY <1>5, <1>6 DEF Sized
<1>8. EmbedRead' /\ FinalRead' /\ HeadRead'
  BY <1>4, <1>6, TopKept
<1>9. ASSUME NEW l \in Layers PROVE LayerRead(l)'
  <2>1. LayerRead(l)
    BY DEF Partial
  <2>2. \A i \in 1 .. 10 : at # Base(l) + i
    <3>1. Base(l) \in Nat /\ Base(l) + 10 < LastStep /\ LastStep \in Nat
      BY Bases, ProgramLen
    <3> QED BY <3>1
  <2> QED BY <1>4, <1>6, <2>1, <2>2, LayerKept
<1> QED BY <1>6, <1>7, <1>8, <1>9 DEF Partial

LEMMA StepsPartial ==
  ASSUME Partial, Calls, Steps, at \in 1 .. LastStep
  PROVE  Partial'
<1>1. CASE at \in 1 .. 4
  <2>1. at = 1 \/ at = 2 \/ at = 3 \/ at = 4
    BY <1>1
  <2> QED BY <2>1, EmbedStep, FinalStep, HeadStep, ResetStep
<1>2. CASE at = LastStep
  BY <1>2, RopeStep
<1>3. ASSUME NEW l \in Layers, NEW i \in 1 .. 10, at = Base(l) + i PROVE Partial'
  <2>1. CASE i \in 1 .. 2
    BY <1>3, <2>1, NormStep
  <2>2. CASE i \in 3 .. 9
    <3>1. i - 2 \in 1 .. 7 /\ 2 + (i - 2) = i
      BY <2>2
    <3>2. at = Base(l) + (2 + (i - 2))
      BY <1>3, <3>1
    <3> QED BY <3>1, <3>2, MatrixStep
  <2>3. CASE i = 10
    BY <1>3, <2>3, ViewsStep
  <2>4. i \in 1 .. 2 \/ i \in 3 .. 9 \/ i = 10
    OBVIOUS
  <2> QED BY <2>1, <2>2, <2>3, <2>4
<1> QED BY <1>1, <1>2, <1>3, ProgramSteps

(* Where load() is not at the model stays as it is, or is forgotten.       *)
LEMMA PartialKept ==
  ASSUME Partial, model' = model, at' = at, tied' = tied, storage' = storage
  PROVE  Partial'
<1>1. /\ EmbedRead' <=> EmbedRead
      /\ FinalRead' <=> FinalRead
      /\ HeadRead' <=> HeadRead
      /\ Sized' <=> Sized
  BY DEF EmbedRead, FinalRead, HeadRead, Sized, ReadsAs, ScalesAs
<1>2. ASSUME NEW l \in Layers PROVE LayerRead(l) => LayerRead(l)'
  <2>1. NormsRead(l) => NormsRead(l)'
    BY DEF NormsRead, ReadsAs
  <2>2. \A i \in 1 .. 7 : MatrixRead(l, i) => MatrixRead(l, i)'
    BY DEF MatrixRead, ReadsAs, ScalesAs
  <2>3. MatricesRead(l) => MatricesRead(l)'
    BY <2>2 DEF MatricesRead
  <2>4. ViewsSet(l) => ViewsSet(l)'
    BY DEF ViewsSet, Views
  <2> QED BY <2>1, <2>3, <2>4 DEF LayerRead
<1> QED BY <1>1, <1>2 DEF Partial

LEMMA PartialFromStart ==
  ASSUME DOMAIN model' = Fields, at' = 1
  PROVE  Partial'
<1>1. \A l \in Layers : LayerRead(l)'
  BY LayersLater
<1>2. ~ (1 = LastStep + 1)
  BY Dimensions DEF LastStep
<1> QED BY <1>1, <1>2 DEF Partial

-----------------------------------------------------------------------------
(* The calls                                                               *)

LEMMA LoadStepInv ==
  ASSUME IInv, NEW t \in Threads, LoadStep(t)
  PROVE  IInv'
<1>1. Calls /\ Partial /\ FilesInv
  BY DEF IInv
<1>2. at \in 1 .. LastStep /\ Steps
  <2>1. UNCHANGED tied
    BY DEF LoadStep, fileVars
  <2>2. at <= LastStep /\ at \in 1 .. LastStep + 1 /\ LastStep \in Nat
    BY <1>1, ProgramLen DEF LoadStep, Calls
  <2>3. Steps
    BY <2>1 DEF LoadStep, Steps
  <2> QED BY <2>2, <2>3
<1>3. Partial'
  BY <1>1, <1>2, StepsPartial
<1>4. FilesInv'
  BY <1>1, FilesUnchanged DEF LoadStep
<1>5. Calls'
  <2>1. UNCHANGED << tied, built, storage, pc, faults >> /\ at' = at + 1 /\ pc[t] = "load"
    BY DEF LoadStep, fileVars
  <2>2. ~ built /\ at' \in 1 .. LastStep + 1
    BY <1>1, <1>2, <2>1, ProgramLen DEF Calls
  <2> QED BY <1>1, <2>1, <2>2 DEF Calls
<1> QED BY <1>3, <1>4, <1>5 DEF IInv

LEMMA LoadThrowsInv ==
  ASSUME IInv, NEW t \in Threads, LoadThrows(t)
  PROVE  IInv'
<1>1. /\ Calls /\ Partial /\ FilesInv
      /\ UNCHANGED << fileVars, storage, built, model, at >> /\ tied' = tied
      /\ pc' = [pc EXCEPT ![t] = "idle"] /\ pc[t] = "load"
  BY DEF IInv, LoadThrows, fileVars
<1>2. Partial' /\ FilesInv'
  BY <1>1, PartialKept, FilesUnchanged
<1>3. faults' \in 0 .. MaxFaults
  BY <1>1, ShapeAssumption DEF LoadThrows, Calls
<1>4. Calls'
  BY <1>1, <1>3 DEF Calls
<1> QED BY <1>2, <1>4 DEF IInv

LEMMA LoadDoneInv ==
  ASSUME IInv, NEW t \in Threads, LoadDone(t)
  PROVE  IInv'
<1>1. /\ Calls /\ Partial /\ FilesInv
      /\ UNCHANGED << fileVars, storage, model, at, faults >> /\ tied' = tied
      /\ pc' = [pc EXCEPT ![t] = "forward"] /\ pc[t] = "load" /\ built' = TRUE
  BY DEF IInv, LoadDone, fileVars
<1>2. Partial' /\ FilesInv'
  BY <1>1, PartialKept, FilesUnchanged
<1>3. at = LastStep + 1
  BY <1>1, ProgramLen DEF LoadDone, Calls
<1>4. \A u \in Threads \ {t} : pc[u] = "idle"
  BY <1>1 DEF Calls
<1>5. Calls'
  BY <1>1, <1>3, <1>4 DEF Calls
<1> QED BY <1>2, <1>5 DEF IInv

LEMMA EnsureInv ==
  ASSUME IInv, NEW t \in Threads, Ensure(t)
  PROVE  IInv'
<1>1. /\ Calls /\ Partial /\ FilesInv
      /\ UNCHANGED << fileVars, storage, model, built, faults >> /\ tied' = tied
      /\ pc' = [pc EXCEPT ![t] = IF built THEN "forward" ELSE "load"] /\ pc[t] = "locked"
      /\ at' = IF built THEN at ELSE 1
  BY DEF IInv, Ensure, fileVars
<1>2. FilesInv'
  BY <1>1, FilesUnchanged
<1>3. Partial'
  <2>1. CASE built
    BY <1>1, <2>1, PartialKept
  <2>2. CASE ~ built
    <3>1. DOMAIN model' = Fields /\ at' = 1
      BY <1>1, <2>2 DEF Partial
    <3> QED BY <3>1, PartialFromStart
  <2> QED BY <2>1, <2>2
<1>4. \A u \in Threads \ {t} : pc[u] = "idle"
  BY <1>1 DEF Calls
<1>5. at' \in 1 .. LastStep + 1
  BY <1>1, ProgramLen DEF Calls
<1>6. Calls'
  <2>1. CASE built
    BY <1>1, <1>4, <1>5, <2>1 DEF Calls
  <2>2. CASE ~ built
    BY <1>1, <1>4, <1>5, <2>2 DEF Calls
  <2> QED BY <2>1, <2>2
<1> QED BY <1>2, <1>3, <1>6 DEF IInv

LEMMA LockInv ==
  ASSUME IInv, NEW t \in Threads, Lock(t)
  PROVE  IInv'
<1>1. /\ Calls /\ Partial /\ FilesInv
      /\ UNCHANGED << fileVars, storage, built, model, at, faults >> /\ tied' = tied
      /\ pc' = [pc EXCEPT ![t] = "locked"] /\ \A u \in Threads : pc[u] = "idle"
  BY DEF IInv, Lock, fileVars
<1>2. Partial' /\ FilesInv'
  BY <1>1, PartialKept, FilesUnchanged
<1>3. Calls'
  BY <1>1 DEF Calls
<1> QED BY <1>2, <1>3 DEF IInv

LEMMA ForwardInv ==
  ASSUME IInv, NEW t \in Threads, Forward(t)
  PROVE  IInv'
<1>1. /\ Calls /\ Partial /\ FilesInv
      /\ UNCHANGED << fileVars, storage, built, model, at, faults >> /\ tied' = tied
      /\ pc' = [pc EXCEPT ![t] = "idle"]
  BY DEF IInv, Forward, fileVars
<1>2. Partial' /\ FilesInv'
  BY <1>1, PartialKept, FilesUnchanged
<1>3. Calls'
  BY <1>1 DEF Calls
<1> QED BY <1>2, <1>3 DEF IInv

LEMMA CloseInv ==
  ASSUME IInv, Close
  PROVE  IInv'
<1>1. /\ Calls /\ FilesInv /\ Destroy /\ scan.pc = "loaded" /\ UNCHANGED << tied, storage, pc >>
      /\ built' = FALSE /\ model' = NoModel /\ at' = 1 /\ faults' = 0
      /\ \A t \in Threads : pc[t] = "idle"
  BY DEF IInv, Close, Destroy, Unwind
<1>2. FilesInv'
  BY <1>1, DestroyInv
<1>3. DOMAIN model' = Fields
  BY <1>1 DEF NoModel, Fields
<1>4. Partial'
  BY <1>1, <1>3, PartialFromStart
<1>5. Calls'
  <2>1. at' \in 1 .. LastStep + 1 /\ faults' \in 0 .. MaxFaults
    BY <1>1, ProgramLen, ShapeAssumption
  <2> QED BY <1>1, <2>1 DEF Calls
<1> QED BY <1>2, <1>4, <1>5 DEF IInv

LEMMA ReadFilesInv ==
  ASSUME IInv, ReadFiles
  PROVE  IInv'
<1>1. /\ Calls /\ Partial /\ FilesInv /\ FilesNext
      /\ UNCHANGED << storage, built, model, pc, at, faults >>
  BY DEF IInv, ReadFiles
<1>2. tied' = tied
  BY <1>1 DEF FilesNext, ListDirectory, OpenFile, MapFails, MapFile, OwnFile, OwnFails,
              ReadHeader, ReadEntry, NextShard, AliasTied, Destroy, Unwind
<1>3. FilesInv'
  BY <1>1, FilesNextInv
<1>4. Partial'
  BY <1>1, <1>2, PartialKept
<1>5. Calls'
  BY <1>1, <1>2 DEF Calls
<1> QED BY <1>3, <1>4, <1>5 DEF IInv

-----------------------------------------------------------------------------
LEMMA InitInv == Init => IInv
<1> SUFFICES ASSUME Init PROVE IInv
  OBVIOUS
<1>1. /\ scan = Closed /\ scan.pc = "closed" /\ files = {} /\ odd = 0
      /\ fds = Zero /\ maps = Zero /\ lost = Zero /\ mapped = Zero
      /\ tensors = [n \in Names |-> Absent]
  BY DEF Init, FilesInit, Closed
<1>2. FilesInv
  <2>1. ScanOK /\ OwnsScanned
    BY <1>1 DEF ScanOK, Scanning, OwnsScanned
  <2>2. OpenAndMapped /\ MappedOK
    BY <1>1, ShardsAre, WordRange DEF OpenAndMapped, InHand, One, Zero, MappedOK
  <2>3. Published /\ Deviations
    BY <1>1, TensorAssumption DEF Published, Deviations
  <2> QED BY <2>1, <2>2, <2>3 DEF FilesInv
<1>3. Calls
  <2>1. 1 \in 1 .. LastStep + 1 /\ 0 \in 0 .. MaxFaults
    BY ProgramLen, ShapeAssumption
  <2>2. /\ tied \in BOOLEAN /\ built = FALSE /\ storage \in {"F32", "F16", "I8"}
        /\ pc = [u \in Threads |-> "idle"] /\ at = 1 /\ faults = 0
    BY DEF Init, FilesInit
  <2> QED BY <2>1, <2>2 DEF Calls
<1>4. Partial
  <2>1. DOMAIN model = Fields /\ at = 1
    BY DEF Init, NoModel, Fields
  <2>2. ASSUME NEW l \in Layers PROVE LayerRead(l)
    <3>1. Base(l) \in Nat /\ Base(l) >= 4
      BY Bases
    <3>2. \A i \in 1 .. 10 : ~ (at > Base(l) + i)
      BY <2>1, <3>1
    <3>3. \A i \in 1 .. 7 : 2 + i \in 1 .. 10
      OBVIOUS
    <3> QED BY <3>2, <3>3 DEF LayerRead, NormsRead, MatricesRead, ViewsSet
  <2>3. ~ (1 = LastStep + 1)
    BY Dimensions DEF LastStep
  <2> QED BY <2>1, <2>2, <2>3 DEF Partial
<1> QED BY <1>2, <1>3, <1>4 DEF IInv

LEMMA NextInv == ASSUME IInv, [Next]_vars PROVE IInv'
<1>1. CASE UNCHANGED vars
  <2>1. /\ Calls /\ Partial /\ FilesInv /\ UNCHANGED fileVars /\ tied' = tied
        /\ UNCHANGED << storage, built, model, pc, at, faults >>
    BY <1>1 DEF IInv, vars, fileVars
  <2>2. Partial' /\ FilesInv'
    BY <2>1, PartialKept, FilesUnchanged
  <2>3. Calls'
    BY <2>1 DEF Calls
  <2> QED BY <2>2, <2>3 DEF IInv
<1>2. CASE ReadFiles
  BY <1>2, ReadFilesInv
<1>3. CASE Close
  BY <1>3, CloseInv
<1>4. ASSUME NEW t \in Threads,
             Lock(t) \/ Ensure(t) \/ LoadStep(t) \/ LoadThrows(t) \/ LoadDone(t) \/ Forward(t)
      PROVE  IInv'
  BY <1>4, LockInv, EnsureInv, LoadStepInv, LoadThrowsInv, LoadDoneInv, ForwardInv
<1> QED BY <1>1, <1>2, <1>3, <1>4 DEF Next

(* What is mapped is the map's and long enough for what is published, and  *)
(* the buffers hold what the steps of the load so far have read.           *)
THEOREM Invariance == Spec => []IInv
BY InitInv, NextInv, PTL DEF Spec

(* Types and ranges; a dimension that is published is no negative number,  *)
(* a size fits its word (weights.cpp:126-239, model.cpp:178-390).          *)
THEOREM LoadTypes == Spec => []TypeOK
<1>1. ASSUME IInv PROVE TypeOK
  <2>1. FilesInv /\ Calls
    BY <1>1 DEF IInv
  <2>2. files \subseteq DOMAIN Shards /\ {fds, maps, lost} \subseteq [DOMAIN Shards -> Nat]
    BY <2>1, ShardsAre DEF FilesInv, ScanOK, Scanning, OwnsScanned, OpenAndMapped
  <2>3. mapped \in [DOMAIN Shards -> 0 .. Word - 1]
    BY <2>1, ShardsAre DEF FilesInv, MappedOK
  <2>4. scan.pc \in {"closed", "open", "map", "own", "header", "entry", "alias", "loaded"}
    BY <2>1 DEF FilesInv, ScanOK, Scanning
  <2>5. ASSUME NEW n \in Names, tensors[n] # Absent
        PROVE  /\ tensors[n].dtype \in DOMAIN Width /\ tensors[n].shape \in Seq(Nat)
               /\ {tensors[n].data, tensors[n].nbytes} \subseteq 0 .. Word - 1
    <3> DEFINE d == tensors[n].data  b == tensors[n].nbytes  m == mapped[tensors[n].shard]
    <3>1. Lies(tensors[n])
      BY <2>1, <2>5 DEF FilesInv, Published
    <3>2. tensors[n].shard \in DOMAIN Shards
      BY <2>2, <3>1 DEF Lies
    <3>3. m \in 0 .. Word - 1 /\ d \in Nat /\ b \in Nat /\ d + b <= m
      BY <2>3, <3>1, <3>2 DEF Lies
    <3> HIDE DEF d, b, m
    <3>4. d \in 0 .. Word - 1 /\ b \in 0 .. Word - 1
      BY <3>3, WordRange
    <3> QED BY <3>1, <3>4 DEF Lies, d, b
  <2>6. at \in 1 .. Len(Program) + 1
    BY <2>1, ProgramLen DEF Calls
  <2>7. odd \in 0 .. MaxOdd
    BY <2>1 DEF FilesInv, Deviations
  <2> QED BY <2>1, <2>2, <2>3, <2>4, <2>5, <2>6, <2>7 DEF Calls, TypeOK
<1> QED BY <1>1, Invariance, PTL

(* Reading all of a published tensor stays in the mapping of its shard and *)
(* out of the header, whatever the header says (weights.cpp:176-239): what *)
(* expected_bytes lets through did not wrap, so it is the exact size.      *)
THEOREM TensorsStayInMappings == Spec => []TensorsInMappings
<1>1. ASSUME IInv PROVE TensorsInMappings
  <2> SUFFICES ASSUME NEW n \in Names, tensors[n] # Absent
               PROVE  LET t == tensors[n]
                          bytes == Elements(t.shape) * Width[t.dtype] IN
                      /\ t.shard \in files
                      /\ t.data >= Prefix
                      /\ bytes >= 0 /\ t.data + bytes <= mapped[t.shard]
    BY DEF TensorsInMappings
  <2>1. Lies(tensors[n])
    BY <1>1 DEF IInv, FilesInv, Published
  <2> DEFINE t == tensors[n]  bytes == Elements(t.shape) * Width[t.dtype]
  <2>2. /\ t.shard \in files /\ t.data >= Prefix /\ t.nbytes = bytes
        /\ t.nbytes \in Nat /\ t.data + t.nbytes <= mapped[t.shard]
    BY <2>1 DEF Lies
  <2> HIDE DEF t, bytes
  <2>3. /\ t.shard \in files /\ t.data >= Prefix
        /\ bytes >= 0 /\ t.data + bytes <= mapped[t.shard]
    BY <2>2
  <2> QED BY <2>3 DEF t, bytes
<1> QED BY <1>1, Invariance, PTL

(* Every descriptor and every mapping is the map's, in the hand of         *)
(* load_one_file, or lost by a push_back that threw (weights.cpp:168): no  *)
(* other exception leaves one behind (weights.cpp:119-124, 145-166).       *)
THEOREM NothingElseLeaksHolds == Spec => []NothingElseLeaks
<1>1. ASSUME IInv PROVE NothingElseLeaks
  <2>1. FilesInv
    BY <1>1 DEF IInv
  <2>2. /\ scan.pc = "closed" => files = {}
        /\ scan.pc = "loaded" => files = DOMAIN Shards
    BY <2>1, ShardsAre DEF FilesInv, OwnsScanned
  <2> QED BY <2>1, <2>2, ShardsAre DEF FilesInv, OpenAndMapped, NothingElseLeaks
<1> QED BY <1>1, Invariance, PTL

(* A forward pass reads every norm, matrix and scale of every layer whole, *)
(* under its own name and in its own orientation: the model is built only  *)
(* by a load that ran from top to bottom, and the areas of the matrices in *)
(* the blob of a layer do not overlap (engine.cpp:80, model.cpp:178-390).  *)
THEOREM ForwardSeesWhole == Spec => []ForwardSeesWholeModel
<1>1. ASSUME IInv, NEW t \in Threads, pc[t] = "forward"
      PROVE  /\ EmbedRead /\ FinalRead /\ HeadRead /\ model.rope = TRUE
             /\ \A l \in Layers : LayerWhole(l)
  <2>1. Calls /\ Partial /\ at = LastStep + 1
    BY <1>1 DEF IInv, Calls
  <2>2. at > 4 /\ at > 3 /\ at > 2 /\ at > 1
    BY <2>1, Dimensions DEF LastStep
  <2>3. EmbedRead /\ FinalRead /\ HeadRead /\ model.rope = TRUE
    BY <2>1, <2>2 DEF Partial
  <2>4. ASSUME NEW l \in Layers PROVE LayerWhole(l)
    <3>1. Base(l) \in Nat /\ Base(l) + 10 < at
      BY <2>1, Bases, ProgramLen
    <3>2. /\ at > Base(l) + 1 /\ at > Base(l) + 2 /\ at > Base(l) + 10
          /\ \A i \in 1 .. 7 : at > Base(l) + (2 + i)
      <4> DEFINE b == Base(l)
      <4>1. at \in Nat /\ b \in Nat /\ b + 10 < at
        BY <2>1, <3>1, ProgramLen
      <4> HIDE DEF b
      <4>2. /\ at > b + 1 /\ at > b + 2 /\ at > b + 10
            /\ \A i \in 1 .. 7 : at > b + (2 + i)
        BY <4>1
      <4> QED BY <4>2 DEF b
    <3>3. NormsRead(l) /\ MatricesRead(l) /\ ViewsSet(l)
      BY <2>1 DEF Partial, LayerRead
    <3>4. /\ ReadsAs(model.norms[l], 0, << l, "attn_norm" >>, 1, Hidden)
          /\ ReadsAs(model.norms[l], Hidden, << l, "ffn_norm" >>, 1, Hidden)
          /\ model.views[l] = Views
          /\ \A i \in 1 .. 7 : MatrixRead(l, i)
      BY <3>2, <3>3 DEF NormsRead, MatricesRead, ViewsSet
    <3>5. Views.o = Offsets /\ Views.s = ScaleOffsets /\ Views.norms = << 0, Hidden >>
      BY DEF Views
    <3>6. Views # NullViews
      <4>1. NullViews.o = << >> /\ DOMAIN << >> = {}
        BY DEF NullViews
      <4>2. 1 \in DOMAIN Offsets
        BY OffsetsAre
      <4> QED BY <3>5, <4>1, <4>2
    <3>7. Views.norms[1] = 0 /\ Views.norms[2] = Hidden
      BY <3>5
    <3> DEFINE v == model.views[l]
    <3>8. v = Views
      BY <3>4
    <3>9. /\ v # NullViews /\ v.o = Offsets /\ v.s = ScaleOffsets
          /\ v.norms[1] = 0 /\ v.norms[2] = Hidden
      <4> HIDE DEF v
      <4> QED BY <3>5, <3>6, <3>7, <3>8
    <3>10. \A i \in 1 .. 7 :
             /\ ReadsAs(model.blob[l], v.o[i], << l, Mats[i] >>, Rows[Mats[i]], Cols[Mats[i]])
             /\ storage = "I8" =>
                  ScalesAs(model.scales[l], v.s[i], << l, Mats[i] >>, Rows[Mats[i]])
      <4> HIDE DEF v
      <4> QED BY <3>4, <3>9 DEF MatrixRead
    <3>11. DOMAIN Mats = 1 .. 7
      BY MatsAre
    <3>12. /\ ReadsAs(model.norms[l], v.norms[1], << l, "attn_norm" >>, 1, Hidden)
           /\ ReadsAs(model.norms[l], v.norms[2], << l, "ffn_norm" >>, 1, Hidden)
      <4> HIDE DEF v
      <4> QED BY <3>4, <3>9
    <3> QED BY <3>9, <3>10, <3>11, <3>12 DEF LayerWhole
  <2> QED BY <2>3, <2>4
<1>2. ASSUME IInv PROVE ForwardSeesWholeModel
  <2> SUFFICES ASSUME NEW t \in Threads, pc[t] = "forward"
               PROVE  LET head == IF tied THEN Embed ELSE LmHead IN
                      /\ ReadsAs(model.embed, 0, Embed, Vocab, Hidden)
                      /\ ReadsAs(model.final, 0, Norm, 1, Hidden)
                      /\ model.lmPtr = IF tied /\ storage = "F32" THEN "embed" ELSE "own"
                      /\ model.lmPtr = "own" => ReadsAs(model.lm, 0, head, Vocab, Hidden)
                      /\ storage = "I8" => ScalesAs(model.lmScales, 0, head, Vocab)
                      /\ model.rope
                      /\ \A l \in Layers : LayerWhole(l)
    BY DEF ForwardSeesWholeModel
  <2>1. EmbedRead /\ FinalRead /\ HeadRead /\ model.rope = TRUE
        /\ \A l \in Layers : LayerWhole(l)
    BY <1>1, <1>2
  <2> QED BY <2>1 DEF EmbedRead, FinalRead, HeadRead
<1> QED BY <1>2, Invariance, PTL
=============================================================================

-------------------------- MODULE TransfersProofs --------------------------
(***************************************************************************)
(* Proofs about Transfers, for any number of threads, accounts, transfers  *)
(* and chunks, any window of the cache and any amounts.                    *)
(*                                                                         *)
(* The locks keep two threads out of each other's accounts, so what a      *)
(* thread has read is still so when it writes, although every step reads   *)
(* and writes through the one cache that all of them share.  The ledger is *)
(* behind only on the accounts of a thread that has written a balance and  *)
(* not its entries, and still has them locked.                             *)
(***************************************************************************)
EXTENDS Transfers, FiniteSetsExt, FiniteSetTheorems, SequenceTheorems, WellFoundedInduction, TLAPS

(***************************************************************************)
(* Sums over finite sets, as MapThenSumSet computes them, once more: the   *)
(* lemmas of AllocatorProofs up to SumSame, and what moving an amount from *)
(* one element to another does to a sum.                                   *)
(***************************************************************************)
(* The sum of w over S.                                                    *)
Sum(w, S) == MapThenSumSet(LAMBDA x : w[x], S)

(* f computes such sums over the subsets of S.                             *)
Sums(f, w, S) ==
  f = [s \in SUBSET S |->
         IF s = {} THEN 0
         ELSE w[CHOOSE x \in s : TRUE] + f[s \ {CHOOSE x \in s : TRUE}]]

(* The function that the sum is defined by is the one that computes it.    *)
LEMMA SumIs ==
  ASSUME NEW w, NEW S, NEW f, Sums(f, w, S)
  PROVE  \E g : Sums(g, w, S) /\ Sum(w, S) = g[S]
<1>. DEFINE g == CHOOSE h : Sums(h, w, S)
<1>1. Sums(g, w, S)
  OBVIOUS
<1>2. Sum(w, S) = g[S]
  BY DEF Sum, MapThenSumSet, MapThenFoldSet, Sums
<1>. QED BY <1>1, <1>2

(* A set of natural numbers has a least element.                           *)
LEMMA LeastNumber ==
  ASSUME NEW S \in SUBSET Nat, S # {}
  PROVE  \E x \in S : \A y \in S : x <= y
<1>. DEFINE R == OpToRel(<, Nat)
<1>1. \A x, y \in Nat : y < x => <<y, x>> \in R
  BY DEF OpToRel
<1>2. IsWellFoundedOn(R, Nat)
  BY NatLessThanWellFounded
<1>. HIDE DEF R
<1>3. PICK x \in S : \A y \in S : ~ (<<y, x>> \in R)
  BY <1>2, WFMin
<1>4. \A y \in S : ~ (y < x)
  BY <1>1, <1>3
<1>. QED BY <1>3, <1>4

(* Induction over the natural numbers, for a set of numbers.               *)
LEMMA NumbersFromZero ==
  ASSUME NEW S, 0 \in S, \A n \in Nat : n \in S => n + 1 \in S
  PROVE  Nat \subseteq S
<1>. SUFFICES ASSUME Nat \ S # {} PROVE FALSE
  OBVIOUS
<1>1. PICK n \in Nat \ S : \A m \in Nat \ S : n <= m
  BY LeastNumber
<1>2. n - 1 \in Nat /\ n - 1 + 1 = n /\ ~(n <= n - 1)
  BY <1>1
<1>. QED BY <1>1, <1>2

(* The subsets with at most n elements, and what is computed for them.     *)
Small(n, S) == {s \in SUBSET S : Cardinality(s) <= n}

SmallSums(f, w, n, S) ==
  f = [s \in Small(n, S) |->
         IF s = {} THEN 0
         ELSE w[CHOOSE x \in s : TRUE] + f[s \ {CHOOSE x \in s : TRUE}]]

(* Taking an element out of a subset makes it smaller.                     *)
LEMMA Smaller ==
  ASSUME NEW S, IsFiniteSet(S), NEW s \in SUBSET S, NEW x \in s
  PROVE  /\ IsFiniteSet(s) /\ Cardinality(s) \in Nat \ {0}
         /\ s \ {x} \in SUBSET S /\ IsFiniteSet(s \ {x})
         /\ Cardinality(s \ {x}) = Cardinality(s) - 1
<1>1. IsFiniteSet(s)
  BY FS_Subset
<1>2. Cardinality(s \ {x}) = Cardinality(s) - 1 /\ IsFiniteSet(s \ {x})
  BY <1>1, FS_RemoveElement
<1>3. Cardinality(s) \in Nat /\ Cardinality(s) # 0
  BY <1>1, FS_CardinalityType, FS_EmptySet
<1>. QED BY <1>1, <1>2, <1>3

(* Sums over the subsets of n elements, from those of fewer.               *)
LEMMA SmallSumsExist ==
  ASSUME NEW w, NEW S, IsFiniteSet(S), NEW n \in Nat
  PROVE  \E f : SmallSums(f, w, n, S)
<1>. DEFINE N == {k \in Nat : \E f : SmallSums(f, w, k, S)}
<1>1. \A s \in SUBSET S : Cardinality(s) \in Nat /\ (Cardinality(s) = 0 <=> s = {})
  BY FS_Subset, FS_CardinalityType, FS_EmptySet
<1>2. 0 \in N
  <2>. DEFINE f == [s \in {{}} |-> 0]
  <2>1. Small(0, S) = {{}}
    BY <1>1 DEF Small
  <2>2. SmallSums(f, w, 0, S)
    BY <2>1 DEF SmallSums
  <2>. QED BY <2>2
<1>3. ASSUME NEW k \in Nat, k \in N
      PROVE  k + 1 \in N
  <2>1. PICK f : SmallSums(f, w, k, S)
    BY <1>3
  <2>. DEFINE c(s) == CHOOSE x \in s : TRUE
              g == [s \in Small(k + 1, S) |->
                      IF s = {} THEN 0 ELSE w[c(s)] + f[s \ {c(s)}]]
  <2>2. \A s \in Small(k, S) : s \in Small(k + 1, S)
    BY <1>1 DEF Small
  <2>3. \A s \in Small(k, S) : f[s] = g[s]
    BY <2>1, <2>2 DEF SmallSums
  <2>4. \A s \in Small(k + 1, S) : s # {} => s \ {c(s)} \in Small(k, S)
    <3>. SUFFICES ASSUME NEW s \in Small(k + 1, S), s # {}
                  PROVE  s \ {c(s)} \in Small(k, S)
      OBVIOUS
    <3>1. c(s) \in s
      OBVIOUS
    <3>. HIDE DEF c
    <3>2. s \in SUBSET S /\ Cardinality(s) <= k + 1
      BY DEF Small
    <3>3. s \ {c(s)} \in SUBSET S /\ Cardinality(s \ {c(s)}) = Cardinality(s) - 1
          /\ Cardinality(s) \in Nat
      BY <3>1, <3>2, Smaller
    <3>. QED BY <3>2, <3>3 DEF Small
  <2>5. SmallSums(g, w, k + 1, S)
    BY <2>3, <2>4 DEF SmallSums
  <2>. QED BY <2>5
<1>4. n \in N
  <2>. HIDE DEF N
  <2>. QED BY <1>2, <1>3, NumbersFromZero
<1>. QED BY <1>4

(* There is a function that computes the sums.                             *)
LEMMA SumsExist ==
  ASSUME NEW w, NEW S, IsFiniteSet(S)
  PROVE  \E f : Sums(f, w, S)
<1>. DEFINE n == Cardinality(S)
<1>1. n \in Nat
  BY FS_CardinalityType
<1>2. \A s \in SUBSET S : Cardinality(s) <= n
  BY FS_Subset
<1>3. Small(n, S) = SUBSET S
  BY <1>2 DEF Small
<1>. HIDE DEF n
<1>4. PICK f : SmallSums(f, w, n, S)
  BY <1>1, SmallSumsExist
<1>5. Sums(f, w, S)
  BY <1>3, <1>4 DEF Sums, SmallSums
<1>. QED BY <1>5

(* What such a function gives for one subset.                              *)
LEMMA SumsAt ==
  ASSUME NEW w, NEW S, NEW f, Sums(f, w, S)
  PROVE  /\ f[{}] = 0
         /\ \A s \in SUBSET S : s # {} =>
              \E x \in s : x = (CHOOSE y \in s : TRUE) /\ f[s] = w[x] + f[s \ {x}]
<1>1. f[{}] = 0
  BY DEF Sums
<1>2. \A s \in SUBSET S : s # {} => (CHOOSE y \in s : TRUE) \in s
  OBVIOUS
<1>3. \A s \in SUBSET S : s # {} =>
        f[s] = w[CHOOSE y \in s : TRUE] + f[s \ {CHOOSE y \in s : TRUE}]
  BY DEF Sums
<1>. QED BY <1>1, <1>2, <1>3

(* The order in which the elements are taken does not matter.              *)
LEMMA AnyOrder ==
  ASSUME NEW w, NEW S, IsFiniteSet(S), \A x \in S : w[x] \in Int, NEW f, Sums(f, w, S),
         NEW s \in SUBSET S
  PROVE  f[s] \in Int /\ \A x \in s : f[s] = w[x] + f[s \ {x}]
<1>. DEFINE Good(t) == f[t] \in Int /\ \A x \in t : f[t] = w[x] + f[t \ {x}]
            N == {n \in Nat : \A t \in SUBSET S : Cardinality(t) <= n => Good(t)}
<1>0. \A t \in SUBSET S : Cardinality(t) \in Nat /\ (Cardinality(t) = 0 <=> t = {})
  BY FS_Subset, FS_CardinalityType, FS_EmptySet
<1>1. Good({})
  BY SumsAt
<1>2. 0 \in N
  BY <1>0, <1>1
<1>3. ASSUME NEW n \in Nat, n \in N
      PROVE  n + 1 \in N
  <2>. SUFFICES ASSUME NEW t \in SUBSET S, Cardinality(t) <= n + 1, t # {}
                PROVE  Good(t)
    BY <1>1
  <2>1. PICK c \in t : f[t] = w[c] + f[t \ {c}]
    BY SumsAt
  <2>2. \A u \in SUBSET S : Cardinality(u) <= n => Good(u)
    BY <1>3
  <2>3. \A x \in t : t \ {x} \in SUBSET S /\ Good(t \ {x})
    <3>. SUFFICES ASSUME NEW x \in t PROVE t \ {x} \in SUBSET S /\ Good(t \ {x})
      OBVIOUS
    <3>. HIDE DEF Good
    <3>1. t \ {x} \in SUBSET S /\ Cardinality(t \ {x}) = Cardinality(t) - 1
          /\ Cardinality(t) \in Nat
      BY Smaller
    <3>. QED BY <2>2, <3>1
  <2>4. w[c] \in Int /\ f[t] \in Int
    <3>1. c \in S /\ f[t \ {c}] \in Int
      BY <2>3
    <3>. QED BY <2>1, <3>1
  <2>5. ASSUME NEW x \in t, x # c
        PROVE  f[t] = w[x] + f[t \ {x}]
    <3>1. (t \ {c}) \ {x} = (t \ {x}) \ {c}
      OBVIOUS
    <3>2. f[t \ {c}] = w[x] + f[(t \ {c}) \ {x}]
      BY <2>3, <2>5
    <3>3. f[t \ {x}] = w[c] + f[(t \ {c}) \ {x}]
      BY <2>3, <2>5, <3>1
    <3>4. f[(t \ {c}) \ {x}] \in Int
      <4>1. (t \ {c}) \ {x} \in SUBSET S /\ Cardinality((t \ {c}) \ {x}) <= n
        <5>1. PICK u : u = t \ {c}
          OBVIOUS
        <5>2. u \in SUBSET S /\ Cardinality(u) = Cardinality(t) - 1 /\ Cardinality(t) \in Nat
          BY <5>1, Smaller
        <5>3. x \in u
          BY <2>5, <5>1
        <5>4. Cardinality(u \ {x}) = Cardinality(u) - 1 /\ u \ {x} \in SUBSET S
          BY <5>2, <5>3, Smaller
        <5>. QED BY <5>1, <5>2, <5>4
      <4>. QED BY <2>2, <4>1
    <3>5. w[x] \in Int
      OBVIOUS
    <3>. HIDE DEF Good
    <3>. QED BY <2>1, <2>4, <3>2, <3>3, <3>4, <3>5
  <2>. QED BY <2>1, <2>4, <2>5
<1>4. Cardinality(s) \in N
  <2>1. Cardinality(s) \in Nat
    BY <1>0
  <2>. HIDE DEF N
  <2>. QED BY <1>2, <1>3, <2>1, NumbersFromZero
<1>5. Cardinality(s) \in Nat /\ Cardinality(s) <= Cardinality(s)
  BY <1>0
<1>6. Good(s)
  <2>. HIDE DEF Good
  <2>. QED BY <1>4, <1>5
<1>. QED BY <1>6

(* The same numbers are added.                                             *)
SameOn(w, v, S) == \A x \in S : w[x] = v[x]

(* Two such functions agree where they add the same numbers.               *)
LEMMA SumsAgree ==
  ASSUME NEW w, NEW S, IsFiniteSet(S), NEW f, Sums(f, w, S),
         NEW v, NEW T, T \subseteq S, NEW g, Sums(g, v, T), SameOn(w, v, T)
  PROVE  f[T] = g[T]
<1>. DEFINE N == {n \in Nat : \A t \in SUBSET T : Cardinality(t) <= n => f[t] = g[t]}
<1>0. IsFiniteSet(T)
  BY FS_Subset
<1>1. \A t \in SUBSET T : Cardinality(t) \in Nat /\ (Cardinality(t) = 0 <=> t = {})
  BY <1>0, FS_Subset, FS_CardinalityType, FS_EmptySet
<1>2. f[{}] = g[{}]
  BY SumsAt
<1>3. 0 \in N
  BY <1>1, <1>2
<1>4. ASSUME NEW n \in Nat, n \in N
      PROVE  n + 1 \in N
  <2>. SUFFICES ASSUME NEW t \in SUBSET T, Cardinality(t) <= n + 1, t # {}
                PROVE  f[t] = g[t]
    <3>1. n + 1 \in Nat
      OBVIOUS
    <3>. QED BY <1>2, <3>1
  <2>1. PICK c \in t : c = (CHOOSE y \in t : TRUE) /\ f[t] = w[c] + f[t \ {c}]
    BY SumsAt
  <2>2. PICK d \in t : d = (CHOOSE y \in t : TRUE) /\ g[t] = v[d] + g[t \ {d}]
    BY SumsAt
  <2>3. c = d /\ w[c] = v[c]
    BY <2>1, <2>2 DEF SameOn
  <2>4. f[t \ {c}] = g[t \ {c}]
    <3>1. t \ {c} \in SUBSET T /\ Cardinality(t \ {c}) = Cardinality(t) - 1
          /\ Cardinality(t) \in Nat
      BY <1>0, Smaller
    <3>. QED BY <1>4, <3>1
  <2>. QED BY <2>1, <2>2, <2>3, <2>4
<1>5. Cardinality(T) \in N
  <2>1. Cardinality(T) \in Nat
    BY <1>1
  <2>. HIDE DEF N
  <2>. QED BY <1>3, <1>4, <2>1, NumbersFromZero
<1>6. ASSUME NEW t, t = T
      PROVE  f[t] = g[t]
  <2>1. t \in SUBSET T /\ Cardinality(t) <= Cardinality(T)
    BY <1>1, <1>6
  <2>. QED BY <1>5, <2>1
<1>. QED BY <1>6

(* The sum is the value of any such function.                              *)
LEMMA SumValue ==
  ASSUME NEW w, NEW S, IsFiniteSet(S), NEW f, Sums(f, w, S), NEW T \in SUBSET S
  PROVE  Sum(w, T) = f[T]
<1>1. IsFiniteSet(T)
  BY FS_Subset
<1>2. PICK h : Sums(h, w, T)
  BY <1>1, SumsExist
<1>3. PICK g : Sums(g, w, T) /\ Sum(w, T) = g[T]
  BY <1>2, SumIs
<1>4. SameOn(w, w, T)
  BY DEF SameOn
<1>5. f[T] = g[T]
  BY <1>3, <1>4, SumsAgree
<1>. QED BY <1>3, <1>5

-----------------------------------------------------------------------------
(* The sum over no element is 0.                                           *)
LEMMA SumEmpty ==
  ASSUME NEW w
  PROVE  Sum(w, {}) = 0
<1>1. IsFiniteSet({})
  BY FS_EmptySet
<1>2. PICK f : Sums(f, w, {})
  BY <1>1, SumsExist
<1>. QED BY <1>1, <1>2, SumValue, SumsAt

(* The sum of integers is one, and any element can be taken out of it.     *)
LEMMA SumTake ==
  ASSUME NEW w, NEW S, IsFiniteSet(S), \A x \in S : w[x] \in Int
  PROVE  /\ Sum(w, S) \in Int
         /\ \A x \in S : Sum(w, S \ {x}) \in Int /\ Sum(w, S) = w[x] + Sum(w, S \ {x})
<1>1. PICK f : Sums(f, w, S)
  BY SumsExist
<1>2. \A T \in SUBSET S : Sum(w, T) = f[T] /\ f[T] \in Int
  BY <1>1, SumValue, AnyOrder
<1>3. \A x \in S : f[S] = w[x] + f[S \ {x}]
  BY <1>1, AnyOrder
<1>4. \A x \in S : S \ {x} \in SUBSET S
  OBVIOUS
<1>. QED BY <1>2, <1>3, <1>4

(* The sum over one element.                                               *)
LEMMA SumOne ==
  ASSUME NEW w, NEW x, w[x] \in Int
  PROVE  Sum(w, {x}) = w[x]
<1>1. IsFiniteSet({x}) /\ {x} \ {x} = {}
  BY FS_Singleton
<1>2. Sum(w, {x}) = w[x] + Sum(w, {x} \ {x})
  BY <1>1, SumTake
<1>. QED BY <1>1, <1>2, SumEmpty

(* Sums of the same numbers are the same.                                  *)
LEMMA SumSame ==
  ASSUME NEW w, NEW v, NEW S, IsFiniteSet(S), \A x \in S : w[x] = v[x]
  PROVE  Sum(w, S) = Sum(v, S)
<1>1. PICK f : Sums(f, w, S)
  BY SumsExist
<1>2. PICK g : Sums(g, v, S)
  BY SumsExist
<1>3. SameOn(w, v, S)
  BY DEF SameOn
<1>4. f[S] = g[S]
  BY <1>1, <1>2, <1>3, SumsAgree
<1>. QED BY <1>1, <1>2, <1>4, SumValue

(* Moving d from a to b leaves the sum as it is.                           *)
LEMMA SumMoved ==
  ASSUME NEW w, NEW v, NEW S, IsFiniteSet(S), \A x \in S : w[x] \in Int,
         NEW a \in S, NEW b \in S, a # b, NEW d \in Int,
         v[a] = w[a] - d, v[b] = w[b] + d, \A x \in S \ {a, b} : v[x] = w[x]
  PROVE  Sum(v, S) = Sum(w, S)
<1>1. IsFiniteSet(S \ {a}) /\ IsFiniteSet((S \ {a}) \ {b})
  BY FS_Subset
<1>2. \A x \in S : v[x] \in Int
  OBVIOUS
<1>3. Sum(w, S) = w[a] + Sum(w, S \ {a}) /\ Sum(v, S) = v[a] + Sum(v, S \ {a})
  BY <1>2, SumTake
<1>4. /\ Sum(w, S \ {a}) = w[b] + Sum(w, (S \ {a}) \ {b})
      /\ Sum(v, S \ {a}) = v[b] + Sum(v, (S \ {a}) \ {b})
      /\ Sum(w, (S \ {a}) \ {b}) \in Int
  <2>1. b \in S \ {a} /\ \A x \in S \ {a} : w[x] \in Int /\ v[x] \in Int
    BY <1>2
  <2>. QED BY <1>1, <2>1, SumTake
<1>5. Sum(v, (S \ {a}) \ {b}) = Sum(w, (S \ {a}) \ {b})
  <2>1. \A x \in (S \ {a}) \ {b} : v[x] = w[x]
    OBVIOUS
  <2>. QED BY <1>1, <2>1, SumSame
<1>6. w[a] \in Int /\ w[b] \in Int
  OBVIOUS
<1>. QED BY <1>3, <1>4, <1>5, <1>6

-----------------------------------------------------------------------------
(* What a thread does after s.                                             *)
Succ(s) ==
  CASE s = "pick"   -> "lock1"  [] s = "lock1"  -> "lock2"
    [] s = "lock2"  -> "read1"  [] s = "read1"  -> "read2"
    [] s = "read2"  -> "write1" [] s = "write1" -> "write2"
    [] s = "write2" -> IF prog = "ftxblockchain" THEN "ledger" ELSE "unlock2"
    [] s = "ledger" -> "unlock2" [] s = "unlock2" -> "unlock1" [] s = "unlock1" -> "pick"

(* Where a thread of the program can be.                                   *)
Names == {"pick", "lock1", "lock2", "read1", "read2", "write1", "write2", "unlock2", "unlock1"}
           \cup IF prog = "ftxblockchain" THEN {"ledger"} ELSE {}

(* Where a thread of any of the programs can be.                           *)
EveryName == {"pick", "lock1", "lock2", "read1", "read2", "write1", "write2", "ledger",
              "unlock2", "unlock1"}

(* Sequences given by their elements.                                      *)
LEMMA SevenIs ==
  ASSUME NEW S, NEW a \in S, NEW b \in S, NEW c \in S, NEW d \in S, NEW e \in S, NEW f \in S,
         NEW g \in S, NEW x, x = <<a, b, c, d, e, f, g>>
  PROVE  /\ x \in Seq(S) /\ Len(x) = 7
         /\ x[1] = a /\ x[2] = b /\ x[3] = c /\ x[4] = d /\ x[5] = e /\ x[6] = f /\ x[7] = g
OBVIOUS

(* The empty one.                                                          *)
LEMMA EmptyIs ==
  ASSUME NEW S, NEW x, x = << >>
  PROVE  x \in Seq(S) /\ Len(x) = 0
OBVIOUS

(* One element.                                                            *)
LEMMA OneIs ==
  ASSUME NEW S, NEW a \in S, NEW x, x = <<a>>
  PROVE  x \in Seq(S) /\ Len(x) = 1 /\ x[1] = a
OBVIOUS

(* Two elements.                                                           *)
LEMMA TwoIs ==
  ASSUME NEW S, NEW a \in S, NEW b \in S, NEW x, x = <<a, b>>
  PROVE  x \in Seq(S) /\ Len(x) = 2 /\ x[1] = a /\ x[2] = b
OBVIOUS

(* The steps of a transfer, one by one.                                    *)
LEMMA TransferIs ==
  /\ Transfer \in Seq(EveryName) /\ Len(Transfer) = 7
  /\ Transfer[1] = "pick" /\ Transfer[2] = "lock1" /\ Transfer[3] = "lock2"
  /\ Transfer[4] = "read1" /\ Transfer[5] = "read2"
  /\ Transfer[6] = "write1" /\ Transfer[7] = "write2"
<1>1. /\ "pick" \in EveryName /\ "lock1" \in EveryName /\ "lock2" \in EveryName
      /\ "read1" \in EveryName /\ "read2" \in EveryName
      /\ "write1" \in EveryName /\ "write2" \in EveryName
  BY DEF EveryName
<1>2. Transfer = <<"pick", "lock1", "lock2", "read1", "read2", "write1", "write2">>
  BY DEF Transfer
<1>. QED BY <1>1, <1>2, SevenIs

(* s is x, y and z, one after the other.                                   *)
Parts(s, S, x, y, z) ==
  /\ s \in Seq(S) /\ Len(s) = Len(x) + Len(y) + Len(z)
  /\ \A i \in 1..Len(s) :
       s[i] = IF i <= Len(x) THEN x[i]
              ELSE IF i <= Len(x) + Len(y) THEN y[i - Len(x)]
              ELSE z[i - (Len(x) + Len(y))]

(* What a concatenation of three sequences is.                             *)
LEMMA ThreeParts ==
  ASSUME NEW S, NEW x \in Seq(S), NEW y \in Seq(S), NEW z \in Seq(S),
         NEW s, s = (x \o y) \o z
  PROVE  Parts(s, S, x, y, z)
<1>1. /\ x \o y \in Seq(S) /\ Len(x \o y) = Len(x) + Len(y)
      /\ \A i \in 1..Len(x) + Len(y) : (x \o y)[i] = IF i <= Len(x) THEN x[i] ELSE y[i - Len(x)]
  BY ConcatProperties
<1>. DEFINE w == x \o y
<1>2. /\ w \o z \in Seq(S) /\ Len(w \o z) = Len(w) + Len(z)
      /\ \A i \in 1..Len(w) + Len(z) : (w \o z)[i] = IF i <= Len(w) THEN w[i] ELSE z[i - Len(w)]
  <2>. HIDE DEF w
  <2>1. w \in Seq(S)
    BY <1>1 DEF w
  <2>. QED BY <2>1, ConcatProperties
<1>3. Len(x) \in Nat /\ Len(y) \in Nat /\ Len(z) \in Nat
  OBVIOUS
<1>4. s = w \o z /\ Len(w) = Len(x) + Len(y)
      /\ \A i \in 1..Len(x) + Len(y) : w[i] = IF i <= Len(x) THEN x[i] ELSE y[i - Len(x)]
  BY <1>1
<1>. HIDE DEF w
<1>. QED BY <1>2, <1>3, <1>4 DEF Parts

(* The ten steps of ftxblockchain.                                         *)
LEMMA StepsWithLedger ==
  ASSUME prog = "ftxblockchain"
  PROVE  /\ Steps \in Seq(EveryName) /\ Len(Steps) = 10
         /\ Steps[1] = "pick"
         /\ Steps[2] = "lock1"
         /\ Steps[3] = "lock2"
         /\ Steps[4] = "read1"
         /\ Steps[5] = "read2"
         /\ Steps[6] = "write1"
         /\ Steps[7] = "write2"
         /\ Steps[8] = "ledger"
         /\ Steps[9] = "unlock2"
         /\ Steps[10] = "unlock1"
<1>1. "ledger" \in EveryName /\ "unlock2" \in EveryName /\ "unlock1" \in EveryName
  BY DEF EveryName
<1>2. PICK y : y = <<"ledger">>
  OBVIOUS
<1>3. PICK z : z = <<"unlock2", "unlock1">>
  OBVIOUS
<1>4. y \in Seq(EveryName) /\ Len(y) = 1 /\ y[1] = "ledger"
  BY <1>1, <1>2, OneIs
<1>5. z \in Seq(EveryName) /\ Len(z) = 2 /\ z[1] = "unlock2" /\ z[2] = "unlock1"
  BY <1>1, <1>3, TwoIs
<1>6. KeepsLedger = y
  BY <1>2 DEF KeepsLedger
<1>7. Steps = (Transfer \o y) \o z
  BY <1>3, <1>6 DEF Steps
<1>8. /\ Steps \in Seq(EveryName) /\ Len(Steps) = 10
      /\ \A i \in 1..10 : Steps[i] = IF i <= 7 THEN Transfer[i]
                                    ELSE IF i <= 8 THEN y[i - 7] ELSE z[i - 8]
  <2>1. Parts(Steps, EveryName, Transfer, y, z)
    <3>1. Transfer \in Seq(EveryName)
      BY TransferIs
    <3>. QED BY <1>4, <1>5, <1>7, <3>1, ThreeParts
  <2>2. Len(Transfer) = 7
    BY TransferIs
  <2>. QED BY <1>4, <1>5, <2>1, <2>2 DEF Parts
<1>. QED BY <1>4, <1>5, <1>8, TransferIs

(* The nine steps of the other programs.                                   *)
LEMMA StepsWithout ==
  ASSUME prog # "ftxblockchain"
  PROVE  /\ Steps \in Seq(EveryName) /\ Len(Steps) = 9
         /\ Steps[1] = "pick"
         /\ Steps[2] = "lock1"
         /\ Steps[3] = "lock2"
         /\ Steps[4] = "read1"
         /\ Steps[5] = "read2"
         /\ Steps[6] = "write1"
         /\ Steps[7] = "write2"
         /\ Steps[8] = "unlock2"
         /\ Steps[9] = "unlock1"
<1>1. "ledger" \in EveryName /\ "unlock2" \in EveryName /\ "unlock1" \in EveryName
  BY DEF EveryName
<1>2. PICK y : y = << >>
  OBVIOUS
<1>3. PICK z : z = <<"unlock2", "unlock1">>
  OBVIOUS
<1>4. y \in Seq(EveryName) /\ Len(y) = 0
  BY <1>1, <1>2, EmptyIs
<1>5. z \in Seq(EveryName) /\ Len(z) = 2 /\ z[1] = "unlock2" /\ z[2] = "unlock1"
  BY <1>1, <1>3, TwoIs
<1>6. KeepsLedger = y
  BY <1>2 DEF KeepsLedger
<1>7. Steps = (Transfer \o y) \o z
  BY <1>3, <1>6 DEF Steps
<1>8. /\ Steps \in Seq(EveryName) /\ Len(Steps) = 9
      /\ \A i \in 1..9 : Steps[i] = IF i <= 7 THEN Transfer[i]
                                    ELSE IF i <= 7 THEN y[i - 7] ELSE z[i - 7]
  <2>1. Parts(Steps, EveryName, Transfer, y, z)
    <3>1. Transfer \in Seq(EveryName)
      BY TransferIs
    <3>. QED BY <1>4, <1>5, <1>7, <3>1, ThreeParts
  <2>2. Len(Transfer) = 7
    BY TransferIs
  <2>. QED BY <1>4, <1>5, <2>1, <2>2 DEF Parts
<1>. QED BY <1>4, <1>5, <1>8, TransferIs

(* A thread is at one of its program's steps.                              *)
LEMMA NamesAre == ToSet(Steps) = Names
<1>1. CASE prog = "ftxblockchain"
  <2>1. DOMAIN Steps = 1..10
    BY <1>1, StepsWithLedger
  <2>. QED BY <1>1, <2>1, StepsWithLedger DEF ToSet, Names
<1>2. CASE prog # "ftxblockchain"
  <2>1. DOMAIN Steps = 1..9
    BY <1>2, StepsWithout
  <2>. QED BY <1>2, <2>1, StepsWithout DEF ToSet, Names
<1>. QED BY <1>1, <1>2

(* The successors, one by one.                                             *)
LEMMA SuccIs ==
  /\ Succ("pick") = "lock1" /\ Succ("lock1") = "lock2" /\ Succ("lock2") = "read1"
  /\ Succ("read1") = "read2" /\ Succ("read2") = "write1" /\ Succ("write1") = "write2"
  /\ Succ("write2") = IF prog = "ftxblockchain" THEN "ledger" ELSE "unlock2"
  /\ Succ("ledger") = "unlock2" /\ Succ("unlock2") = "unlock1" /\ Succ("unlock1") = "pick"
BY DEF Succ

(* Goto leads from each step to the one after it.                          *)
LEMMA GotoSucc ==
  ASSUME NEW t, pc[t] \in Names, Goto(t)
  PROVE  pc' = [pc EXCEPT ![t] = Succ(pc[t])]
<1>. DEFINE i == CHOOSE i \in DOMAIN Steps : Steps[i] = pc[t]
            j == (i % Len(Steps)) + 1
<1>1. pc' = [pc EXCEPT ![t] = Steps[j]]
  BY DEF Goto
<1>2. \E k \in DOMAIN Steps : Steps[k] = pc[t]
  BY NamesAre DEF ToSet
<1>3. i \in DOMAIN Steps /\ Steps[i] = pc[t]
  BY <1>2
<1>. HIDE DEF i
<1>4. CASE prog = "ftxblockchain"
  <2>1. i \in 1..10 /\ j = IF i = 10 THEN 1 ELSE i + 1
    <3>1. DOMAIN Steps = 1..10 /\ Len(Steps) = 10
      BY <1>4, StepsWithLedger
    <3>. QED BY <1>3, <3>1
  <2>. HIDE DEF j
  <2>2. Steps[j] = Succ(Steps[i])
    BY <1>4, <2>1, StepsWithLedger, SuccIs
  <2>. QED BY <1>1, <1>3, <2>2
<1>5. CASE prog # "ftxblockchain"
  <2>1. i \in 1..9 /\ j = IF i = 9 THEN 1 ELSE i + 1
    <3>1. DOMAIN Steps = 1..9 /\ Len(Steps) = 9
      BY <1>5, StepsWithout
    <3>. QED BY <1>3, <3>1
  <2>. HIDE DEF j
  <2>2. Steps[j] = Succ(Steps[i])
    BY <1>5, <2>1, StepsWithout, SuccIs
  <2>. QED BY <1>1, <1>3, <2>2
<1>. QED BY <1>4, <1>5

-----------------------------------------------------------------------------
(* The invariant of the region locks, for the locks on accounts.           *)
LP == INSTANCE FileLocksProofs WITH
  Size  <- ASize * NAccounts,
  Locks <- {AcctLock(t, a) : t \in Threads, a \in Accounts}

(* The two instances of FileLocks say the same.                            *)
LEMMA LockParts ==
  /\ \A l : RegionLock!Chunks(l) = LP!Chunks(l)
  /\ RegionLock!Indices = LP!Indices
BY DEF RegionLock!Chunks, LP!Chunks, RegionLock!ChunkSz, LP!ChunkSz, RegionLock!Indices, LP!Indices

(* Their operations are the same.                                          *)
LEMMA LockSteps ==
  /\ \A l : RegionLock!Lock(l) <=> LP!Lock(l)
  /\ \A l : RegionLock!Unlock(l) <=> LP!Unlock(l)
  /\ \A t : RegionLock!Retry(t) <=> LP!Retry(t)
  /\ \A t : RegionLock!WakeUp(t) <=> LP!WakeUp(t)
<1>1. \A l : RegionLock!LockRegion(l) <=> LP!LockRegion(l)
  BY LockParts DEF RegionLock!LockRegion, LP!LockRegion
<1>2. \A l : RegionLock!IsOverlap(l) <=> LP!IsOverlap(l)
  BY LockParts DEF RegionLock!IsOverlap, LP!IsOverlap
<1>3. \A l : (RegionLock!InRange(l) <=> LP!InRange(l)) /\ (RegionLock!Ready(l) <=> LP!Ready(l))
  BY LockParts DEF RegionLock!InRange, LP!InRange, RegionLock!Ready, LP!Ready
<1>4. \A l : RegionLock!Lock(l) <=> LP!Lock(l)
  BY <1>1, <1>2, <1>3 DEF RegionLock!Lock, LP!Lock
<1>5. \A t : RegionLock!Retry(t) <=> LP!Retry(t)
  BY <1>1, <1>2, <1>3 DEF RegionLock!Retry, LP!Retry
<1>6. \A t : RegionLock!WakeUp(t) <=> LP!WakeUp(t)
  BY DEF RegionLock!WakeUp, LP!WakeUp
<1>7. \A l : RegionLock!Unlock(l) <=> LP!Unlock(l)
  BY LockParts DEF RegionLock!Unlock, LP!Unlock, RegionLock!Stop, LP!Stop
<1>. QED BY <1>4, <1>5, <1>6, <1>7

(* So are their initial states and types.                                  *)
LEMMA LocksStart ==
  /\ RegionLock!Init <=> LP!Init
  /\ RegionLock!TypeOK <=> LP!TypeOK
BY LockParts DEF RegionLock!Init, LP!Init, RegionLock!TypeOK, LP!TypeOK

(* Accounts have positions in the file.                                    *)
LEMMA ArePositions ==
  NAccounts \in Nat /\ ASize \in Nat \ {0} /\ \A a \in Accounts : a \in Nat /\ ASize * a \in Nat
BY TransfersAssumption DEF Accounts

(* An account's lock is a range of the file, and not Nobody.               *)
LEMMA LockIs ==
  ASSUME NEW t \in Threads, NEW a \in Accounts
  PROVE  /\ AcctLock(t, a) \in [thread : Threads, start : Nat, len : Nat \ {0}, tag : Nat]
         /\ AcctLock(t, a) # Nobody
BY TransfersAssumption, ArePositions DEF AcctLock

(* What the invariant of the region locks assumes holds for account locks. *)
LEMMA LocksAre == LP!FileLocksAssumption
<1>. DEFINE L == {AcctLock(t, a) : t \in Threads, a \in Accounts}
<1>1. IsFiniteSet(L)
  <2>. DEFINE P == Threads \X Accounts
              f == [p \in P |-> AcctLock(p[1], p[2])]
  <2>1. IsFiniteSet(Accounts)
    BY ArePositions, FS_Interval DEF Accounts
  <2>2. IsFiniteSet(P)
    BY <2>1, TransfersAssumption, FS_Product
  <2>3. f \in Surjection(P, L)
    <3>1. \A p \in P : f[p] \in L
      OBVIOUS
    <3>2. ASSUME NEW l \in L PROVE \E p \in P : f[p] = l
      <4>1. PICK t \in Threads, a \in Accounts : l = AcctLock(t, a)
        OBVIOUS
      <4>2. <<t, a>> \in P /\ f[<<t, a>>] = l
        BY <4>1
      <4>. QED BY <4>2
    <3>. HIDE DEF L, P
    <3>. QED BY <3>1, <3>2 DEF Surjection
  <2>. HIDE DEF L, P, f
  <2>. QED BY <2>2, <2>3, FS_Surjection DEF ExistsSurjection
<1>2. LP!IsFiniteSet(L)
  <2>. HIDE DEF L
  <2>. QED BY <1>1, Zenon DEF LP!IsFiniteSet, IsFiniteSet
<1>3. L \subseteq [thread : Threads, start : Nat, len : Nat \ {0}, tag : Nat] /\ Nobody \notin L
  BY LockIs
<1>4. ASize * NAccounts \in Nat
  BY ArePositions
<1>. QED BY <1>2, <1>3, <1>4, TransfersAssumption DEF LP!FileLocksAssumption

-----------------------------------------------------------------------------
(* What a record can hold.                                                 *)
Balances == 0..MaxBalance

(* What a reader of account a finds.                                       *)
Current(a) == IF a \in DOMAIN cbuf THEN cbuf[a] ELSE file[a]

(* The cache holds one window, and differs from the file only when dirty.  *)
CacheInv ==
  /\ file \in [Accounts -> Balances]
  /\ \E a \in Accounts : cbuf \in [Window(a) -> Balances]
  /\ dirty \in BOOLEAN
  /\ ~dirty => \A a \in DOMAIN cbuf : cbuf[a] = file[a]

(* Flushing makes the file what readers see.                               *)
LEMMA FlushedIs ==
  ASSUME CacheInv
  PROVE  /\ Flushed \in [Accounts -> Balances]
         /\ \A a \in Accounts : Flushed[a] = Current(a)
<1>1. /\ \A a \in DOMAIN cbuf : a \in Accounts /\ cbuf[a] \in Balances
      /\ file \in [Accounts -> Balances]
      /\ ~dirty => \A a \in DOMAIN cbuf : cbuf[a] = file[a]
  BY DEF CacheInv, Window
<1>2. CASE dirty
  BY <1>1, <1>2 DEF Flushed, Current
<1>3. CASE ~dirty
  BY <1>1, <1>3 DEF Flushed, Current
<1>. QED BY <1>2, <1>3

(* The cache a miss has filled holds what readers see.                     *)
LEMMA FilledIs ==
  ASSUME CacheInv, NEW a \in Accounts
  PROVE  /\ \E b \in Accounts : Filled(a) \in [Window(b) -> Balances]
         /\ a \in DOMAIN Filled(a) /\ DOMAIN Filled(a) \subseteq Accounts
         /\ \A b \in DOMAIN Filled(a) : Filled(a)[b] = Current(b)
         /\ Current(a) \in Balances
<1>1. Window(a) \subseteq Accounts /\ a \in Window(a)
  BY DEF Window
<1>2. PICK c \in Accounts : cbuf \in [Window(c) -> Balances]
  BY DEF CacheInv
<1>3. Window(c) \subseteq Accounts
  BY DEF Window
<1>4. CASE a \in DOMAIN cbuf
  BY <1>2, <1>3, <1>4 DEF Filled, Current
<1>5. CASE a \notin DOMAIN cbuf
  <2>1. Filled(a) = [b \in Window(a) |-> Flushed[b]]
    BY <1>5 DEF Filled
  <2>2. /\ Flushed \in [Accounts -> Balances]
        /\ \A b \in Accounts : Flushed[b] = Current(b)
    BY FlushedIs
  <2>. QED BY <1>1, <2>1, <2>2
<1>. QED BY <1>4, <1>5

(* A miss writes back and reads in, which changes no balance.              *)
LEMMA EvictIs ==
  ASSUME CacheInv, NEW a \in Accounts, Evict(a)
  PROVE  /\ file' \in [Accounts -> Balances]
         /\ \A b \in Accounts \ DOMAIN Filled(a) : file'[b] = Current(b)
         /\ a \notin DOMAIN cbuf => \A b \in DOMAIN Filled(a) : Filled(a)[b] = file'[b]
<1>1. CASE a \in DOMAIN cbuf
  BY <1>1 DEF CacheInv, Evict, Filled, Current
<1>2. CASE a \notin DOMAIN cbuf
  <2>1. file' = Flushed
    BY <1>2 DEF Evict
  <2>2. \A b \in DOMAIN Filled(a) : b \in Accounts /\ Filled(a)[b] = Current(b)
    BY FilledIs
  <2>. QED BY <1>2, <2>1, <2>2, FlushedIs
<1>. QED BY <1>1, <1>2

(* io61_pread changes no balance that a reader finds.                      *)
LEMMA PreadIs ==
  ASSUME CacheInv, NEW a \in Accounts, Pread(a)
  PROVE  CacheInv' /\ \A b \in Accounts : Current(b)' = Current(b)
<1>1. /\ file' \in [Accounts -> Balances]
      /\ \A b \in Accounts \ DOMAIN Filled(a) : file'[b] = Current(b)
      /\ a \notin DOMAIN cbuf => \A b \in DOMAIN Filled(a) : Filled(a)[b] = file'[b]
  BY EvictIs DEF Pread
<1>2. cbuf' = Filled(a) /\ dirty' = (dirty /\ a \in DOMAIN cbuf)
  BY DEF Pread
<1>3. /\ \E b \in Accounts : Filled(a) \in [Window(b) -> Balances]
      /\ \A b \in DOMAIN Filled(a) : Filled(a)[b] = Current(b)
  BY FilledIs
<1>4. \A b \in Accounts : Current(b)' = Current(b)
  BY <1>1, <1>2, <1>3 DEF Current
<1>5. \E b \in Accounts : cbuf' \in [Window(b) -> Balances]
  BY <1>2, <1>3
<1>6. ~dirty' => \A b \in DOMAIN cbuf' : cbuf'[b] = file'[b]
  <2>1. CASE a \in DOMAIN cbuf
    <3>1. Filled(a) = cbuf /\ file' = file
      BY <2>1 DEF Filled, Evict, Pread
    <3>. QED BY <1>2, <2>1, <3>1 DEF CacheInv
  <2>2. CASE a \notin DOMAIN cbuf
    BY <1>1, <1>2, <2>2
  <2>. QED BY <2>1, <2>2
<1>7. dirty' \in BOOLEAN
  BY <1>2
<1>8. CacheInv'
  BY <1>1, <1>5, <1>6, <1>7 DEF CacheInv, Window, Accounts, Balances
<1>. QED BY <1>4, <1>8

(* io61_pwrite changes one.                                                *)
LEMMA PwriteIs ==
  ASSUME CacheInv, NEW a \in Accounts, NEW v \in Balances, Pwrite(a, v)
  PROVE  /\ CacheInv'
         /\ \A b \in Accounts : Current(b)' = IF b = a THEN v ELSE Current(b)
<1>1. /\ file' \in [Accounts -> Balances]
      /\ \A b \in Accounts \ DOMAIN Filled(a) : file'[b] = Current(b)
  BY EvictIs DEF Pwrite
<1>2. cbuf' = [Filled(a) EXCEPT ![a] = v] /\ dirty' = TRUE
  BY DEF Pwrite
<1>3. PICK c \in Accounts : Filled(a) \in [Window(c) -> Balances]
  BY FilledIs
<1>4. /\ a \in DOMAIN Filled(a)
      /\ \A b \in DOMAIN Filled(a) : Filled(a)[b] = Current(b)
  BY FilledIs
<1>5. cbuf' \in [Window(c) -> Balances]
  BY <1>2, <1>3
<1>6. /\ DOMAIN cbuf' = DOMAIN Filled(a) /\ cbuf'[a] = v
      /\ \A b \in DOMAIN Filled(a) : b # a => cbuf'[b] = Filled(a)[b]
  BY <1>2, <1>4
<1>7. \A b \in Accounts : Current(b)' = IF b = a THEN v ELSE Current(b)
  BY <1>1, <1>4, <1>6 DEF Current
<1>8. CacheInv'
  BY <1>1, <1>2, <1>5 DEF CacheInv, Window, Accounts, Balances
<1>. QED BY <1>7, <1>8

(* No balance changes while the cache is left alone.                       *)
LEMMA CacheSame ==
  ASSUME CacheInv, UNCHANGED cacheVars
  PROVE  CacheInv' /\ \A b \in Accounts : Current(b)' = Current(b)
BY DEF CacheInv, cacheVars, Current, Window, Accounts, Balances

-----------------------------------------------------------------------------
(* Between locking both accounts and unlocking the first of them.          *)
Inside(t) == pc[t] \in {"read1", "read2", "write1", "write2", "ledger", "unlock2"}

(* The types of the threads' variables.                                    *)
TypesInv ==
  /\ prog \in {"ftxxfer", "ftxblockchain", "ftxrocket"}
  /\ book \in [Accounts -> Int]
  /\ pc \in [Threads -> Names]
  /\ acct \in [Threads -> Accounts \X Accounts]
  /\ bal \in [Threads -> Balances \X Balances]
  /\ delta \in [Threads -> Balances]
  /\ ops \in [Threads -> 0..NOps]
  /\ closed \in BOOLEAN

(* What t has locked, and what it waits for.                               *)
Guards(t) ==
  /\ pc[t] # "pick" => acct[t][1] # acct[t][2]
  /\ Inside(t) \/ pc[t] \in {"lock2", "unlock1"} => AcctLock(t, Order(t)[1]) \in held
  /\ Inside(t) => AcctLock(t, Order(t)[2]) \in held
  /\ want[t] # Nobody => \/ pc[t] = "lock1" /\ want[t] = AcctLock(t, Order(t)[1])
                         \/ pc[t] = "lock2" /\ want[t] = AcctLock(t, Order(t)[2])

(* What t has read is still so when it writes.                             *)
Seen(t) ==
  /\ pc[t] \in {"read2", "write1"} => bal[t][1] = Current(acct[t][1])
  /\ pc[t] \in {"write1", "write2"} => bal[t][2] = Current(acct[t][2])
  /\ pc[t] = "write2" => bal[t][2] + delta[t] <= MaxBalance
  /\ pc[t] = "ledger" => Current(acct[t][2]) = bal[t][2] + delta[t]

(* Transfers that are to be entered as spending of a.                      *)
Payer(t, a) == pc[t] \in {"write2", "ledger"} /\ acct[t][1] = a

(* Transfers that are to be entered as income of a.                        *)
Payee(t, a) == pc[t] = "ledger" /\ acct[t][2] = a

(* The ledger is behind the balance of a by what one thread has to enter.  *)
BookAt(a) ==
  /\ (\A t \in Threads : ~Payer(t, a) /\ ~Payee(t, a)) => book[a] = Current(a)
  /\ \A t \in Threads : Payer(t, a) => book[a] = Current(a) + delta[t]
  /\ \A t \in Threads : Payee(t, a) => book[a] = Current(a) - delta[t]

(* Only ftxblockchain keeps the ledger.                                    *)
BookInv ==
  /\ prog # "ftxblockchain" => book = Opening
  /\ prog = "ftxblockchain" => \A a \in Accounts : BookAt(a)

(* The database is closed when all transfers are done and flushed.         *)
Shut == closed => ~dirty /\ \A t \in Threads : pc[t] = "pick" /\ ops[t] = NOps

(* A thread that is in a transfer has not made all of them.                *)
Working == \A t \in Threads : pc[t] # "pick" => ops[t] # NOps

(* The inductive invariant.                                                *)
TransfersInv ==
  /\ TypesInv /\ CacheInv /\ LP!LockInv
  /\ \A t \in Threads : Guards(t) /\ Seen(t)
  /\ BookInv /\ Shut /\ Working

(* The types of what belongs to one thread, for use in arithmetic.         *)
LEMMA ThreadTypes ==
  ASSUME TypesInv, NEW t \in Threads
  PROVE  /\ acct[t] \in Accounts \X Accounts /\ acct[t][1] \in Accounts /\ acct[t][2] \in Accounts
         /\ acct[t] = <<acct[t][1], acct[t][2]>>
         /\ bal[t] \in Balances \X Balances /\ bal[t][1] \in Balances /\ bal[t][2] \in Balances
         /\ delta[t] \in Balances /\ ops[t] \in 0..NOps /\ pc[t] \in Names
         /\ Order(t)[1] \in Accounts /\ Order(t)[2] \in Accounts
         /\ \/ Order(t)[1] = acct[t][1] /\ Order(t)[2] = acct[t][2]
            \/ Order(t)[1] = acct[t][2] /\ Order(t)[2] = acct[t][1]
<1>1. acct[t] \in Accounts \X Accounts /\ bal[t] \in Balances \X Balances
      /\ delta[t] \in Balances /\ ops[t] \in 0..NOps /\ pc[t] \in Names
  BY DEF TypesInv
<1>. QED BY <1>1 DEF Order

(* Balances are numbers up to the largest.                                 *)
LEMMA BalanceTypes == MaxBalance \in Nat /\ \A b : b \in Balances <=> b \in Int /\ 0 <= b /\ b <= MaxBalance
BY TransfersAssumption DEF Balances

(* Two threads inside a transfer share no account: both would own the chunk *)
(* in which the account's range begins.                                    *)
LEMMA Apart ==
  ASSUME TransfersInv, NEW t \in Threads, NEW u \in Threads, t # u, Inside(t), Inside(u)
  PROVE  /\ acct[t][1] \notin {acct[u][1], acct[u][2]}
         /\ acct[t][2] \notin {acct[u][1], acct[u][2]}
<1>1. ASSUME NEW v \in Threads, Inside(v), NEW a \in {acct[v][1], acct[v][2]}
      PROVE  a \in Accounts /\ AcctLock(v, a) \in held
  BY <1>1, ThreadTypes DEF TransfersInv, Guards
<1>2. ASSUME NEW a \in Accounts, AcctLock(t, a) \in held, AcctLock(u, a) \in held
      PROVE  FALSE
  <2>. DEFINE i == (ASize * a) \div LP!ChunkSz
              j == (ASize * a + ASize - 1) \div LP!ChunkSz
  <2>1. /\ AcctLock(t, a).thread = t /\ AcctLock(u, a).thread = u
        /\ LP!Chunks(AcctLock(t, a)) = i..j /\ LP!Chunks(AcctLock(u, a)) = i..j
    BY DEF AcctLock, LP!Chunks
  <2>2. ASize * a \in Nat /\ ASize * a + ASize - 1 \in Nat /\ ASize * a <= ASize * a + ASize - 1
    BY ArePositions
  <2>3. LP!ChunkSz \in Nat \ {0}
    BY LocksAre, LP!ChunkSzType
  <2>4. i <= j
    BY <2>2, <2>3, LP!DivMonotone
  <2>5. i \in Int /\ j \in Int
    BY <2>2, <2>3
  <2>6. i \in i..j
    BY <2>4, <2>5
  <2>. HIDE DEF i, j
  <2>7. owner[i] = AcctLock(t, a).thread /\ owner[i] = AcctLock(u, a).thread
    BY <1>2, <2>1, <2>6 DEF TransfersInv, LP!LockInv, LP!Owners
  <2>. QED BY <2>1, <2>7
<1>. QED BY <1>1, <1>2

(* Every step is a step of the region locks, or leaves them alone.         *)
LEMMA LocksStep ==
  ASSUME TransfersInv, [Next]_vars
  PROVE  LP!LockInv'
<1>1. SUFFICES [LP!Next]_(LP!vars)
  BY LocksAre, LP!NextLocks DEF TransfersInv
<1>2. ASSUME UNCHANGED lockVars
      PROVE  [LP!Next]_(LP!vars)
  BY <1>2 DEF lockVars, LP!vars
<1>. DEFINE L == {AcctLock(t, a) : t \in Threads, a \in Accounts}
<1>3. \A t \in Threads, i \in {1, 2} : AcctLock(t, Order(t)[i]) \in L
  BY ThreadTypes DEF TransfersInv
<1>. HIDE DEF L
<1>4. ASSUME NEW t \in Threads, NEW i \in {1, 2}, Acquire(t, i)
      PROVE  [LP!Next]_(LP!vars)
  <2>. DEFINE l == AcctLock(t, Order(t)[i])
  <2>1. l \in L
    BY <1>3
  <2>2. RegionLock!Lock(l) \/ RegionLock!Retry(t)
    BY <1>4 DEF Acquire
  <2>. HIDE DEF l
  <2>3. LP!Lock(l) \/ LP!Retry(t)
    BY <2>2, LockSteps
  <2>. QED BY <2>1, <2>3 DEF LP!Next, L
<1>5. ASSUME NEW t \in Threads, NEW i \in {1, 2}, Release(t, i)
      PROVE  [LP!Next]_(LP!vars)
  <2>. DEFINE l == AcctLock(t, Order(t)[i])
  <2>1. l \in L
    BY <1>3
  <2>2. RegionLock!Unlock(l)
    BY <1>5 DEF Release
  <2>. HIDE DEF l
  <2>3. LP!Unlock(l)
    BY <2>2, LockSteps
  <2>. QED BY <2>1, <2>3 DEF LP!Next, L
<1>6. ASSUME NEW t \in Threads, Wake(t)
      PROVE  [LP!Next]_(LP!vars)
  <2>1. LP!WakeUp(t)
    BY <1>6, LockSteps DEF Wake
  <2>. QED BY <2>1 DEF LP!Next
<1>7. ASSUME NEW t \in Threads, \/ Pick(t) \/ Withdraw(t) \/ Deposit(t) \/ Ledger(t)
                                \/ \E i \in {1, 2} : Read(t, i)
      PROVE  UNCHANGED lockVars
  BY <1>7 DEF Pick, Withdraw, Deposit, Ledger, Read
<1>8. Close \/ UNCHANGED vars => UNCHANGED lockVars
  BY DEF Close, vars
<1>. QED BY <1>2, <1>4, <1>5, <1>6, <1>7, <1>8 DEF Next, Step

-----------------------------------------------------------------------------
(* A step of u leaves the other threads as they are, releases no lock of   *)
(* theirs, and changes only balances that u has locked.                    *)
OnlyBy(u) ==
  /\ prog' = prog
  /\ \A t \in Threads \ {u} : /\ pc'[t] = pc[t] /\ acct'[t] = acct[t] /\ bal'[t] = bal[t]
                              /\ delta'[t] = delta[t] /\ want'[t] = want[t]
  /\ \A l \in held : l.thread # u => l \in held'
  /\ \A a \in Accounts : \/ Current(a)' = Current(a)
                         \/ Inside(u) /\ a \in {acct[u][1], acct[u][2]}

(* What holds for another thread goes on holding.                          *)
LEMMA OthersKeep ==
  ASSUME TransfersInv, NEW u \in Threads, OnlyBy(u), NEW t \in Threads \ {u}
  PROVE  Guards(t)' /\ Seen(t)'
<1>1. /\ pc'[t] = pc[t] /\ acct'[t] = acct[t] /\ bal'[t] = bal[t]
      /\ delta'[t] = delta[t] /\ want'[t] = want[t]
  BY DEF OnlyBy
<1>2. Guards(t) /\ Seen(t)
  BY DEF TransfersInv
<1>3. Order(t)' = Order(t)
  BY <1>1 DEF Order
<1>4. Guards(t)'
  <2>1. \A a : AcctLock(t, a)' = AcctLock(t, a) /\ AcctLock(t, a).thread = t
    BY DEF AcctLock
  <2>2. \A a : AcctLock(t, a) \in held => AcctLock(t, a) \in held'
    BY <2>1 DEF OnlyBy
  <2>. QED BY <1>1, <1>2, <1>3, <2>1, <2>2 DEF Guards, Inside
<1>5. acct[t][1] \in Accounts /\ acct[t][2] \in Accounts
  BY ThreadTypes DEF TransfersInv
<1>6. ASSUME Inside(t), NEW a \in {acct[t][1], acct[t][2]}
      PROVE  Current(a)' = Current(a)
  <2>1. a \in Accounts
    BY <1>5
  <2>2. Inside(u) => a \notin {acct[u][1], acct[u][2]}
    BY <1>6, Apart
  <2>. QED BY <2>1, <2>2 DEF OnlyBy
<1>7. Seen(t)'
  BY <1>1, <1>2, <1>6 DEF Seen, Inside, Current
<1>. QED BY <1>4, <1>7

(* An account whose balance, entry and transfers are unchanged stays covered. *)
LEMMA BookAtSame ==
  ASSUME NEW a \in Accounts, BookAt(a), Current(a)' = Current(a), book'[a] = book[a],
         \A t \in Threads : /\ Payer(t, a)' <=> Payer(t, a)
                            /\ Payee(t, a)' <=> Payee(t, a)
                            /\ Payer(t, a) \/ Payee(t, a) => delta'[t] = delta[t]
  PROVE  BookAt(a)'
BY DEF BookAt

(* A step that neither begins nor ends a transfer needs no entry.          *)
LEMMA BookKept ==
  ASSUME TransfersInv, NEW u \in Threads, OnlyBy(u), book' = book,
         \A a \in Accounts : Current(a)' = Current(a),
         pc[u] \notin {"write2", "ledger"}, pc'[u] \notin {"write2", "ledger"}
  PROVE  BookInv'
<1>1. CASE prog # "ftxblockchain"
  BY <1>1 DEF TransfersInv, BookInv, OnlyBy
<1>2. CASE prog = "ftxblockchain"
  <2>. SUFFICES ASSUME NEW a \in Accounts
                PROVE  BookAt(a)'
    BY <1>2 DEF OnlyBy, BookInv, Accounts
  <2>1. ASSUME NEW t \in Threads
        PROVE  /\ Payer(t, a)' <=> Payer(t, a)
               /\ Payee(t, a)' <=> Payee(t, a)
               /\ Payer(t, a) \/ Payee(t, a) => delta'[t] = delta[t]
    <3>1. CASE t = u
      BY <3>1 DEF Payer, Payee
    <3>2. CASE t # u
      BY <3>2 DEF Payer, Payee, OnlyBy
    <3>. QED BY <3>1, <3>2
  <2>2. BookAt(a)
    BY <1>2 DEF TransfersInv, BookInv
  <2>. QED BY <2>1, <2>2, BookAtSame
<1>. QED BY <1>1, <1>2

(* Every step of a thread leads from one name to the next.                 *)
LEMMA GoesOn ==
  ASSUME TypesInv, NEW t \in Threads, NEW s, pc[t] = s, Goto(t), prog' = prog
  PROVE  /\ pc' = [pc EXCEPT ![t] = Succ(s)] /\ pc'[t] = Succ(s)
         /\ pc' \in [Threads -> Names'] /\ \A u \in Threads \ {t} : pc'[u] = pc[u]
<1>1. pc \in [Threads -> Names] /\ s \in Names
  BY DEF TypesInv
<1>2. pc' = [pc EXCEPT ![t] = Succ(s)]
  BY <1>1, GotoSucc
<1>3. Succ(s) \in Names'
  BY <1>1, SuccIs DEF Names
<1>4. Names' = Names
  BY DEF Names
<1>. QED BY <1>1, <1>2, <1>3, <1>4

(* The pairs that assigning to one component gives.                        *)
LEMMA PairUpdate ==
  ASSUME NEW S, NEW b \in S \X S, NEW v \in S
  PROVE  [b EXCEPT ![1] = v] = <<v, b[2]>> /\ [b EXCEPT ![2] = v] = <<b[1], v>>
OBVIOUS

(* Threads run only before the database is closed.                         *)
LEMMA NotClosed ==
  ASSUME TransfersInv, NEW u \in Threads, Step(u)
  PROVE  ~closed
<1>1. closed => pc[u] = "pick" /\ ops[u] = NOps
  BY DEF TransfersInv, Shut
<1>. QED BY <1>1 DEF Step, Pick, Withdraw, Deposit, Ledger, Acquire, Read, Release, Goes

(* What is left to show of a step of u is about u, the cache and the book. *)
LEMMA Assemble ==
  ASSUME TransfersInv, Next, NEW u \in Threads, OnlyBy(u), ~closed',
         TypesInv', CacheInv', Guards(u)', Seen(u)', BookInv',
         \A t \in Threads \ {u} : ops'[t] = ops[t],
         pc'[u] # "pick" => ops'[u] = ops[u], pc[u] = "pick" => ops[u] # NOps
  PROVE  TransfersInv'
<1>1. \A t \in Threads : Guards(t)' /\ Seen(t)'
  BY OthersKeep
<1>2. LP!LockInv'
  BY LocksStep
<1>3. Shut'
  BY DEF Shut
<1>4. Working'
  <2>1. \A t \in Threads \ {u} : pc'[t] = pc[t]
    BY DEF OnlyBy
  <2>2. ops[u] # NOps
    BY DEF TransfersInv, Working
  <2>. QED BY <2>1, <2>2 DEF TransfersInv, Working
<1>. QED BY <1>1, <1>2, <1>3, <1>4 DEF TransfersInv

(* A thread picks its accounts, with no lock held.                         *)
LEMMA PickKeeps ==
  ASSUME TransfersInv, Next, NEW u \in Threads, Pick(u)
  PROVE  TransfersInv'
<1>1. ~closed /\ closed' = closed /\ prog' = prog /\ book' = book
      /\ UNCHANGED lockVars /\ UNCHANGED cacheVars /\ ops' = ops /\ ops[u] # NOps
  BY NotClosed DEF Pick, Step
<1>2. PICK pair \in Accounts \X Accounts : acct' = [acct EXCEPT ![u] = pair] /\ pair[1] # pair[2]
  BY DEF Pick, Picks
<1>3. pc[u] = "pick" /\ Goto(u)
  BY DEF Pick, Goes
<1>4. /\ pc' = [pc EXCEPT ![u] = Succ("pick")] /\ pc'[u] = "lock1"
      /\ pc' \in [Threads -> Names'] /\ \A t \in Threads \ {u} : pc'[t] = pc[t]
  BY <1>1, <1>3, GoesOn, SuccIs DEF TransfersInv
<1>5. CacheInv' /\ \A a \in Accounts : Current(a)' = Current(a)
  BY <1>1, CacheSame DEF TransfersInv
<1>6. OnlyBy(u)
  BY <1>1, <1>2, <1>4, <1>5 DEF Pick, OnlyBy, TransfersInv, TypesInv, lockVars
<1>7. TypesInv'
  <2>1. 0 \in Balances
    BY BalanceTypes
  <2>2. <<0, 0>> \in Balances \X Balances
    BY <2>1
  <2>. QED BY <1>1, <1>2, <1>4, <2>1, <2>2 DEF Pick, TransfersInv, TypesInv, Accounts, Balances
<1>8. Guards(u)'
  <2>1. acct'[u] = pair
    BY <1>2 DEF TransfersInv, TypesInv
  <2>2. want[u] = Nobody
    BY <1>3 DEF TransfersInv, Guards
  <2>. QED BY <1>1, <1>2, <1>4, <2>1, <2>2 DEF Guards, Inside, lockVars
<1>9. Seen(u)'
  BY <1>4 DEF Seen
<1>10. BookInv'
  BY <1>1, <1>3, <1>4, <1>5, <1>6, BookKept
<1>. QED BY <1>1, <1>5, <1>6, <1>7, <1>8, <1>9, <1>10, Assemble

(* Locking an account grants its lock, or makes the thread wait for it.    *)
LEMMA AcquireIs ==
  ASSUME TransfersInv, NEW u \in Threads, NEW i \in {1, 2}, Acquire(u, i),
         NEW l, l = AcctLock(u, Order(u)[i])
  PROVE  /\ l # Nobody /\ l.thread = u
         /\ \/ held' = held \cup {l} /\ want' = [want EXCEPT ![u] = Nobody] /\ Goto(u)
            \/ held' = held /\ want' = [want EXCEPT ![u] = l] /\ pc' = pc
<1>1. /\ pc[u] = IF i = 1 THEN "lock1" ELSE "lock2"
      /\ LP!Lock(l) \/ LP!Retry(u)
      /\ IF want'[u] = Nobody THEN Goto(u) ELSE pc' = pc
  BY LockSteps DEF Acquire, Goes
<1>2. Order(u)[i] \in Accounts
  BY ThreadTypes DEF TransfersInv
<1>3. l # Nobody /\ l.thread = u
  BY <1>2, LockIs DEF AcctLock
<1>4. want = [t \in Threads |-> want[t]]
  BY DEF TransfersInv, LP!LockInv, LP!TypeOK
<1>5. CASE LP!Lock(l)
  BY <1>1, <1>3, <1>4, <1>5 DEF LP!Lock, LP!Ready, LP!LockRegion
<1>6. CASE LP!Retry(u)
  <2>1. want[u] # Nobody
    BY <1>6 DEF LP!Retry
  <2>2. want[u] = l
    BY <1>1, <2>1 DEF TransfersInv, Guards
  <2>. QED BY <1>1, <1>3, <1>4, <1>6, <2>1, <2>2 DEF LP!Retry, LP!LockRegion
<1>. QED BY <1>1, <1>3, <1>5, <1>6

(* A thread locks an account, waits for it, or is granted it.              *)
LEMMA AcquireKeeps ==
  ASSUME TransfersInv, Next, NEW u \in Threads, NEW i \in {1, 2}, Acquire(u, i)
  PROVE  TransfersInv'
<1>. DEFINE l == AcctLock(u, Order(u)[i])
<1>1. ~closed /\ closed' = closed /\ prog' = prog /\ book' = book /\ acct' = acct
      /\ bal' = bal /\ delta' = delta /\ ops' = ops /\ UNCHANGED cacheVars
      /\ pc[u] = IF i = 1 THEN "lock1" ELSE "lock2"
  BY NotClosed DEF Acquire, Step, Goes
<1>2. /\ l # Nobody /\ l.thread = u
      /\ \/ held' = held \cup {l} /\ want' = [want EXCEPT ![u] = Nobody] /\ Goto(u)
         \/ held' = held /\ want' = [want EXCEPT ![u] = l] /\ pc' = pc
  BY AcquireIs
<1>3. CacheInv' /\ \A a \in Accounts : Current(a)' = Current(a)
  BY <1>1, CacheSame DEF TransfersInv
<1>4. /\ pc' \in [Threads -> Names'] /\ \A t \in Threads \ {u} : pc'[t] = pc[t]
      /\ \/ /\ pc'[u] = (IF i = 1 THEN "lock2" ELSE "read1")
            /\ held' = held \cup {l} /\ want' = [want EXCEPT ![u] = Nobody]
         \/ pc'[u] = pc[u] /\ held' = held /\ want' = [want EXCEPT ![u] = l]
  <2>1. ASSUME pc' = pc
        PROVE  pc' \in [Threads -> Names']
    <3>1. pc' \in [Threads -> Names'] /\ pc'[u] = pc[u]
      BY <1>1, <2>1 DEF TransfersInv, TypesInv, Names
    <3>. QED BY <2>1, <3>1
  <2>2. CASE /\ held' = held \cup {l} /\ want' = [want EXCEPT ![u] = Nobody] /\ Goto(u)
    <3>1. /\ pc' \in [Threads -> Names'] /\ \A t \in Threads \ {u} : pc'[t] = pc[t]
          /\ pc'[u] = Succ(pc[u])
      BY <1>1, <2>2, GoesOn DEF TransfersInv
    <3>2. pc'[u] = IF i = 1 THEN "lock2" ELSE "read1"
      BY <1>1, <3>1, SuccIs
    <3>. QED BY <2>2, <3>1, <3>2
  <2>3. CASE held' = held /\ want' = [want EXCEPT ![u] = l] /\ pc' = pc
    <3>. HIDE DEF l
    <3>1. /\ pc' \in [Threads -> Names'] /\ \A t \in Threads \ {u} : pc'[t] = pc[t]
          /\ pc'[u] = pc[u]
      BY <2>1, <2>3
    <3>. QED BY <2>3, <3>1
  <2>. QED BY <1>2, <2>2, <2>3
<1>5. want = [t \in Threads |-> want[t]]
  BY DEF TransfersInv, LP!LockInv, LP!TypeOK
<1>6. l = AcctLock(u, Order(u)[i])
  OBVIOUS
<1>. HIDE DEF l
<1>7. OnlyBy(u)
  BY <1>1, <1>3, <1>4, <1>5 DEF OnlyBy
<1>8. TypesInv'
  BY <1>1, <1>4 DEF TransfersInv, TypesInv, Accounts, Balances
<1>9. Guards(u)'
  <2>1. Guards(u)
    BY DEF TransfersInv
  <2>2. /\ AcctLock(u, Order(u)[1])' = AcctLock(u, Order(u)[1])
        /\ AcctLock(u, Order(u)[2])' = AcctLock(u, Order(u)[2])
    BY <1>1 DEF AcctLock, Order
  <2>. QED BY <1>1, <1>2, <1>4, <1>5, <1>6, <2>1, <2>2 DEF Guards, Inside
<1>10. Seen(u)'
  BY <1>1, <1>4 DEF Seen
<1>11. BookInv'
  BY <1>1, <1>3, <1>4, <1>7, BookKept
<1>. QED BY <1>1, <1>3, <1>7, <1>8, <1>9, <1>10, <1>11, Assemble

(* A thread reads a balance, perhaps evicting another window.              *)
LEMMA ReadKeeps ==
  ASSUME TransfersInv, Next, NEW u \in Threads, NEW i \in {1, 2}, Read(u, i)
  PROVE  TransfersInv'
<1>. DEFINE v == Filled(acct[u][i])[acct[u][i]]
<1>1. ~closed /\ closed' = closed /\ prog' = prog /\ book' = book /\ acct' = acct
      /\ bal' = [bal EXCEPT ![u][i] = v] /\ delta' = delta /\ ops' = ops
      /\ UNCHANGED lockVars /\ Goto(u) /\ Pread(acct[u][i])
      /\ pc[u] = IF i = 1 THEN "read1" ELSE "read2"
  <2>1. ~closed
    BY NotClosed DEF Step
  <2>2. closed' = closed /\ prog' = prog /\ book' = book /\ acct' = acct
        /\ delta' = delta /\ ops' = ops /\ UNCHANGED lockVars /\ Goto(u)
    BY DEF Read
  <2>3. bal' = [bal EXCEPT ![u][i] = v] /\ Pread(acct[u][i])
    BY DEF Read
  <2>4. pc[u] = IF i = 1 THEN "read1" ELSE "read2"
    BY DEF Read, Goes
  <2>. HIDE DEF v
  <2>. QED BY <2>1, <2>2, <2>3, <2>4
<1>2. acct[u][i] \in Accounts
  BY ThreadTypes DEF TransfersInv
<1>3. CacheInv' /\ \A a \in Accounts : Current(a)' = Current(a)
  BY <1>1, <1>2, PreadIs DEF TransfersInv
<1>4. v = Current(acct[u][i]) /\ v \in Balances
  BY <1>2, FilledIs DEF TransfersInv
<1>. HIDE DEF v
<1>5. /\ pc' \in [Threads -> Names'] /\ \A t \in Threads \ {u} : pc'[t] = pc[t]
      /\ pc'[u] = IF i = 1 THEN "read2" ELSE "write1"
  BY <1>1, GoesOn, SuccIs DEF TransfersInv
<1>6. /\ bal' \in [Threads -> Balances \X Balances]
      /\ \A t \in Threads \ {u} : bal'[t] = bal[t]
      /\ bal'[u][i] = v /\ \A j \in {1, 2} \ {i} : bal'[u][j] = bal[u][j]
  <2>1. bal \in [Threads -> Balances \X Balances]
    BY DEF TransfersInv, TypesInv
  <2>2. /\ [bal[u] EXCEPT ![1] = v] = <<v, bal[u][2]>>
        /\ [bal[u] EXCEPT ![2] = v] = <<bal[u][1], v>>
    BY <1>4, <2>1, PairUpdate
  <2>3. [bal[u] EXCEPT ![i] = v] \in Balances \X Balances
    BY <1>4, <2>1, <2>2
  <2>4. bal' = [bal EXCEPT ![u] = [bal[u] EXCEPT ![i] = v]]
    BY <1>1, <2>1
  <2>. QED BY <2>1, <2>2, <2>3, <2>4
<1>7. OnlyBy(u)
  BY <1>1, <1>3, <1>5, <1>6 DEF OnlyBy, lockVars
<1>8. TypesInv'
  BY <1>1, <1>5, <1>6 DEF TransfersInv, TypesInv, Accounts, Balances
<1>9. Guards(u)'
  <2>1. Guards(u)
    BY DEF TransfersInv
  <2>2. /\ AcctLock(u, Order(u)[1])' = AcctLock(u, Order(u)[1])
        /\ AcctLock(u, Order(u)[2])' = AcctLock(u, Order(u)[2])
    BY <1>1 DEF AcctLock, Order
  <2>. QED BY <1>1, <1>5, <2>1, <2>2 DEF Guards, Inside, lockVars
<1>10. Seen(u)'
  <2>1. Seen(u)
    BY DEF TransfersInv
  <2>2. acct[u][1] \in Accounts /\ acct[u][2] \in Accounts
    BY ThreadTypes DEF TransfersInv
  <2>3. \A a \in {acct[u][1], acct[u][2]} : Current(a)' = Current(a)
    BY <1>3, <2>2
  <2>. QED BY <1>1, <1>4, <1>5, <1>6, <2>1, <2>3 DEF Seen, Current
<1>11. BookInv'
  BY <1>1, <1>3, <1>5, <1>7, BookKept
<1>. QED BY <1>1, <1>3, <1>7, <1>8, <1>9, <1>10, <1>11, Assemble

(* What a transfer moves is there to be moved, and fits.                   *)
LEMMA DeltaIs ==
  ASSUME NEW x \in Balances, NEW y \in Balances, NEW m \in Amounts,
         NEW d, d = Promise!Delta(x, y, m)
  PROVE  d \in Balances /\ x - d \in Balances /\ y + d \in Balances
<1>1. m \in Nat
  BY TransfersAssumption
<1>. QED BY <1>1, BalanceTypes DEF Promise!Delta, Promise!Lesser

(* No other thread is in the middle of a transfer on the accounts of u.    *)
LEMMA NoOther ==
  ASSUME TransfersInv, NEW u \in Threads, Inside(u), NEW a \in {acct[u][1], acct[u][2]},
         NEW t \in Threads \ {u}
  PROVE  ~Payer(t, a) /\ ~Payee(t, a)
<1>1. Inside(t) => acct[t][1] # a /\ acct[t][2] # a
  BY Apart
<1>. QED BY <1>1 DEF Payer, Payee, Inside

(* A thread that releases nothing keeps its locks.                         *)
LEMMA GuardsKept ==
  ASSUME TransfersInv, NEW u \in Threads, acct' = acct, held' = held, want' = want,
         Inside(u), Inside(u)' \/ pc'[u] = "unlock1"
  PROVE  Guards(u)'
<1>1. Guards(u)
  BY DEF TransfersInv
<1>2. /\ AcctLock(u, Order(u)[1])' = AcctLock(u, Order(u)[1])
      /\ AcctLock(u, Order(u)[2])' = AcctLock(u, Order(u)[2])
  BY DEF AcctLock, Order
<1>. QED BY <1>1, <1>2 DEF Guards, Inside

(* A thread writes the first balance: the ledger is behind on one account. *)
LEMMA WithdrawKeeps ==
  ASSUME TransfersInv, Next, NEW u \in Threads, Withdraw(u)
  PROVE  TransfersInv'
<1>1. ~closed
  BY NotClosed DEF Step
<1>2. closed' = closed /\ prog' = prog /\ book' = book /\ acct' = acct /\ bal' = bal
      /\ ops' = ops /\ UNCHANGED lockVars /\ Goto(u) /\ pc[u] = "write1"
  BY DEF Withdraw, Goes
<1>3. PICK d : /\ \E m \in Amounts : d = Promise!Delta(bal[u][1], bal[u][2], m)
               /\ delta' = [delta EXCEPT ![u] = d]
               /\ Pwrite(acct[u][1], bal[u][1] - d)
  BY DEF Withdraw
<1>4. /\ acct[u][1] \in Accounts /\ acct[u][2] \in Accounts
      /\ bal[u][1] \in Balances /\ bal[u][2] \in Balances
  BY ThreadTypes DEF TransfersInv
<1>5. d \in Balances /\ bal[u][1] - d \in Balances /\ bal[u][2] + d \in Balances
  BY <1>3, <1>4, DeltaIs
<1>6. /\ CacheInv'
      /\ \A a \in Accounts :
           Current(a)' = IF a = acct[u][1] THEN bal[u][1] - d ELSE Current(a)
  BY <1>3, <1>4, <1>5, PwriteIs DEF TransfersInv
<1>7. /\ pc' \in [Threads -> Names'] /\ \A t \in Threads \ {u} : pc'[t] = pc[t]
      /\ pc'[u] = "write2"
  BY <1>2, GoesOn, SuccIs DEF TransfersInv
<1>8. delta' \in [Threads -> Balances] /\ delta'[u] = d
      /\ \A t \in Threads \ {u} : delta'[t] = delta[t]
  BY <1>3, <1>5 DEF TransfersInv, TypesInv
<1>9. Inside(u)
  BY <1>2 DEF Inside
<1>10. OnlyBy(u)
  BY <1>2, <1>6, <1>7, <1>8, <1>9 DEF OnlyBy, lockVars
<1>11. TypesInv'
  BY <1>2, <1>7, <1>8 DEF TransfersInv, TypesInv, Accounts, Balances
<1>12. Guards(u)'
  BY <1>2, <1>7, <1>9, GuardsKept DEF Inside, lockVars
<1>13. acct[u][1] # acct[u][2] /\ bal[u][1] = Current(acct[u][1])
       /\ bal[u][2] = Current(acct[u][2])
  BY <1>2 DEF TransfersInv, Guards, Seen
<1>14. Seen(u)'
  <2>1. bal[u][2] + d <= MaxBalance
    BY <1>5, BalanceTypes
  <2>2. \A a \in {acct[u][2]} : Current(a)' = Current(a)
    BY <1>4, <1>6, <1>13
  <2>. QED BY <1>2, <1>7, <1>8, <1>13, <2>1, <2>2 DEF Seen, Current
<1>15. BookInv'
  <2>1. CASE prog # "ftxblockchain"
    BY <1>2, <2>1 DEF TransfersInv, BookInv
  <2>2. CASE prog = "ftxblockchain"
    <3>. SUFFICES ASSUME NEW a \in Accounts
                  PROVE  BookAt(a)'
      BY <1>2, <2>2 DEF BookInv, Accounts
    <3>1. BookAt(a)
      BY <2>2 DEF TransfersInv, BookInv
    <3>2. \A t \in Threads \ {u} : /\ Payer(t, a)' <=> Payer(t, a)
                                   /\ Payee(t, a)' <=> Payee(t, a)
      BY <1>2, <1>7 DEF Payer, Payee
    <3>3. ~Payer(u, a) /\ ~Payee(u, a) /\ ~Payee(u, a)'
      BY <1>2, <1>7 DEF Payer, Payee
    <3>4. CASE a = acct[u][1]
      <4>1. \A t \in Threads \ {u} : ~Payer(t, a) /\ ~Payee(t, a)
        BY <1>9, <3>4, NoOther
      <4>2. book[a] = Current(a)
        BY <3>1, <3>3, <4>1 DEF BookAt
      <4>3. Payer(u, a)'
        BY <1>2, <1>7, <3>4 DEF Payer
      <4>4. book'[a] = Current(a)' + delta'[u]
        BY <1>2, <1>4, <1>5, <1>6, <1>8, <1>13, <3>4, <4>2, BalanceTypes
      <4>. QED BY <3>2, <3>3, <4>1, <4>3, <4>4 DEF BookAt
    <3>5. CASE a # acct[u][1]
      <4>1. ~Payer(u, a)'
        BY <1>2, <3>5 DEF Payer
      <4>2. \A t \in Threads : /\ Payer(t, a)' <=> Payer(t, a)
                               /\ Payee(t, a)' <=> Payee(t, a)
                               /\ Payer(t, a) \/ Payee(t, a) => delta'[t] = delta[t]
        BY <1>8, <3>2, <3>3, <4>1
      <4>3. Current(a)' = Current(a) /\ book'[a] = book[a]
        BY <1>2, <1>6, <3>5
      <4>. QED BY <3>1, <4>2, <4>3, BookAtSame
    <3>. QED BY <3>4, <3>5
  <2>. QED BY <2>1, <2>2
<1>. QED BY <1>1, <1>2, <1>6, <1>10, <1>11, <1>12, <1>14, <1>15, Assemble

(* A thread writes the second balance: the ledger is behind on two.        *)
LEMMA DepositKeeps ==
  ASSUME TransfersInv, Next, NEW u \in Threads, Deposit(u)
  PROVE  TransfersInv'
<1>. DEFINE d == delta[u]
            v == bal[u][2] + d
<1>1. ~closed
  BY NotClosed DEF Step
<1>2. closed' = closed /\ prog' = prog /\ book' = book /\ acct' = acct /\ bal' = bal
      /\ delta' = delta /\ ops' = ops /\ UNCHANGED lockVars /\ Goto(u) /\ pc[u] = "write2"
      /\ Pwrite(acct[u][2], v)
  BY DEF Deposit, Goes
<1>3. /\ acct[u][1] \in Accounts /\ acct[u][2] \in Accounts
      /\ bal[u][2] \in Balances /\ d \in Balances
  BY ThreadTypes DEF TransfersInv
<1>4. acct[u][1] # acct[u][2] /\ bal[u][2] = Current(acct[u][2]) /\ v <= MaxBalance
  BY <1>2 DEF TransfersInv, Guards, Seen
<1>5. v \in Balances /\ v - d = bal[u][2]
  BY <1>3, <1>4, BalanceTypes
<1>6. /\ CacheInv'
      /\ \A a \in Accounts : Current(a)' = IF a = acct[u][2] THEN v ELSE Current(a)
  BY <1>2, <1>3, <1>5, PwriteIs DEF TransfersInv
<1>7. /\ pc' \in [Threads -> Names'] /\ \A t \in Threads \ {u} : pc'[t] = pc[t]
      /\ pc'[u] = IF prog = "ftxblockchain" THEN "ledger" ELSE "unlock2"
  BY <1>2, GoesOn, SuccIs DEF TransfersInv
<1>8. Inside(u)
  BY <1>2 DEF Inside
<1>9. OnlyBy(u)
  BY <1>2, <1>6, <1>7, <1>8 DEF OnlyBy, lockVars
<1>10. TypesInv'
  BY <1>2, <1>7 DEF TransfersInv, TypesInv, Accounts, Balances
<1>11. Guards(u)'
  BY <1>2, <1>7, <1>8, GuardsKept DEF Inside, lockVars
<1>12. Seen(u)'
  <2>1. \A a \in {acct[u][2]} : Current(a)' = v
    BY <1>3, <1>6
  <2>. QED BY <1>2, <1>7, <2>1 DEF Seen, Current
<1>13. BookInv'
  <2>1. CASE prog # "ftxblockchain"
    BY <1>2, <2>1 DEF TransfersInv, BookInv
  <2>2. CASE prog = "ftxblockchain"
    <3>. SUFFICES ASSUME NEW a \in Accounts
                  PROVE  BookAt(a)'
      BY <1>2, <2>2 DEF BookInv, Accounts
    <3>1. BookAt(a)
      BY <2>2 DEF TransfersInv, BookInv
    <3>2. \A t \in Threads \ {u} : /\ Payer(t, a)' <=> Payer(t, a)
                                   /\ Payee(t, a)' <=> Payee(t, a)
      BY <1>2, <1>7 DEF Payer, Payee
    <3>3. (Payer(u, a)' <=> Payer(u, a)) /\ ~Payee(u, a)
      BY <1>2, <1>7, <2>2 DEF Payer, Payee
    <3>4. CASE a = acct[u][2]
      <4>1. \A t \in Threads \ {u} : ~Payer(t, a) /\ ~Payee(t, a)
        BY <1>8, <3>4, NoOther
      <4>2. ~Payer(u, a)
        BY <1>4, <3>4 DEF Payer
      <4>3. book[a] = Current(a)
        BY <3>1, <3>3, <4>1, <4>2 DEF BookAt
      <4>4. Payee(u, a)'
        BY <1>2, <1>7, <2>2, <3>4 DEF Payee
      <4>5. book'[a] = Current(a)' - delta'[u]
        BY <1>2, <1>4, <1>5, <1>6, <3>4, <4>3
      <4>. QED BY <3>2, <3>3, <4>1, <4>2, <4>4, <4>5 DEF BookAt
    <3>5. CASE a # acct[u][2]
      <4>1. ~Payee(u, a)'
        BY <1>2, <3>5 DEF Payee
      <4>2. \A t \in Threads : /\ Payer(t, a)' <=> Payer(t, a)
                               /\ Payee(t, a)' <=> Payee(t, a)
                               /\ Payer(t, a) \/ Payee(t, a) => delta'[t] = delta[t]
        BY <1>2, <3>2, <3>3, <4>1
      <4>3. Current(a)' = Current(a) /\ book'[a] = book[a]
        BY <1>2, <1>6, <3>5
      <4>. QED BY <3>1, <4>2, <4>3, BookAtSame
    <3>. QED BY <3>4, <3>5
  <2>. QED BY <2>1, <2>2
<1>. QED BY <1>1, <1>2, <1>6, <1>9, <1>10, <1>11, <1>12, <1>13, Assemble

(* A thread writes both entries: the ledger has caught up on its accounts. *)
LEMMA LedgerKeeps ==
  ASSUME TransfersInv, Next, NEW u \in Threads, Ledger(u)
  PROVE  TransfersInv'
<1>. DEFINE d == delta[u]
            a1 == acct[u][1]
            a2 == acct[u][2]
<1>1. ~closed
  BY NotClosed DEF Step
<1>2. closed' = closed /\ prog' = prog /\ acct' = acct /\ bal' = bal
      /\ delta' = delta /\ ops' = ops /\ UNCHANGED lockVars /\ UNCHANGED cacheVars
      /\ Goto(u) /\ pc[u] = "ledger"
  BY DEF Ledger, Goes
<1>3. a1 \in Accounts /\ a2 \in Accounts /\ a1 # a2 /\ d \in Balances
  BY <1>2, ThreadTypes DEF TransfersInv, Guards
<1>4. /\ book \in [Accounts -> Int] /\ book' \in [Accounts -> Int]
      /\ book'[a1] = book[a1] - d /\ book'[a2] = book[a2] + d
      /\ \A a \in Accounts \ {a1, a2} : book'[a] = book[a]
  <2>1. book' = [book EXCEPT ![a1] = @ - d, ![a2] = @ + d]
    BY DEF Ledger
  <2>2. book \in [Accounts -> Int] /\ d \in Int
    BY <1>3, BalanceTypes DEF TransfersInv, TypesInv
  <2>. HIDE DEF a1, a2, d
  <2>. QED BY <1>3, <2>1, <2>2
<1>5. CacheInv' /\ \A a \in Accounts : Current(a)' = Current(a)
  BY <1>2, CacheSame DEF TransfersInv
<1>6. /\ pc' \in [Threads -> Names'] /\ \A t \in Threads \ {u} : pc'[t] = pc[t]
      /\ pc'[u] = "unlock2"
  BY <1>2, GoesOn, SuccIs DEF TransfersInv
<1>7. Inside(u)
  BY <1>2 DEF Inside
<1>8. OnlyBy(u)
  BY <1>2, <1>5, <1>6 DEF OnlyBy, lockVars
<1>9. TypesInv'
  BY <1>2, <1>4, <1>6 DEF TransfersInv, TypesInv, Accounts, Balances
<1>10. Guards(u)'
  BY <1>2, <1>6, <1>7, GuardsKept DEF Inside, lockVars
<1>11. Seen(u)'
  BY <1>6 DEF Seen
<1>12. prog = "ftxblockchain"
  BY <1>2 DEF TransfersInv, TypesInv, Names
<1>13. BookInv'
  <2>. SUFFICES ASSUME NEW a \in Accounts
                PROVE  BookAt(a)'
    BY <1>2, <1>12 DEF BookInv, Accounts
  <2>1. BookAt(a)
    BY <1>12 DEF TransfersInv, BookInv
  <2>2. \A t \in Threads \ {u} : /\ Payer(t, a)' <=> Payer(t, a)
                                 /\ Payee(t, a)' <=> Payee(t, a)
    BY <1>2, <1>6 DEF Payer, Payee
  <2>3. ~Payer(u, a)' /\ ~Payee(u, a)'
    BY <1>6 DEF Payer, Payee
  <2>4. CASE a \in {a1, a2}
    <3>1. \A t \in Threads \ {u} : ~Payer(t, a) /\ ~Payee(t, a)
      BY <1>7, <2>4, NoOther
    <3>2. /\ a = a1 => book[a] = Current(a) + d
          /\ a = a2 => book[a] = Current(a) - d
      BY <1>2, <2>1 DEF BookAt, Payer, Payee
    <3>3. Current(a) \in Int /\ d \in Int
      BY <1>3, FilledIs, BalanceTypes DEF TransfersInv
    <3>4. book'[a] = Current(a)
      <4>. HIDE DEF a1, a2, d
      <4>. QED BY <1>3, <1>4, <2>4, <3>2, <3>3
    <3>. QED BY <1>5, <2>2, <2>3, <3>1, <3>4 DEF BookAt
  <2>5. CASE a \notin {a1, a2}
    <3>1. ~Payer(u, a) /\ ~Payee(u, a)
      BY <2>5 DEF Payer, Payee
    <3>2. \A t \in Threads : /\ Payer(t, a)' <=> Payer(t, a)
                             /\ Payee(t, a)' <=> Payee(t, a)
                             /\ Payer(t, a) \/ Payee(t, a) => delta'[t] = delta[t]
      BY <1>2, <2>2, <2>3, <3>1
    <3>3. book'[a] = book[a]
      BY <1>4, <2>5
    <3>. QED BY <1>5, <2>1, <3>2, <3>3, BookAtSame
  <2>. QED BY <2>4, <2>5
<1>. QED BY <1>1, <1>2, <1>5, <1>8, <1>9, <1>10, <1>11, <1>13, Assemble

(* Different accounts have different locks.                                *)
LEMMA LocksDiffer ==
  ASSUME NEW a \in Accounts, NEW b \in Accounts, a # b, NEW t
  PROVE  AcctLock(t, a) # AcctLock(t, b)
<1>1. ASSUME NEW x \in Accounts, NEW y \in Accounts, x < y
      PROVE  ASize * x < ASize * y
  <2>1. x \in Nat /\ y \in Nat /\ y - x \in Nat \ {0} /\ y = x + (y - x) /\ ASize \in Nat \ {0}
    BY <1>1, ArePositions
  <2>. DEFINE k == y - x
  <2>2. ASize * k > 0
    <3>. HIDE DEF k
    <3>1. k \in Nat \ {0}
      BY <2>1 DEF k
    <3>. QED BY <2>1, <3>1
  <2>3. ASize * (x + k) = ASize * x + ASize * k
    <3>. HIDE DEF k
    <3>1. k \in Nat \ {0}
      BY <2>1 DEF k
    <3>. QED BY <2>1, <3>1
  <2>4. y = x + k /\ ASize * x \in Int /\ ASize * k \in Int
    BY <2>1
  <2>. HIDE DEF k
  <2>. QED BY <2>2, <2>3, <2>4
<1>2. a < b \/ b < a
  BY ArePositions
<1>3. ASize * a \in Nat /\ ASize * b \in Nat
  BY ArePositions
<1>4. ASize * a # ASize * b
  BY <1>1, <1>2, <1>3
<1>. QED BY <1>4 DEF AcctLock

(* A thread unlocks an account, the other one staying locked or neither.   *)
LEMMA ReleaseKeeps ==
  ASSUME TransfersInv, Next, NEW u \in Threads, NEW i \in {1, 2}, Release(u, i)
  PROVE  TransfersInv'
<1>. DEFINE l == AcctLock(u, Order(u)[i])
<1>1. ~closed
  BY NotClosed DEF Step
<1>2. closed' = closed /\ prog' = prog /\ book' = book /\ acct' = acct /\ bal' = bal
      /\ delta' = delta /\ UNCHANGED cacheVars /\ Goto(u)
      /\ pc[u] = IF i = 1 THEN "unlock1" ELSE "unlock2"
  BY DEF Release, Goes
<1>3. LP!Unlock(l)
  <2>1. RegionLock!Unlock(l)
    BY DEF Release
  <2>. HIDE DEF l
  <2>. QED BY <2>1, LockSteps
<1>4. l.thread = u
  BY DEF AcctLock
<1>5. want' = want /\ (held' = held \ {l} \/ held' = held)
  <2>. HIDE DEF l
  <2>. QED BY <1>3 DEF LP!Unlock, LP!Stop
<1>6. CacheInv' /\ \A a \in Accounts : Current(a)' = Current(a)
  BY <1>2, CacheSame DEF TransfersInv
<1>7. /\ pc' \in [Threads -> Names'] /\ \A t \in Threads \ {u} : pc'[t] = pc[t]
      /\ pc'[u] = IF i = 1 THEN "pick" ELSE "unlock1"
  BY <1>2, GoesOn, SuccIs DEF TransfersInv
<1>8. OnlyBy(u)
  <2>. HIDE DEF l
  <2>. QED BY <1>2, <1>4, <1>5, <1>6, <1>7 DEF OnlyBy
<1>9. /\ ops' \in [Threads -> 0..NOps] /\ \A t \in Threads \ {u} : ops'[t] = ops[t]
      /\ i = 2 => ops' = ops
  <2>1. ops \in [Threads -> 0..NOps]
    BY DEF TransfersInv, TypesInv
  <2>2. ops[u] # NOps
    BY <1>2 DEF TransfersInv, Working
  <2>3. ops[u] + 1 \in 0..NOps
    BY <2>1, <2>2, TransfersAssumption
  <2>4. ops' = IF i = 1 THEN [ops EXCEPT ![u] = @ + 1] ELSE ops
    BY DEF Release
  <2>. QED BY <2>1, <2>3, <2>4
<1>10. TypesInv'
  BY <1>2, <1>7, <1>9 DEF TransfersInv, TypesInv, Accounts, Balances
<1>11. Guards(u)'
  <2>1. Guards(u) /\ want[u] = Nobody
    BY <1>2 DEF TransfersInv, Guards
  <2>2. /\ AcctLock(u, Order(u)[1])' = AcctLock(u, Order(u)[1])
        /\ AcctLock(u, Order(u)[2])' = AcctLock(u, Order(u)[2])
    BY <1>2 DEF AcctLock, Order
  <2>3. Order(u)[1] # Order(u)[2] /\ Order(u)[1] \in Accounts /\ Order(u)[2] \in Accounts
    BY <1>2, <2>1, ThreadTypes DEF TransfersInv, Guards
  <2>4. AcctLock(u, Order(u)[1]) # AcctLock(u, Order(u)[2])
    BY <2>3, LocksDiffer
  <2>5. i = 2 => AcctLock(u, Order(u)[1]) \in held'
    BY <1>2, <1>5, <2>1, <2>4 DEF Guards, Inside
  <2>. QED BY <1>2, <1>5, <1>7, <2>1, <2>2, <2>5 DEF Guards, Inside
<1>12. Seen(u)'
  BY <1>7 DEF Seen
<1>13. BookInv'
  BY <1>2, <1>6, <1>7, <1>8, BookKept
<1>. QED BY <1>1, <1>2, <1>6, <1>7, <1>8, <1>9, <1>10, <1>11, <1>12, <1>13, Assemble

(* Nothing but the lock table and who sleeps on it changes.                *)
LEMMA IdleKeeps ==
  ASSUME TransfersInv, [Next]_vars,
         UNCHANGED <<prog, cacheVars, book, pc, acct, bal, delta, ops, closed, held, want>>
  PROVE  TransfersInv'
<1>1. CacheInv' /\ \A a \in Accounts : Current(a)' = Current(a)
  BY CacheSame DEF TransfersInv
<1>2. LP!LockInv'
  BY LocksStep
<1>3. TypesInv'
  BY DEF TransfersInv, TypesInv, Names, Accounts, Balances
<1>4. ASSUME NEW t \in Threads
      PROVE  Guards(t)' /\ Seen(t)'
  <2>1. Guards(t) /\ Seen(t)
    BY DEF TransfersInv
  <2>2. \A a \in {acct[t][1], acct[t][2]} : Current(a)' = Current(a)
    BY <1>1, ThreadTypes DEF TransfersInv
  <2>3. Order(t)' = Order(t) /\ \A a : AcctLock(t, a)' = AcctLock(t, a)
    BY DEF Order, AcctLock
  <2>4. Guards(t)'
    BY <2>1, <2>3 DEF Guards, Inside
  <2>5. Seen(t)'
    BY <2>1, <2>2 DEF Seen, Current
  <2>. QED BY <2>4, <2>5
<1>5. BookInv'
  <2>1. BookInv
    BY DEF TransfersInv
  <2>2. ASSUME NEW a \in Accounts, BookAt(a)
        PROVE  BookAt(a)'
    BY <1>1, <2>2, BookAtSame DEF Payer, Payee
  <2>. QED BY <2>1, <2>2 DEF BookInv, Accounts
<1>6. Shut' /\ Working'
  BY DEF TransfersInv, Shut, Working, cacheVars
<1>. QED BY <1>1, <1>2, <1>3, <1>4, <1>5, <1>6 DEF TransfersInv

(* A thread wakes up.                                                      *)
LEMMA WakeKeeps ==
  ASSUME TransfersInv, Next, NEW u \in Threads, Wake(u)
  PROVE  TransfersInv'
<1>1. LP!WakeUp(u)
  BY LockSteps DEF Wake
<1>2. UNCHANGED <<held, want>>
  BY <1>1 DEF LP!WakeUp
<1>. QED BY <1>2, IdleKeeps DEF Wake

(* ~ftx_db flushes the cache; no thread is in a transfer.                  *)
LEMMA CloseKeeps ==
  ASSUME TransfersInv, Next, Close
  PROVE  TransfersInv'
<1>1. /\ file' = Flushed /\ dirty' = FALSE /\ closed' = TRUE
      /\ UNCHANGED <<prog, lockVars, cbuf, book, pc, acct, bal, delta, ops>>
      /\ \A t \in Threads : pc[t] = "pick" /\ ops[t] = NOps
  BY DEF Close, Joined
<1>2. Flushed \in [Accounts -> Balances] /\ \A a \in Accounts : Flushed[a] = Current(a)
  BY FlushedIs DEF TransfersInv
<1>3. \A a \in Accounts : Current(a)' = Current(a)
  BY <1>1, <1>2 DEF Current
<1>4. CacheInv'
  <2>1. PICK c \in Accounts : cbuf \in [Window(c) -> Balances]
    BY DEF TransfersInv, CacheInv
  <2>2. \A a \in DOMAIN cbuf : a \in Accounts /\ cbuf[a] = Flushed[a]
    <3>1. \A a \in DOMAIN cbuf : a \in Accounts /\ cbuf[a] = Current(a)
      BY <2>1 DEF Window, Current
    <3>. QED BY <1>2, <3>1
  <2>. QED BY <1>1, <1>2, <2>1, <2>2 DEF CacheInv, Window, Accounts, Balances
<1>5. LP!LockInv'
  BY LocksStep
<1>6. TypesInv'
  BY <1>1 DEF TransfersInv, TypesInv, Names, Accounts, Balances
<1>7. ASSUME NEW t \in Threads
      PROVE  Guards(t)' /\ Seen(t)'
  <2>1. Guards(t) /\ pc[t] = "pick"
    BY <1>1 DEF TransfersInv
  <2>. QED BY <1>1, <2>1 DEF Guards, Seen, Inside, lockVars
<1>8. BookInv'
  <2>1. BookInv
    BY DEF TransfersInv
  <2>2. ASSUME NEW a \in Accounts, BookAt(a)
        PROVE  BookAt(a)'
    BY <1>1, <1>3, <2>2, BookAtSame DEF Payer, Payee
  <2>. QED BY <1>1, <2>1, <2>2 DEF BookInv, Accounts
<1>9. Shut' /\ Working'
  BY <1>1 DEF Shut, Working
<1>. QED BY <1>4, <1>5, <1>6, <1>7, <1>8, <1>9 DEF TransfersInv

(* Every step keeps the invariant.                                         *)
LEMMA StepKeeps ==
  ASSUME TransfersInv, [Next]_vars
  PROVE  TransfersInv'
<1>1. CASE UNCHANGED vars
  BY <1>1, IdleKeeps DEF vars, lockVars
<1>2. CASE Next
  BY <1>2, CloseKeeps, WakeKeeps, PickKeeps, WithdrawKeeps, DepositKeeps, LedgerKeeps,
     AcquireKeeps, ReadKeeps, ReleaseKeeps DEF Next, Step
<1>. QED BY <1>1, <1>2

(* It holds when the constructor is done.                                  *)
LEMMA InitKeeps ==
  ASSUME Init
  PROVE  TransfersInv
<1>1. /\ prog \in {"ftxxfer", "ftxblockchain", "ftxrocket"}
      /\ file = Opening /\ cbuf = [a \in Window(0) |-> Opening[a]] /\ dirty = FALSE
      /\ book = Opening /\ pc = [t \in Threads |-> "pick"]
      /\ acct = [t \in Threads |-> <<0, 0>>] /\ bal = [t \in Threads |-> <<0, 0>>]
      /\ delta = [t \in Threads |-> 0] /\ ops = [t \in Threads |-> 0] /\ closed = FALSE
  BY DEF Init
<1>2. LP!LockInv
  <2>1. LP!Init
    BY LocksStart DEF Init
  <2>. QED BY <2>1, LocksAre, LP!InitLocks
<1>3. 0 \in Accounts /\ 0 \in Balances /\ 0 \in 0..NOps
      /\ Opening \in [Accounts -> Balances] /\ Opening \in [Accounts -> Int]
  BY TransfersAssumption DEF Accounts, Balances
<1>4. CacheInv
  <2>1. Window(0) \subseteq Accounts
    BY DEF Window
  <2>2. cbuf \in [Window(0) -> Balances] /\ \A a \in DOMAIN cbuf : cbuf[a] = file[a]
    BY <1>1, <1>3, <2>1
  <2>. QED BY <1>1, <1>3, <2>2 DEF CacheInv
<1>5. \A a \in Accounts : Current(a) = Opening[a]
  BY <1>1, <1>4 DEF Current, CacheInv
<1>6. TypesInv
  BY <1>1, <1>3 DEF TypesInv, Names
<1>7. \A t \in Threads : Guards(t) /\ Seen(t)
  <2>1. \A t \in Threads : want[t] = Nobody
    <3>1. LP!Init
      BY LocksStart DEF Init
    <3>. QED BY <3>1 DEF LP!Init
  <2>. QED BY <1>1, <2>1 DEF Guards, Seen, Inside
<1>8. BookInv
  BY <1>1, <1>5 DEF BookInv, BookAt, Payer, Payee
<1>9. Shut /\ Working
  BY <1>1 DEF Shut, Working
<1>. QED BY <1>2, <1>4, <1>6, <1>7, <1>8, <1>9 DEF TransfersInv

(* The locks, the cache, what each thread has read and what the ledger still *)
(* lacks fit together, in every interleaving (ftxblockchain.cc:21-66).     *)
THEOREM TransfersSound == Spec => []TransfersInv
BY InitKeeps, StepKeeps, PTL DEF Spec

(* Balances fit their records, threads are at steps of their program and make *)
(* no more transfers than they should (ftxblockchain.cc:10-66).            *)
THEOREM TypesKept == Spec => []TypeOK
<1>1. TransfersInv => TypeOK
  <2>. SUFFICES ASSUME TransfersInv PROVE TypeOK
    OBVIOUS
  <2>1. RegionLock!TypeOK
    BY LocksStart DEF TransfersInv, LP!LockInv
  <2>2. TypesInv /\ CacheInv
    BY DEF TransfersInv
  <2>. QED BY <2>1, <2>2, NamesAre DEF TypeOK, TypesInv, CacheInv, Balances, Window
<1>. QED BY <1>1, TransfersSound, PTL

(* At no point does the ledger take a balance below 0 (diff-ftxdb.pl:102), *)
(* for any number of threads, accounts and chunks.                         *)
THEOREM LedgerNeverOverdrawn == Spec => []LedgerCovered
<1>1. TransfersInv => LedgerCovered
  <2>. SUFFICES ASSUME TransfersInv, NEW a \in Accounts PROVE book[a] >= 0
    BY DEF LedgerCovered
  <2>1. CASE prog # "ftxblockchain"
    BY <2>1, TransfersAssumption DEF TransfersInv, BookInv
  <2>2. CASE prog = "ftxblockchain"
    <3>1. BookAt(a)
      BY <2>2 DEF TransfersInv, BookInv
    <3>2. Current(a) \in Int /\ Current(a) >= 0
      BY FilledIs, BalanceTypes DEF TransfersInv
    <3>3. ASSUME NEW t \in Threads, Payer(t, a)
          PROVE  book[a] >= 0
      <4>1. book[a] = Current(a) + delta[t] /\ delta[t] \in Int /\ delta[t] >= 0
        BY <3>1, <3>3, ThreadTypes, BalanceTypes DEF BookAt, TransfersInv
      <4>. QED BY <3>2, <4>1
    <3>4. ASSUME NEW t \in Threads, Payee(t, a)
          PROVE  book[a] >= 0
      <4>1. book[a] = Current(a) - delta[t]
        BY <3>1, <3>4 DEF BookAt
      <4>2. Current(a) = bal[t][2] + delta[t]
        BY <3>4 DEF TransfersInv, Seen, Payee
      <4>3. delta[t] \in Int /\ bal[t][2] \in Int /\ bal[t][2] >= 0
        BY ThreadTypes, BalanceTypes DEF TransfersInv
      <4>. QED BY <4>1, <4>2, <4>3
    <3>5. (\A t \in Threads : ~Payer(t, a) /\ ~Payee(t, a)) => book[a] >= 0
      BY <3>1, <3>2 DEF BookAt
    <3>. QED BY <3>3, <3>4, <3>5
  <2>. QED BY <2>1, <2>2
<1>. QED BY <1>1, TransfersSound, PTL

-----------------------------------------------------------------------------
(* The balances as the transfers leave them: between withdrawing and       *)
(* depositing, a thread owes the receiver what it has withdrawn.           *)
Owes(t, a) == pc[t] = "write2" /\ acct[t][2] = a

(* The balances that Promise is about.                                     *)
Balance ==
  [a \in Accounts |->
    (IF a \in DOMAIN cbuf THEN cbuf[a] ELSE file[a])
    + MapThenSumSet(LAMBDA t : delta[t],
                    {t \in Threads : pc[t] = "write2" /\ acct[t][2] = a})]

(* They are those that readers see, but for what one thread owes.          *)
BalancesAre ==
  \A a \in Accounts :
    /\ (\A t \in Threads : ~Owes(t, a)) => Balance[a] = Current(a)
    /\ \A t \in Threads : Owes(t, a) => Balance[a] = Current(a) + delta[t]

(* At most one thread owes something to an account.                        *)
LEMMA BalanceIs == TransfersInv => BalancesAre
<1>. SUFFICES ASSUME TransfersInv, NEW a \in Accounts
              PROVE  /\ (\A t \in Threads : ~Owes(t, a)) => Balance[a] = Current(a)
                     /\ \A t \in Threads : Owes(t, a) => Balance[a] = Current(a) + delta[t]
  BY DEF BalancesAre
<1>. DEFINE O == {t \in Threads : pc[t] = "write2" /\ acct[t][2] = a}
<1>1. Balance[a] = Current(a) + Sum(delta, O)
  BY DEF Balance, Current, Sum
<1>2. Current(a) \in Int
  BY FilledIs, BalanceTypes DEF TransfersInv
<1>3. ASSUME \A t \in Threads : ~Owes(t, a)
      PROVE  Balance[a] = Current(a)
  <2>1. O = {}
    BY <1>3 DEF Owes
  <2>2. Sum(delta, O) = 0
    <3>. HIDE DEF O
    <3>. QED BY <2>1, SumEmpty
  <2>. HIDE DEF O
  <2>. QED BY <1>1, <1>2, <2>2
<1>4. ASSUME NEW t \in Threads, Owes(t, a)
      PROVE  Balance[a] = Current(a) + delta[t]
  <2>1. ASSUME NEW u \in Threads, Owes(u, a)
        PROVE  u = t
    BY <1>4, <2>1, Apart DEF Owes, Inside
  <2>2. O = {t}
    BY <1>4, <2>1 DEF Owes
  <2>3. delta[t] \in Int
    BY ThreadTypes, BalanceTypes DEF TransfersInv
  <2>4. Sum(delta, O) = delta[t]
    <3>. HIDE DEF O
    <3>. QED BY <2>2, <2>3, SumOne
  <2>. HIDE DEF O
  <2>. QED BY <1>1, <2>4
<1>. QED BY <1>3, <1>4

(* The balance of an account that a step leaves alone.                     *)
LEMMA BalanceSame ==
  ASSUME BalancesAre, BalancesAre', NEW a \in Accounts, Current(a)' = Current(a),
         \A t \in Threads : /\ Owes(t, a)' <=> Owes(t, a)
                            /\ Owes(t, a) => delta'[t] = delta[t]
  PROVE  Balance'[a] = Balance[a]
<1>1. CASE \A t \in Threads : ~Owes(t, a)
  <2>1. Balance'[a] = Current(a)'
    BY <1>1 DEF BalancesAre, Accounts
  <2>. QED BY <1>1, <2>1 DEF BalancesAre
<1>2. ASSUME NEW t \in Threads, Owes(t, a)
      PROVE  Balance'[a] = Balance[a]
  <2>1. Balance'[a] = Current(a)' + delta'[t]
    BY <1>2 DEF BalancesAre, Accounts
  <2>. QED BY <1>2, <2>1 DEF BalancesAre
<1>. QED BY <1>1, <1>2

(* All balances are unchanged when nobody withdraws or deposits.           *)
LEMMA BalanceUnchanged ==
  ASSUME BalancesAre, BalancesAre', \A a \in Accounts : Current(a)' = Current(a),
         \A t \in Threads : /\ pc'[t] = "write2" <=> pc[t] = "write2"
                            /\ pc[t] = "write2" => /\ acct'[t] = acct[t]
                                                   /\ delta'[t] = delta[t]
  PROVE  Balance' = Balance
<1>1. ASSUME NEW a \in Accounts
      PROVE  Balance'[a] = Balance[a]
  <2>1. \A t \in Threads : /\ Owes(t, a)' <=> Owes(t, a)
                           /\ Owes(t, a) => delta'[t] = delta[t]
    BY DEF Owes
  <2>. QED BY <2>1, BalanceSame
<1>2. Balance = [a \in Accounts |-> Balance[a]] /\ Balance' = [a \in Accounts |-> Balance'[a]]
  BY DEF Balance, Accounts
<1>. QED BY <1>1, <1>2

(* The transfer takes place when the first balance is written.             *)
LEMMA WithdrawMoves ==
  ASSUME TransfersInv, BalancesAre, BalancesAre', NEW u \in Threads, Withdraw(u)
  PROVE  \E a \in Accounts, b \in Accounts, m \in Amounts :
           /\ a # b
           /\ Balance' = [Balance EXCEPT ![a] = @ - Promise!Delta(Balance[a], Balance[b], m),
                                         ![b] = @ + Promise!Delta(Balance[a], Balance[b], m)]
<1>0. acct[u][1] \in Accounts /\ acct[u][2] \in Accounts
  BY ThreadTypes DEF TransfersInv
<1>a. PICK a \in Accounts : a = acct[u][1]
  BY <1>0
<1>b. PICK b \in Accounts : b = acct[u][2]
  BY <1>0
<1>1. PICK m \in Amounts : LET d == Promise!Delta(bal[u][1], bal[u][2], m)
                           IN  delta' = [delta EXCEPT ![u] = d] /\ Pwrite(a, bal[u][1] - d)
  BY <1>a DEF Withdraw
<1>2. PICK d : d = Promise!Delta(bal[u][1], bal[u][2], m)
  OBVIOUS
<1>3. delta' = [delta EXCEPT ![u] = d] /\ Pwrite(a, bal[u][1] - d)
  BY <1>1, <1>2
<1>4. prog' = prog /\ acct' = acct /\ Goto(u) /\ pc[u] = "write1"
  BY DEF Withdraw, Goes
<1>5. /\ a \in Accounts /\ b \in Accounts /\ a # b
      /\ bal[u][1] \in Balances /\ bal[u][2] \in Balances
      /\ bal[u][1] = Current(a) /\ bal[u][2] = Current(b)
  BY <1>a, <1>b, <1>4, ThreadTypes DEF TransfersInv, Guards, Seen
<1>6. d \in Balances /\ bal[u][1] - d \in Balances
  BY <1>2, <1>5, DeltaIs
<1>7. \A c \in Accounts : Current(c)' = IF c = a THEN bal[u][1] - d ELSE Current(c)
  BY <1>3, <1>5, <1>6, PwriteIs DEF TransfersInv
<1>8. /\ \A t \in Threads \ {u} : pc'[t] = pc[t] /\ delta'[t] = delta[t]
      /\ pc'[u] = "write2" /\ delta'[u] = d
  BY <1>3, <1>4, GoesOn, SuccIs DEF TransfersInv, TypesInv
<1>9. \A c \in Accounts : /\ \A t \in Threads \ {u} : Owes(t, c)' <=> Owes(t, c)
                          /\ ~Owes(u, c) /\ (Owes(u, c)' <=> c = b)
  BY <1>b, <1>4, <1>8 DEF Owes
<1>10. \A c \in {a, b}, t \in Threads \ {u} : ~Owes(t, c)
  BY <1>a, <1>b, <1>4, Apart DEF Owes, Inside
<1>11. Balance[a] = bal[u][1] /\ Balance[b] = bal[u][2]
  BY <1>5, <1>9, <1>10 DEF BalancesAre
<1>12. Balance'[a] = bal[u][1] - d
  <2>1. \A t \in Threads : ~Owes(t, a)'
    BY <1>5, <1>9, <1>10
  <2>2. Balance'[a] = Current(a)'
    BY <1>5, <2>1 DEF BalancesAre, Accounts
  <2>. QED BY <1>5, <1>7, <2>2
<1>13. Balance'[b] = bal[u][2] + d
  <2>1. Owes(u, b)'
    BY <1>5, <1>9
  <2>2. Balance'[b] = Current(b)' + delta'[u]
    BY <1>5, <2>1 DEF BalancesAre, Accounts
  <2>3. Current(b)' = bal[u][2]
    BY <1>5, <1>7
  <2>. QED BY <1>8, <2>2, <2>3
<1>14. ASSUME NEW c \in Accounts \ {a, b}
       PROVE  Balance'[c] = Balance[c]
  <2>1. \A t \in Threads : /\ Owes(t, c)' <=> Owes(t, c)
                           /\ Owes(t, c) => delta'[t] = delta[t]
    BY <1>8, <1>9
  <2>2. Current(c)' = Current(c)
    BY <1>7
  <2>. QED BY <2>1, <2>2, BalanceSame
<1>15. Balance = [c \in Accounts |-> Balance[c]] /\ Balance' = [c \in Accounts |-> Balance'[c]]
  BY DEF Balance, Accounts
<1>16. Balance' = [Balance EXCEPT ![a] = @ - d, ![b] = @ + d]
  BY <1>5, <1>11, <1>12, <1>13, <1>14, <1>15
<1>17. d = Promise!Delta(Balance[a], Balance[b], m)
  BY <1>2, <1>11
<1>. QED BY <1>5, <1>16, <1>17

(* No other step changes a balance, depositing included.                   *)
LEMMA OthersStutter ==
  ASSUME TransfersInv, BalancesAre, BalancesAre', [Next]_vars,
         ~ \E u \in Threads : Withdraw(u)
  PROVE  Balance' = Balance
<1>1. TransfersInv /\ CacheInv
  BY DEF TransfersInv
<1>2. CASE UNCHANGED vars
  <2>1. \A a \in Accounts : Current(a)' = Current(a)
    BY <1>1, <1>2, CacheSame DEF vars
  <2>. QED BY <1>2, <2>1, BalanceUnchanged DEF vars
<1>3. CASE Close
  <2>1. \A a \in Accounts : Current(a)' = Current(a)
    BY <1>1, <1>3, FlushedIs DEF Close, Current
  <2>. QED BY <1>3, <2>1, BalanceUnchanged DEF Close
<1>4. ASSUME NEW u \in Threads, Wake(u)
      PROVE  Balance' = Balance
  <2>1. UNCHANGED <<cacheVars, pc, acct, delta>>
    BY <1>4 DEF Wake
  <2>2. \A a \in Accounts : Current(a)' = Current(a)
    BY <1>1, <2>1, CacheSame
  <2>. QED BY <2>1, <2>2, BalanceUnchanged
<1>5. ASSUME NEW u \in Threads, prog' = prog, Goto(u), pc[u] # "write1", pc[u] # "write2",
             \A t \in Threads \ {u} : acct'[t] = acct[t] /\ delta'[t] = delta[t]
      PROVE  \A t \in Threads : /\ pc'[t] = "write2" <=> pc[t] = "write2"
                                /\ pc[t] = "write2" => /\ acct'[t] = acct[t]
                                                       /\ delta'[t] = delta[t]
  <2>1. /\ pc'[u] = Succ(pc[u]) /\ \A t \in Threads \ {u} : pc'[t] = pc[t]
    BY <1>1, <1>5, GoesOn DEF TransfersInv
  <2>2. Succ(pc[u]) # "write2"
    <3>1. pc[u] \in EveryName
      BY <1>1, ThreadTypes DEF TransfersInv, Names, EveryName
    <3>. QED BY <1>5, <3>1, SuccIs DEF EveryName
  <2>. QED BY <1>5, <2>1, <2>2
<1>6. ASSUME NEW u \in Threads, Pick(u)
      PROVE  Balance' = Balance
  <2>1. \A a \in Accounts : Current(a)' = Current(a)
    BY <1>1, <1>6, CacheSame DEF Pick
  <2>2. /\ pc[u] = "pick" /\ prog' = prog /\ Goto(u)
        /\ \A t \in Threads \ {u} : acct'[t] = acct[t] /\ delta'[t] = delta[t]
    BY <1>1, <1>6 DEF Pick, Picks, Goes, TransfersInv, TypesInv
  <2>. QED BY <1>5, <2>1, <2>2, BalanceUnchanged
<1>7. ASSUME NEW u \in Threads, NEW i \in {1, 2}, Read(u, i)
      PROVE  Balance' = Balance
  <2>1. \A a \in Accounts : Current(a)' = Current(a)
    <3>1. acct[u][i] \in Accounts /\ Pread(acct[u][i])
      BY <1>1, <1>7, ThreadTypes DEF TransfersInv, Read
    <3>. QED BY <1>1, <3>1, PreadIs
  <2>2. pc[u] \in {"read1", "read2"} /\ prog' = prog /\ Goto(u) /\ acct' = acct /\ delta' = delta
    BY <1>7 DEF Read, Goes
  <2>. QED BY <1>5, <2>1, <2>2, BalanceUnchanged
<1>8. ASSUME NEW u \in Threads, Ledger(u)
      PROVE  Balance' = Balance
  <2>1. \A a \in Accounts : Current(a)' = Current(a)
    BY <1>1, <1>8, CacheSame DEF Ledger
  <2>2. pc[u] = "ledger" /\ prog' = prog /\ Goto(u) /\ acct' = acct /\ delta' = delta
    BY <1>8 DEF Ledger, Goes
  <2>. QED BY <1>5, <2>1, <2>2, BalanceUnchanged
<1>9. ASSUME NEW u \in Threads, NEW i \in {1, 2}, Release(u, i)
      PROVE  Balance' = Balance
  <2>1. \A a \in Accounts : Current(a)' = Current(a)
    BY <1>1, <1>9, CacheSame DEF Release
  <2>2. pc[u] \in {"unlock1", "unlock2"} /\ prog' = prog /\ Goto(u) /\ acct' = acct /\ delta' = delta
    BY <1>9 DEF Release, Goes
  <2>. QED BY <1>5, <2>1, <2>2, BalanceUnchanged
<1>10. ASSUME NEW u \in Threads, NEW i \in {1, 2}, Acquire(u, i)
       PROVE  Balance' = Balance
  <2>1. \A a \in Accounts : Current(a)' = Current(a)
    BY <1>1, <1>10, CacheSame DEF Acquire
  <2>2. pc[u] \in {"lock1", "lock2"} /\ prog' = prog /\ acct' = acct /\ delta' = delta
    BY <1>10 DEF Acquire, Goes
  <2>3. Goto(u) \/ pc' = pc
    BY <1>10 DEF Acquire
  <2>4. CASE Goto(u)
    BY <1>5, <2>1, <2>2, <2>4, BalanceUnchanged
  <2>5. CASE pc' = pc
    BY <2>1, <2>2, <2>5, BalanceUnchanged
  <2>. QED BY <2>3, <2>4, <2>5
<1>11. ASSUME NEW u \in Threads, Deposit(u)
       PROVE  Balance' = Balance
  <2>. DEFINE d == delta[u]
  <2>0. acct[u][2] \in Accounts
    BY <1>1, ThreadTypes DEF TransfersInv
  <2>a. PICK b \in Accounts : b = acct[u][2]
    BY <2>0
  <2>1. /\ prog' = prog /\ acct' = acct /\ delta' = delta /\ Goto(u) /\ pc[u] = "write2"
        /\ Pwrite(b, bal[u][2] + d)
    BY <1>11, <2>a DEF Deposit, Goes
  <2>2. /\ b \in Accounts /\ bal[u][2] \in Balances /\ d \in Balances
        /\ bal[u][2] = Current(b) /\ bal[u][2] + d <= MaxBalance
    BY <1>1, <2>1, <2>a, ThreadTypes DEF TransfersInv, Seen
  <2>3. bal[u][2] + d \in Balances
    BY <2>2, BalanceTypes
  <2>4. \A c \in Accounts : Current(c)' = IF c = b THEN bal[u][2] + d ELSE Current(c)
    BY <1>1, <2>1, <2>2, <2>3, PwriteIs
  <2>5. \A t \in Threads \ {u} : pc'[t] = pc[t]
    BY <1>1, <2>1, GoesOn DEF TransfersInv
  <2>6. pc'[u] # "write2"
    BY <1>1, <2>1, GoesOn, SuccIs DEF TransfersInv
  <2>7. Inside(u)
    BY <2>1 DEF Inside
  <2>8. Balance'[b] = Balance[b]
    <3>1. Owes(u, b)
      BY <2>1, <2>a DEF Owes
    <3>2. Balance[b] = Current(b) + d
      BY <2>2, <3>1 DEF BalancesAre
    <3>3. \A t \in Threads \ {u} : ~Owes(t, b)
      BY <1>1, <2>7, <2>a, Apart DEF Owes, Inside
    <3>4. \A t \in Threads : ~Owes(t, b)'
      BY <2>1, <2>5, <2>6, <3>3 DEF Owes
    <3>5. Balance'[b] = Current(b)'
      BY <2>2, <3>4 DEF BalancesAre, Accounts
    <3>. QED BY <2>2, <2>4, <3>2, <3>5
  <2>9. ASSUME NEW c \in Accounts \ {b}
        PROVE  Balance'[c] = Balance[c]
    <3>1. \A t \in Threads : Owes(t, c)' <=> Owes(t, c)
      BY <2>1, <2>5, <2>6, <2>a DEF Owes
    <3>2. Current(c)' = Current(c)
      BY <2>4
    <3>. QED BY <2>1, <3>1, <3>2, BalanceSame
  <2>10. Balance = [c \in Accounts |-> Balance[c]] /\ Balance' = [c \in Accounts |-> Balance'[c]]
    BY DEF Balance, Accounts
  <2>. QED BY <2>8, <2>9, <2>10
<1>. QED BY <1>2, <1>3, <1>4, <1>6, <1>7, <1>8, <1>9, <1>10, <1>11 DEF Next, Step

(* Every step is a transfer of Bank or none.                               *)
LEMMA StepPromised ==
  ASSUME TransfersInv, TransfersInv', BalancesAre, BalancesAre', [Next]_vars
  PROVE  [Promise!Next]_Balance
<1>1. CASE \E u \in Threads : Withdraw(u)
  <2>1. PICK a \in Accounts, b \in Accounts, m \in Amounts :
          /\ a # b
          /\ Balance' = [Balance EXCEPT ![a] = @ - Promise!Delta(Balance[a], Balance[b], m),
                                        ![b] = @ + Promise!Delta(Balance[a], Balance[b], m)]
    BY <1>1, WithdrawMoves
  <2>2. Promise!Transfer(a, b, m)
    BY <2>1 DEF Promise!Transfer, Balance
  <2>. QED BY <2>1, <2>2 DEF Promise!Next
<1>2. CASE ~ \E u \in Threads : Withdraw(u)
  BY <1>2, OthersStutter
<1>. QED BY <1>1, <1>2

(* In the beginning the balances are the opening ones.                     *)
LEMMA StartPromised ==
  ASSUME Init
  PROVE  BalancesAre /\ Balance = Opening
<1>1. TransfersInv
  BY InitKeeps
<1>2. BalancesAre
  BY <1>1, BalanceIs
<1>3. \A t \in Threads, a \in Accounts : ~Owes(t, a)
  BY DEF Init, Owes
<1>4. \A a \in Accounts : Current(a) = Opening[a]
  BY DEF Init, Current, Window
<1>5. \A a \in Accounts : Balance[a] = Opening[a]
  BY <1>2, <1>3, <1>4 DEF BalancesAre
<1>6. Balance = [a \in Accounts |-> Balance[a]] /\ Opening = [a \in Accounts |-> Opening[a]]
  BY TransfersAssumption DEF Balance
<1>. QED BY <1>2, <1>5, <1>6

(* Whatever the threads, locks and cache do, the balances change as by     *)
(* transfers one after the other (ftxblockchain.cc:29-52).                 *)
THEOREM TransfersSerial == Spec => Serializable
<1>1. Init => Promise!Init
  BY StartPromised DEF Promise!Init, Balance
<1>2. TransfersInv /\ TransfersInv' /\ [Next]_vars => BalancesAre /\ BalancesAre'
  BY BalanceIs, PTL
<1>3. TransfersInv /\ TransfersInv' /\ [Next]_vars => [Promise!Next]_Balance
  BY <1>2, StepPromised
<1>4. [Promise!Next]_Balance <=>
      [Promise!Next]_([a \in Accounts |->
        (IF a \in DOMAIN cbuf THEN cbuf[a] ELSE file[a])
        + MapThenSumSet(LAMBDA t : delta[t],
                        {t \in Threads : pc[t] = "write2" /\ acct[t][2] = a})])
  BY DEF Balance
<1>. QED BY <1>1, <1>3, <1>4, TransfersSound, PTL DEF Spec, Serializable, Promise!Spec

(* The money there was in the beginning is there.                          *)
Total == \E b : b = Balance /\ Sum(b, Accounts) = Sum(Opening, Accounts)

(* A transfer moves money and makes none.                                  *)
LEMMA TotalKept ==
  ASSUME TransfersInv, BalancesAre, BalancesAre', [Next]_vars, Total
  PROVE  Total'
<1>1. PICK w : w = Balance /\ Sum(w, Accounts) = Sum(Opening, Accounts)
  BY DEF Total
<1>2. PICK v : v = Balance'
  OBVIOUS
<1>3. Sum(v, Accounts) = Sum(w, Accounts)
  <2>1. CASE \E u \in Threads : Withdraw(u)
    <3>0. PICK a \in Accounts, b \in Accounts, m \in Amounts :
            /\ a # b
            /\ v = [w EXCEPT ![a] = @ - Promise!Delta(w[a], w[b], m),
                             ![b] = @ + Promise!Delta(w[a], w[b], m)]
      BY <1>1, <1>2, <2>1, WithdrawMoves
    <3>1. PICK d : /\ d = Promise!Delta(w[a], w[b], m)
                   /\ v = [w EXCEPT ![a] = @ - d, ![b] = @ + d]
      BY <3>0
    <3>2. \A c \in Accounts : w[c] \in Int
      <4>. SUFFICES ASSUME NEW c \in Accounts PROVE w[c] \in Int
        OBVIOUS
      <4>1. Current(c) \in Int
        BY FilledIs, BalanceTypes DEF TransfersInv
      <4>2. \A t \in Threads : delta[t] \in Int
        BY ThreadTypes, BalanceTypes DEF TransfersInv
      <4>. QED BY <1>1, <4>1, <4>2 DEF BalancesAre
    <3>3. d \in Int
      BY <3>1, <3>2, TransfersAssumption DEF Promise!Delta, Promise!Lesser
    <3>4. DOMAIN w = Accounts
      BY <1>1 DEF Balance
    <3>5. v[a] = w[a] - d /\ v[b] = w[b] + d /\ \A c \in Accounts \ {a, b} : v[c] = w[c]
      BY <3>0, <3>1, <3>4
    <3>6. IsFiniteSet(Accounts)
      BY ArePositions, FS_Interval DEF Accounts
    <3>7. a # b
      BY <3>0
    <3>. QED BY <3>2, <3>3, <3>5, <3>6, <3>7, SumMoved
  <2>2. CASE ~ \E u \in Threads : Withdraw(u)
    BY <1>1, <1>2, <2>2, OthersStutter
  <2>. QED BY <2>1, <2>2
<1>. QED BY <1>1, <1>2, <1>3 DEF Total, Accounts

(* When the file is closed it holds the money there was in the beginning and *)
(* the balances that the ledger leads to (diff-ftxdb.pl:128-165).          *)
THEOREM MoneyReconciles == Spec => []Reconciles
<1>1. Init => Total
  BY StartPromised DEF Total
<1>2. TransfersInv /\ TransfersInv' /\ [Next]_vars => BalancesAre /\ BalancesAre'
  BY BalanceIs, PTL
<1>3. TransfersInv /\ TransfersInv' /\ [Next]_vars /\ Total => Total'
  BY <1>2, TotalKept
<1>4. TransfersInv /\ Total => Reconciles
  <2>. SUFFICES ASSUME TransfersInv, Total, closed
                PROVE  /\ prog = "ftxblockchain" => book = file
                       /\ MapThenSumSet(LAMBDA a : file[a], Accounts)
                            = MapThenSumSet(LAMBDA a : Opening[a], Accounts)
    BY DEF Reconciles
  <2>1. ~dirty /\ \A t \in Threads : pc[t] = "pick"
    BY DEF TransfersInv, Shut
  <2>2. \A a \in Accounts : Current(a) = file[a]
    BY <2>1 DEF TransfersInv, CacheInv, Current
  <2>3. ASSUME prog = "ftxblockchain"
        PROVE  book = file
    <3>1. \A a \in Accounts : book[a] = file[a]
      BY <2>1, <2>2, <2>3 DEF TransfersInv, BookInv, BookAt, Payer, Payee
    <3>2. book \in [Accounts -> Int] /\ file \in [Accounts -> Balances]
      BY DEF TransfersInv, TypesInv, CacheInv
    <3>. QED BY <3>1, <3>2
  <2>4. PICK w : w = Balance /\ Sum(w, Accounts) = Sum(Opening, Accounts)
    BY DEF Total
  <2>5. \A a \in Accounts : w[a] = file[a]
    BY <2>1, <2>2, <2>4, BalanceIs DEF BalancesAre, Owes
  <2>6. PICK f : f = file
    OBVIOUS
  <2>7. Sum(f, Accounts) = Sum(w, Accounts)
    <3>1. IsFiniteSet(Accounts)
      BY ArePositions, FS_Interval DEF Accounts
    <3>. QED BY <2>5, <2>6, <3>1, SumSame
  <2>8. Sum(f, Accounts) = MapThenSumSet(LAMBDA a : file[a], Accounts)
    BY <2>6 DEF Sum
  <2>9. Sum(Opening, Accounts) = MapThenSumSet(LAMBDA a : Opening[a], Accounts)
    BY DEF Sum
  <2>. QED BY <2>3, <2>4, <2>7, <2>8, <2>9
<1>. QED BY <1>1, <1>3, <1>4, TransfersSound, PTL DEF Spec

=============================================================================

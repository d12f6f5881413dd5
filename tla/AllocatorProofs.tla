--------------------------- MODULE AllocatorProofs ---------------------------
(***************************************************************************)
(* Proofs about the debugging allocator of Allocator.tla, for every        *)
(* alignment, buffer size, set of requests and set of stray pointers.      *)
(*                                                                         *)
(* The inductive invariant AllocatorInv says where blocks, free blocks and *)
(* lost bytes lie: they begin at multiples of the alignment, do not        *)
(* overlap, cover the buffer, and the bytes from the end of each to the    *)
(* next multiple are lost.  The last part is what makes m61_malloc right,  *)
(* whose test leaves out the padding that rounds a size up: a free block   *)
(* that is too short for the padding is followed by bytes that nobody has. *)
(***************************************************************************)
EXTENDS Allocator, FiniteSetsExt, FiniteSetTheorems, WellFoundedInduction, TLAPS

(***************************************************************************)
(* Sums over finite sets, as MapThenSumSet computes them: an element can   *)
(* be taken out of a sum, whichever it is.                                 *)
(*                                                                         *)
(* MapThenSumSet is a recursive function on the subsets of a set, so that  *)
(* it says anything at all rests on there being such a function; this is   *)
(* shown by induction on the size of the subsets, for which a least        *)
(* counterexample among the natural numbers is taken.                      *)
(***************************************************************************)
(* The sum of w over S.                                                    *)
Sum(w, S) == MapThenSumSet(LAMBDA x : w[x], S)

(* f computes such sums over the subsets of S.                             *)
Sums(f, w, S) ==
  f = [s \in SUBSET S |->
         IF s = {} THEN 0
         ELSE w[CHOOSE x \in s : TRUE] + f[s \ {CHOOSE x \in s : TRUE}]]

(* The function that the sum is defined by is the one that computes it.    *)
LEMMA SumIs ==
  ASSUME NEW w, NEW S, NEW f, Sums(f, w, S)
  PROVE  \E g : Sums(g, w, S) /\ Sum(w, S) = g[S]
<1>. DEFINE g == CHOOSE h : Sums(h, w, S)
<1>1. Sums(g, w, S)
  OBVIOUS
<1>2. Sum(w, S) = g[S]
  BY DEF Sum, MapThenSumSet, MapThenFoldSet, Sums
<1>. QED BY <1>1, <1>2

(* A set of natural numbers has a least element.                           *)
LEMMA LeastNumber ==
  ASSUME NEW S \in SUBSET Nat, S # {}
  PROVE  \E x \in S : \A y \in S : x <= y
<1>. DEFINE R == OpToRel(<, Nat)
<1>1. \A x, y \in Nat : y < x => <<y, x>> \in R
  BY DEF OpToRel
<1>2. IsWellFoundedOn(R, Nat)
  BY NatLessThanWellFounded
<1>. HIDE DEF R
<1>3. PICK x \in S : \A y \in S : ~ (<<y, x>> \in R)
  BY <1>2, WFMin
<1>4. \A y \in S : ~ (y < x)
  BY <1>1, <1>3
<1>. QED BY <1>3, <1>4

(* Induction over the natural numbers, for a set of numbers.               *)
LEMMA NumbersFromZero ==
  ASSUME NEW S, 0 \in S, \A n \in Nat : n \in S => n + 1 \in S
  PROVE  Nat \subseteq S
<1>. SUFFICES ASSUME Nat \ S # {} PROVE FALSE
  OBVIOUS
<1>1. PICK n \in Nat \ S : \A m \in Nat \ S : n <= m
  BY LeastNumber
<1>2. n - 1 \in Nat /\ n - 1 + 1 = n /\ ~(n <= n - 1)
  BY <1>1
<1>. QED BY <1>1, <1>2

(* The subsets with at most n elements, and what is computed for them.     *)
Small(n, S) == {s \in SUBSET S : Cardinality(s) <= n}

SmallSums(f, w, n, S) ==
  f = [s \in Small(n, S) |->
         IF s = {} THEN 0
         ELSE w[CHOOSE x \in s : TRUE] + f[s \ {CHOOSE x \in s : TRUE}]]

(* Taking an element out of a subset makes it smaller.                     *)
LEMMA Smaller ==
  ASSUME NEW S, IsFiniteSet(S), NEW s \in SUBSET S, NEW x \in s
  PROVE  /\ IsFiniteSet(s) /\ Cardinality(s) \in Nat \ {0}
         /\ s \ {x} \in SUBSET S /\ IsFiniteSet(s \ {x})
         /\ Cardinality(s \ {x}) = Cardinality(s) - 1
<1>1. IsFiniteSet(s)
  BY FS_Subset
<1>2. Cardinality(s \ {x}) = Cardinality(s) - 1 /\ IsFiniteSet(s \ {x})
  BY <1>1, FS_RemoveElement
<1>3. Cardinality(s) \in Nat /\ Cardinality(s) # 0
  BY <1>1, FS_CardinalityType, FS_EmptySet
<1>. QED BY <1>1, <1>2, <1>3

(* Sums over the subsets of n elements, from those of fewer.               *)
LEMMA SmallSumsExist ==
  ASSUME NEW w, NEW S, IsFiniteSet(S), NEW n \in Nat
  PROVE  \E f : SmallSums(f, w, n, S)
<1>. DEFINE N == {k \in Nat : \E f : SmallSums(f, w, k, S)}
<1>1. \A s \in SUBSET S : Cardinality(s) \in Nat /\ (Cardinality(s) = 0 <=> s = {})
  BY FS_Subset, FS_CardinalityType, FS_EmptySet
<1>2. 0 \in N
  <2>. DEFINE f == [s \in {{}} |-> 0]
  <2>1. Small(0, S) = {{}}
    BY <1>1 DEF Small
  <2>2. SmallSums(f, w, 0, S)
    BY <2>1 DEF SmallSums
  <2>. QED BY <2>2
<1>3. ASSUME NEW k \in Nat, k \in N
      PROVE  k + 1 \in N
  <2>1. PICK f : SmallSums(f, w, k, S)
    BY <1>3
  <2>. DEFINE c(s) == CHOOSE x \in s : TRUE
              g == [s \in Small(k + 1, S) |->
                      IF s = {} THEN 0 ELSE w[c(s)] + f[s \ {c(s)}]]
  <2>2. \A s \in Small(k, S) : s \in Small(k + 1, S)
    BY <1>1 DEF Small
  <2>3. \A s \in Small(k, S) : f[s] = g[s]
    BY <2>1, <2>2 DEF SmallSums
  <2>4. \A s \in Small(k + 1, S) : s # {} => s \ {c(s)} \in Small(k, S)
    <3>. SUFFICES ASSUME NEW s \in Small(k + 1, S), s # {}
                  PROVE  s \ {c(s)} \in Small(k, S)
      OBVIOUS
    <3>1. c(s) \in s
      OBVIOUS
    <3>. HIDE DEF c
    <3>2. s \in SUBSET S /\ Cardinality(s) <= k + 1
      BY DEF Small
    <3>3. s \ {c(s)} \in SUBSET S /\ Cardinality(s \ {c(s)}) = Cardinality(s) - 1
          /\ Cardinality(s) \in Nat
      BY <3>1, <3>2, Smaller
    <3>. QED BY <3>2, <3>3 DEF Small
  <2>5. SmallSums(g, w, k + 1, S)
    BY <2>3, <2>4 DEF SmallSums
  <2>. QED BY <2>5
<1>4. n \in N
  <2>. HIDE DEF N
  <2>. QED BY <1>2, <1>3, NumbersFromZero
<1>. QED BY <1>4

(* There is a function that computes the sums.                             *)
LEMMA SumsExist ==
  ASSUME NEW w, NEW S, IsFiniteSet(S)
  PROVE  \E f : Sums(f, w, S)
<1>. DEFINE n == Cardinality(S)
<1>1. n \in Nat
  BY FS_CardinalityType
<1>2. \A s \in SUBSET S : Cardinality(s) <= n
  BY FS_Subset
<1>3. Small(n, S) = SUBSET S
  BY <1>2 DEF Small
<1>. HIDE DEF n
<1>4. PICK f : SmallSums(f, w, n, S)
  BY <1>1, SmallSumsExist
<1>5. Sums(f, w, S)
  BY <1>3, <1>4 DEF Sums, SmallSums
<1>. QED BY <1>5

(* What such a function gives for one subset.                              *)
LEMMA SumsAt ==
  ASSUME NEW w, NEW S, NEW f, Sums(f, w, S)
  PROVE  /\ f[{}] = 0
         /\ \A s \in SUBSET S : s # {} =>
              \E x \in s : x = (CHOOSE y \in s : TRUE) /\ f[s] = w[x] + f[s \ {x}]
<1>1. f[{}] = 0
  BY DEF Sums
<1>2. \A s \in SUBSET S : s # {} => (CHOOSE y \in s : TRUE) \in s
  OBVIOUS
<1>3. \A s \in SUBSET S : s # {} =>
        f[s] = w[CHOOSE y \in s : TRUE] + f[s \ {CHOOSE y \in s : TRUE}]
  BY DEF Sums
<1>. QED BY <1>1, <1>2, <1>3

(* The order in which the elements are taken does not matter.              *)
LEMMA AnyOrder ==
  ASSUME NEW w, NEW S, IsFiniteSet(S), \A x \in S : w[x] \in Int, NEW f, Sums(f, w, S),
         NEW s \in SUBSET S
  PROVE  f[s] \in Int /\ \A x \in s : f[s] = w[x] + f[s \ {x}]
<1>. DEFINE Good(t) == f[t] \in Int /\ \A x \in t : f[t] = w[x] + f[t \ {x}]
            N == {n \in Nat : \A t \in SUBSET S : Cardinality(t) <= n => Good(t)}
<1>0. \A t \in SUBSET S : Cardinality(t) \in Nat /\ (Cardinality(t) = 0 <=> t = {})
  BY FS_Subset, FS_CardinalityType, FS_EmptySet
<1>1. Good({})
  BY SumsAt
<1>2. 0 \in N
  BY <1>0, <1>1
<1>3. ASSUME NEW n \in Nat, n \in N
      PROVE  n + 1 \in N
  <2>. SUFFICES ASSUME NEW t \in SUBSET S, Cardinality(t) <= n + 1, t # {}
                PROVE  Good(t)
    BY <1>1
  <2>1. PICK c \in t : f[t] = w[c] + f[t \ {c}]
    BY SumsAt
  <2>2. \A u \in SUBSET S : Cardinality(u) <= n => Good(u)
    BY <1>3
  <2>3. \A x \in t : t \ {x} \in SUBSET S /\ Good(t \ {x})
    <3>. SUFFICES ASSUME NEW x \in t PROVE t \ {x} \in SUBSET S /\ Good(t \ {x})
      OBVIOUS
    <3>. HIDE DEF Good
    <3>1. t \ {x} \in SUBSET S /\ Cardinality(t \ {x}) = Cardinality(t) - 1
          /\ Cardinality(t) \in Nat
      BY Smaller
    <3>. QED BY <2>2, <3>1
  <2>4. w[c] \in Int /\ f[t] \in Int
    <3>1. c \in S /\ f[t \ {c}] \in Int
      BY <2>3
    <3>. QED BY <2>1, <3>1
  <2>5. ASSUME NEW x \in t, x # c
        PROVE  f[t] = w[x] + f[t \ {x}]
    <3>1. (t \ {c}) \ {x} = (t \ {x}) \ {c}
      OBVIOUS
    <3>2. f[t \ {c}] = w[x] + f[(t \ {c}) \ {x}]
      BY <2>3, <2>5
    <3>3. f[t \ {x}] = w[c] + f[(t \ {c}) \ {x}]
      BY <2>3, <2>5, <3>1
    <3>4. f[(t \ {c}) \ {x}] \in Int
      <4>1. (t \ {c}) \ {x} \in SUBSET S /\ Cardinality((t \ {c}) \ {x}) <= n
        <5>1. PICK u : u = t \ {c}
          OBVIOUS
        <5>2. u \in SUBSET S /\ Cardinality(u) = Cardinality(t) - 1 /\ Cardinality(t) \in Nat
          BY <5>1, Smaller
        <5>3. x \in u
          BY <2>5, <5>1
        <5>4. Cardinality(u \ {x}) = Cardinality(u) - 1 /\ u \ {x} \in SUBSET S
          BY <5>2, <5>3, Smaller
        <5>. QED BY <5>1, <5>2, <5>4
      <4>. QED BY <2>2, <4>1
    <3>5. w[x] \in Int
      OBVIOUS
    <3>. HIDE DEF Good
    <3>. QED BY <2>1, <2>4, <3>2, <3>3, <3>4, <3>5
  <2>. QED BY <2>1, <2>4, <2>5
<1>4. Cardinality(s) \in N
  <2>1. Cardinality(s) \in Nat
    BY <1>0
  <2>. HIDE DEF N
  <2>. QED BY <1>2, <1>3, <2>1, NumbersFromZero
<1>5. Cardinality(s) \in Nat /\ Cardinality(s) <= Cardinality(s)
  BY <1>0
<1>6. Good(s)
  <2>. HIDE DEF Good
  <2>. QED BY <1>4, <1>5
<1>. QED BY <1>6

(* The same numbers are added.                                             *)
SameOn(w, v, S) == \A x \in S : w[x] = v[x]

(* Two such functions agree where they add the same numbers.               *)
LEMMA SumsAgree ==
  ASSUME NEW w, NEW S, IsFiniteSet(S), NEW f, Sums(f, w, S),
         NEW v, NEW T, T \subseteq S, NEW g, Sums(g, v, T), SameOn(w, v, T)
  PROVE  f[T] = g[T]
<1>. DEFINE N == {n \in Nat : \A t \in SUBSET T : Cardinality(t) <= n => f[t] = g[t]}
<1>0. IsFiniteSet(T)
  BY FS_Subset
<1>1. \A t \in SUBSET T : Cardinality(t) \in Nat /\ (Cardinality(t) = 0 <=> t = {})
  BY <1>0, FS_Subset, FS_CardinalityType, FS_EmptySet
<1>2. f[{}] = g[{}]
  BY SumsAt
<1>3. 0 \in N
  BY <1>1, <1>2
<1>4. ASSUME NEW n \in Nat, n \in N
      PROVE  n + 1 \in N
  <2>. SUFFICES ASSUME NEW t \in SUBSET T, Cardinality(t) <= n + 1, t # {}
                PROVE  f[t] = g[t]
    <3>1. n + 1 \in Nat
      OBVIOUS
    <3>. QED BY <1>2, <3>1
  <2>1. PICK c \in t : c = (CHOOSE y \in t : TRUE) /\ f[t] = w[c] + f[t \ {c}]
    BY SumsAt
  <2>2. PICK d \in t : d = (CHOOSE y \in t : TRUE) /\ g[t] = v[d] + g[t \ {d}]
    BY SumsAt
  <2>3. c = d /\ w[c] = v[c]
    BY <2>1, <2>2 DEF SameOn
  <2>4. f[t \ {c}] = g[t \ {c}]
    <3>1. t \ {c} \in SUBSET T /\ Cardinality(t \ {c}) = Cardinality(t) - 1
          /\ Cardinality(t) \in Nat
      BY <1>0, Smaller
    <3>. QED BY <1>4, <3>1
  <2>. QED BY <2>1, <2>2, <2>3, <2>4
<1>5. Cardinality(T) \in N
  <2>1. Cardinality(T) \in Nat
    BY <1>1
  <2>. HIDE DEF N
  <2>. QED BY <1>3, <1>4, <2>1, NumbersFromZero
<1>6. ASSUME NEW t, t = T
      PROVE  f[t] = g[t]
  <2>1. t \in SUBSET T /\ Cardinality(t) <= Cardinality(T)
    BY <1>1, <1>6
  <2>. QED BY <1>5, <2>1
<1>. QED BY <1>6

(* The sum is the value of any such function.                              *)
LEMMA SumValue ==
  ASSUME NEW w, NEW S, IsFiniteSet(S), NEW f, Sums(f, w, S), NEW T \in SUBSET S
  PROVE  Sum(w, T) = f[T]
<1>1. IsFiniteSet(T)
  BY FS_Subset
<1>2. PICK h : Sums(h, w, T)
  BY <1>1, SumsExist
<1>3. PICK g : Sums(g, w, T) /\ Sum(w, T) = g[T]
  BY <1>2, SumIs
<1>4. SameOn(w, w, T)
  BY DEF SameOn
<1>5. f[T] = g[T]
  BY <1>3, <1>4, SumsAgree
<1>. QED BY <1>3, <1>5

-----------------------------------------------------------------------------
(* The sum over no element is 0.                                           *)
LEMMA SumEmpty ==
  ASSUME NEW w
  PROVE  Sum(w, {}) = 0
<1>1. IsFiniteSet({})
  BY FS_EmptySet
<1>2. PICK f : Sums(f, w, {})
  BY <1>1, SumsExist
<1>. QED BY <1>1, <1>2, SumValue, SumsAt

(* The sum of integers is one, and any element can be taken out of it.     *)
LEMMA SumTake ==
  ASSUME NEW w, NEW S, IsFiniteSet(S), \A x \in S : w[x] \in Int
  PROVE  /\ Sum(w, S) \in Int
         /\ \A x \in S : Sum(w, S \ {x}) \in Int /\ Sum(w, S) = w[x] + Sum(w, S \ {x})
<1>1. PICK f : Sums(f, w, S)
  BY SumsExist
<1>2. \A T \in SUBSET S : Sum(w, T) = f[T] /\ f[T] \in Int
  BY <1>1, SumValue, AnyOrder
<1>3. \A x \in S : f[S] = w[x] + f[S \ {x}]
  BY <1>1, AnyOrder
<1>4. \A x \in S : S \ {x} \in SUBSET S
  OBVIOUS
<1>. QED BY <1>2, <1>3, <1>4

(* Sums of the same numbers are the same.                                  *)
LEMMA SumSame ==
  ASSUME NEW w, NEW v, NEW S, IsFiniteSet(S), \A x \in S : w[x] = v[x]
  PROVE  Sum(w, S) = Sum(v, S)
<1>1. PICK f : Sums(f, w, S)
  BY SumsExist
<1>2. PICK g : Sums(g, v, S)
  BY SumsExist
<1>3. SameOn(w, v, S)
  BY DEF SameOn
<1>4. f[S] = g[S]
  BY <1>1, <1>2, <1>3, SumsAgree
<1>. QED BY <1>1, <1>2, <1>4, SumValue

-----------------------------------------------------------------------------
(* A position at which a block may begin, and the first such position from *)
(* x on.                                                                   *)
Multiple(x) == x % Align = 0
Up(x) == x + Rounding(x, 0)

(* The fields of the record heap.                                          *)
Fields == {"blocks", "free", "freed", "mem", "lost"}

(* h is a heap record whose fields have their types.                       *)
IsHeap(h) ==
  /\ h = [f \in Fields |-> h[f]]
  /\ h.blocks = [b \in DOMAIN h.blocks |-> h.blocks[b]]
  /\ DOMAIN h.blocks \subseteq Positions
  /\ \A b \in DOMAIN h.blocks : h.blocks[b] \in [sz : Nat, pad : Nat \ {0}]
  /\ h.free = [f \in DOMAIN h.free |-> h.free[f]]
  /\ DOMAIN h.free \subseteq Positions
  /\ \A f \in DOMAIN h.free : h.free[f] \in Nat \ {0}
  /\ h.freed \subseteq Positions /\ h.lost \subseteq Positions
  /\ h.mem \in [Positions -> Bytes]

(* The position behind block b with its padding, and behind free block f.  *)
End(h, b) == b + h.blocks[b].sz + h.blocks[b].pad
Edge(h, f) == f + h.free[f]

(* Blocks and free blocks begin at multiples and end within the buffer.    *)
Aligned(h) ==
  /\ \A b \in DOMAIN h.blocks : Multiple(b) /\ End(h, b) <= Size
  /\ \A f \in DOMAIN h.free : Multiple(f) /\ Edge(h, f) <= Size

(* They do not overlap, and between two free blocks lies something else.   *)
Ordered(h) ==
  /\ \A b, c \in DOMAIN h.blocks : b < c => End(h, b) <= c
  /\ \A f, g \in DOMAIN h.free : f < g => Edge(h, f) < g
  /\ \A b \in DOMAIN h.blocks, f \in DOMAIN h.free :
       /\ b # f
       /\ b < f => End(h, b) <= f
       /\ f < b => Edge(h, f) <= b

(* From the end of a block to the next multiple the bytes are lost.        *)
Slack(h) ==
  /\ \A b \in DOMAIN h.blocks, i \in Positions :
       End(h, b) <= i /\ i < Up(End(h, b)) => i \in h.lost
  /\ \A f \in DOMAIN h.free, i \in Positions :
       Edge(h, f) <= i /\ i < Up(Edge(h, f)) => i \in h.lost

(* Lost bytes are in no block.                                             *)
LostApart(h) ==
  /\ \A b \in DOMAIN h.blocks, i \in h.lost : ~(b <= i /\ i < End(h, b))
  /\ \A f \in DOMAIN h.free, i \in h.lost : ~(f <= i /\ i < Edge(h, f))

(* There are no other bytes.                                               *)
Covered(h) ==
  \A i \in Positions :
    \/ \E b \in DOMAIN h.blocks : b <= i /\ i < End(h, b)
    \/ \E f \in DOMAIN h.free : f <= i /\ i < Edge(h, f)
    \/ i \in h.lost

Placed(h) == Aligned(h) /\ Ordered(h) /\ Slack(h) /\ LostApart(h) /\ Covered(h)

(* Multiplication by a natural number keeps the order.                     *)
LEMMA MulMono ==
  ASSUME NEW a \in Nat, NEW i \in Int, NEW j \in Int, i <= j
  PROVE  a * i <= a * j
OBVIOUS

(* Division by the alignment with its remainder.                           *)
LEMMA DivFacts ==
  ASSUME NEW x \in Int
  PROVE  \E q \in Int : x = Align * q + (x % Align) /\ x % Align \in 0..(Align - 1)
<1>1. Align \in Nat \ {0}
  BY AllocatorAssumption
<1>2. x \div Align \in Int /\ x = Align * (x \div Align) + (x % Align) /\ x % Align \in 0..(Align - 1)
  BY <1>1
<1>. QED BY <1>2

(* The remainder of a number written as a multiple and a small rest.       *)
LEMMA ModUnique ==
  ASSUME NEW q \in Int, NEW r \in 0..(Align-1)
  PROVE  (Align * q + r) % Align = r
BY AllocatorAssumption

(* What it means to be a multiple of the alignment.                        *)
LEMMA MultipleIs ==
  ASSUME NEW x \in Int, Multiple(x)
  PROVE  \E q \in Int : x = Align * q
<1>1. PICK q \in Int : x = Align * q + (x % Align) /\ x % Align \in 0..(Align - 1)
  BY DivFacts
<1>2. x = Align * q
  BY <1>1, AllocatorAssumption DEF Multiple
<1>. QED BY <1>2

(* Sums and differences of multiples are multiples.                        *)
LEMMA MultipleSum ==
  ASSUME NEW x \in Int, NEW y \in Int, Multiple(x)
  PROVE  (x + y) % Align = y % Align
<1>1. PICK q \in Int : x = Align * q
  BY MultipleIs
<1>2. PICK r \in Int : y = Align * r + (y % Align) /\ y % Align \in 0..(Align - 1)
  BY DivFacts
<1>3. x + y = Align * (q + r) + (y % Align)
  BY <1>1, <1>2, AllocatorAssumption
<1>. QED BY <1>2, <1>3, ModUnique

(* Up(x) is the least multiple of Align that is not below x.               *)
LEMMA UpFacts ==
  ASSUME NEW x \in Int
  PROVE  /\ Up(x) \in Int /\ x <= Up(x) /\ Multiple(Up(x))
         /\ Multiple(x) => Up(x) = x
         /\ \A m \in Int : Multiple(m) /\ x <= m => Up(x) <= m
<1>1. Align \in Nat \ {0}
  BY AllocatorAssumption
<1>2. PICK q \in Int : x = Align * q + (x % Align) /\ x % Align \in 0..(Align - 1)
  BY DivFacts
<1>3. (x + 0) % Align = x % Align
  BY <1>2
<1>4. CASE x % Align = 0
  <2>1. Align % Align = 0
    BY <1>1, ModUnique, Align * 1 + 0 = Align
  <2>. QED BY <1>1, <1>3, <1>4, <2>1 DEF Up, Rounding, Multiple
<1>5. CASE x % Align # 0
  <2>1. Rounding(x, 0) = Align - (x % Align)
    <3>1. Align - (x % Align) \in 0..(Align - 1)
      BY <1>1, <1>2, <1>5
    <3>2. (Align * 0 + (Align - (x % Align))) % Align = Align - (x % Align)
      BY <3>1, ModUnique
    <3>. QED BY <1>1, <1>3, <3>1, <3>2 DEF Rounding
  <2>2. Up(x) = Align * (q + 1) + 0
    BY <1>1, <1>2, <2>1 DEF Up
  <2>3. Multiple(Up(x))
    BY <1>1, <2>2, ModUnique DEF Multiple
  <2>4. ASSUME NEW m \in Int, Multiple(m), x <= m
        PROVE  Up(x) <= m
    <3>1. PICK r \in Int : m = Align * r
      BY <2>4, MultipleIs
    <3>2. ASSUME r <= q PROVE FALSE
      BY <3>2, <1>1, <3>1, <2>4, <1>2, <1>5, MulMono
    <3>3. Align * (q + 1) <= Align * r
      BY <1>1, <3>2, MulMono
    <3>. QED BY <3>1, <3>3, <2>2, <1>1
  <2>. QED BY <1>1, <1>2, <1>5, <2>1, <2>3, <2>4 DEF Up, Multiple
<1>. QED BY <1>4, <1>5

(* The padding of m61_malloc is positive, ends at a multiple, and goes no  *)
(* further than the first multiple behind the bytes that its test asks for *)
(* (m61.cc:83-97).                                                         *)
LEMMA PaddingFacts ==
  ASSUME NEW b \in Nat, Multiple(b), NEW sz \in Nat
  PROVE  /\ Padding(b, sz) \in Nat \ {0}
         /\ Multiple(b + sz + Padding(b, sz))
         /\ \A m \in Int : Multiple(m) /\ b + sz + Extra(sz) <= m
                             => b + sz + Padding(b, sz) <= m
<1>1. Align \in Nat \ {0}
  BY AllocatorAssumption
<1>2. Padding(b, sz) = Up(b + sz) - (b + sz) + Extra(sz)
  <2>1. Rounding(b, sz) = Rounding(b + sz, 0)
    BY <1>1 DEF Rounding
  <2>2. Rounding(b + sz, 0) \in Int
    BY <1>1 DEF Rounding
  <2>3. Extra(sz) \in Int
    BY <1>1 DEF Extra
  <2>. QED BY <2>1, <2>2, <2>3 DEF Padding, Up
<1>3. (b + sz) % Align = sz % Align
  BY MultipleSum
<1>4. CASE sz % Align = 0
  <2>1. Extra(sz) = Align /\ Multiple(b + sz)
    BY <1>3, <1>4 DEF Extra, Multiple
  <2>2. Up(b + sz) = b + sz
    BY <2>1, UpFacts
  <2>3. Multiple(b + sz + Align)
    <3>1. (b + sz + Align) % Align = Align % Align
      BY <1>1, <2>1, MultipleSum
    <3>2. Align % Align = 0
      BY <1>1, ModUnique, Align * 1 + 0 = Align
    <3>. QED BY <3>1, <3>2 DEF Multiple
  <2>. QED BY <1>1, <1>2, <2>1, <2>2, <2>3
<1>5. CASE sz % Align # 0
  <2>1. Extra(sz) = 0 /\ ~Multiple(b + sz)
    BY <1>3, <1>5 DEF Extra, Multiple
  <2>2. Up(b + sz) > b + sz
    BY <2>1, UpFacts
  <2>. QED BY <1>2, <2>1, <2>2, UpFacts
<1>. QED BY <1>4, <1>5

(* begin() of the map of the free blocks that fit is the lowest.           *)
LEMMA MinIsLeast ==
  ASSUME NEW S \in SUBSET Nat, S # {}
  PROVE  Min(S) \in S /\ \A y \in S : Min(S) <= y
BY LeastNumber DEF Min

(* The entry before upper_bound is the greatest below it.                  *)
LEMMA MaxIsGreatest ==
  ASSUME NEW n \in Nat, NEW S \in SUBSET (0..n), S # {}
  PROVE  Max(S) \in S /\ \A y \in S : y <= Max(S)
<1>. DEFINE T == {k \in Nat : n - k \in S}
<1>1. PICK x \in S : TRUE
  OBVIOUS
<1>2. n - x \in T
  OBVIOUS
<1>3. PICK k \in T : \A l \in T : k <= l
  BY <1>2, LeastNumber
<1>4. \A y \in S : n - y \in T
  OBVIOUS
<1>5. n - k \in S /\ \A y \in S : n - k >= y
  BY <1>3, <1>4
<1>. QED BY <1>5 DEF Max

(* The greater of two numbers.                                             *)
LEMMA MaxOfTwo ==
  ASSUME NEW a \in Int, NEW b \in Int
  PROVE  Max({a, b}) = IF a >= b THEN a ELSE b
BY DEF Max

(* The lesser of two numbers.                                              *)
LEMMA MinOfTwo ==
  ASSUME NEW a \in Int, NEW b \in Int
  PROVE  Min({a, b}) = IF a <= b THEN a ELSE b
BY DEF Min

(* The set of neighbours of a free block has at most one element.          *)
LEMMA MinOfOne ==
  ASSUME NEW a \in Int
  PROVE  Min({a}) = a
BY DEF Min

(* Positions are the natural numbers below Size.                           *)
LEMMA PositionsType == Size \in Nat \ {0} /\ Positions \subseteq Nat /\ \A i : i \in Positions <=> i \in Int /\ 0 <= i /\ i < Size
BY AllocatorAssumption DEF Positions

(* The types of what the two maps hold.                                    *)
LEMMA FieldType ==
  ASSUME NEW h, IsHeap(h)
  PROVE  /\ \A b \in DOMAIN h.blocks : b \in Nat /\ b < Size /\ h.blocks[b].sz \in Nat /\ h.blocks[b].pad \in Nat \ {0}
         /\ \A f \in DOMAIN h.free : f \in Nat /\ f < Size /\ h.free[f] \in Nat \ {0}
BY PositionsType DEF IsHeap

(* Blocks and free blocks are not empty.                                   *)
LEMMA EndType ==
  ASSUME NEW h, IsHeap(h)
  PROVE  /\ \A b \in DOMAIN h.blocks : b \in Nat /\ b < Size /\ End(h, b) \in Nat /\ b < End(h, b)
         /\ \A f \in DOMAIN h.free : f \in Nat /\ f < Size /\ Edge(h, f) \in Nat /\ f < Edge(h, f)
<1>1. /\ \A b \in DOMAIN h.blocks : b \in Nat /\ b < Size /\ h.blocks[b].sz \in Nat /\ h.blocks[b].pad \in Nat \ {0}
      /\ \A f \in DOMAIN h.free : f \in Nat /\ f < Size /\ h.free[f] \in Nat \ {0}
  BY FieldType
<1>. QED BY <1>1 DEF End, Edge

(* The block that the loop of m61_malloc stops at is free and is long      *)
(* enough for the size with the extra padding.                             *)
LEMMA FitsSome ==
  ASSUME NEW h, IsHeap(h), NEW sz \in Nat, Fits(h, sz) # {}
  PROVE  /\ Min(Fits(h, sz)) \in DOMAIN h.free
         /\ sz + Extra(sz) <= h.free[Min(Fits(h, sz))]
<1>1. Fits(h, sz) \subseteq Nat
  <2>1. DOMAIN h.free \subseteq Nat
    BY FieldType
  <2>. QED BY <2>1 DEF Fits
<1>2. Min(Fits(h, sz)) \in Fits(h, sz)
  BY <1>1, MinIsLeast
<1>. QED BY <1>2 DEF Fits

(* What m61_malloc does to each field of the heap.                         *)
LEMMA TakenFields ==
  ASSUME NEW h, IsHeap(h), NEW sz
  PROVE  LET g == Taken(h, sz)
             b == Min(Fits(h, sz))
             pad == Padding(b, sz)
             end == b + sz + pad
         IN  /\ g = [f \in Fields |-> g[f]]
             /\ g.blocks = With(h.blocks, b, [sz |-> sz, pad |-> pad])
             /\ g.free = IF end < b + h.free[b]
                         THEN With(Less(h.free, {b}), end, b + h.free[b] - end)
                         ELSE Less(h.free, {b})
             /\ g.freed = h.freed \ {b}
             /\ g.mem = Fill(h.mem, Span(b + sz, pad), Marker)
             /\ g.lost = h.lost \ Span(b, sz + pad)
<1>. DEFINE b == Min(Fits(h, sz))
            pad == Padding(b, sz)
            end == b + sz + pad
            B == With(h.blocks, b, [sz |-> sz, pad |-> pad])
            F == IF end < b + h.free[b]
                 THEN With(Less(h.free, {b}), end, b + h.free[b] - end)
                 ELSE Less(h.free, {b})
            D == h.freed \ {b}
            M == Fill(h.mem, Span(b + sz, pad), Marker)
            L == h.lost \ Span(b, sz + pad)
            g == Taken(h, sz)
<1>1. g = [h EXCEPT !.blocks = B, !.free = F, !.freed = D, !.mem = M, !.lost = L]
  BY DEF Taken
<1>. HIDE DEF B, F, D, M, L, g
<1>2. h = [f \in Fields |-> h[f]]
  BY DEF IsHeap
<1>3. DOMAIN h = Fields
  BY <1>2
<1>4. DOMAIN g = Fields
  BY <1>1, <1>3 DEF Fields
<1>5. g = [f \in Fields |-> g[f]]
  BY <1>1, <1>4
<1>6. g.blocks = B /\ g.free = F /\ g.freed = D /\ g.mem = M /\ g.lost = L
  BY <1>1, <1>3 DEF Fields
<1>. QED BY <1>5, <1>6 DEF B, F, D, M, L, g

(* g is h with a block of sz bytes at the free block b, padded to end.     *)
Takes(h, sz, g, b, pad, end) ==
  /\ b \in Nat /\ Multiple(b) /\ b \in DOMAIN h.free /\ b \notin DOMAIN h.blocks
  /\ h.free[b] \in Nat /\ Edge(h, b) \in Nat /\ b < Edge(h, b) /\ Edge(h, b) <= Size
  /\ pad \in Nat \ {0} /\ end = b + sz + pad /\ Multiple(end) /\ end <= Size
  /\ \A m \in Int : Multiple(m) /\ Edge(h, b) <= m => end <= m
  /\ g = [f \in Fields |-> g[f]]
  /\ g.blocks = [c \in DOMAIN g.blocks |-> g.blocks[c]]
  /\ DOMAIN g.blocks = DOMAIN h.blocks \cup {b}
  /\ g.blocks[b] = [sz |-> sz, pad |-> pad]
  /\ \A c \in DOMAIN h.blocks : g.blocks[c] = h.blocks[c]
  /\ g.free = [f \in DOMAIN g.free |-> g.free[f]]
  /\ \A f : f \in DOMAIN g.free <=>
              (f \in DOMAIN h.free /\ f # b) \/ (f = end /\ end < Edge(h, b))
  /\ end < Edge(h, b) => end \notin DOMAIN h.free /\ g.free[end] = Edge(h, b) - end
  /\ \A f \in DOMAIN h.free : f # b => g.free[f] = h.free[f]
  /\ g.freed = h.freed \ {b}
  /\ g.mem = [i \in Positions |-> IF b + sz <= i /\ i < end THEN Marker ELSE h.mem[i]]
  /\ \A i \in Int : i \in g.lost <=> i \in h.lost /\ ~(b <= i /\ i < end)
  /\ g.lost \subseteq h.lost

(* m61_malloc takes the front of a free block, and its padding ends within *)
(* the buffer (m61.cc:84-102).                                             *)
LEMMA TakenIs ==
  ASSUME NEW h, IsHeap(h), Placed(h), NEW sz \in Nat, Fits(h, sz) # {},
         NEW g, g = Taken(h, sz), NEW b, b = Min(Fits(h, sz)),
         NEW pad, pad = Padding(b, sz), NEW end, end = b + sz + pad
  PROVE  Takes(h, sz, g, b, pad, end)
<1>1. /\ g = [f \in Fields |-> g[f]]
      /\ g.blocks = With(h.blocks, b, [sz |-> sz, pad |-> pad])
      /\ g.free = IF end < b + h.free[b]
                  THEN With(Less(h.free, {b}), end, b + h.free[b] - end)
                  ELSE Less(h.free, {b})
      /\ g.freed = h.freed \ {b}
      /\ g.mem = Fill(h.mem, Span(b + sz, pad), Marker)
      /\ g.lost = h.lost \ Span(b, sz + pad)
  BY TakenFields
<1>2. b \in DOMAIN h.free /\ sz + Extra(sz) <= h.free[b]
  BY FitsSome
<1>3. Size \in Nat /\ Multiple(Size) /\ Extra(sz) \in Int
  BY AllocatorAssumption DEF Multiple, Extra
<1>4. b \in Nat /\ Multiple(b) /\ Edge(h, b) <= Size
  BY <1>2, EndType DEF Placed, Aligned
<1>5. h.free[b] \in Nat /\ Edge(h, b) = b + h.free[b] /\ Edge(h, b) \in Nat /\ b < Edge(h, b)
  BY <1>2, FieldType, EndType DEF Edge
<1>6. /\ pad \in Nat \ {0} /\ Multiple(end)
      /\ \A m \in Int : Multiple(m) /\ b + sz + Extra(sz) <= m => end <= m
  BY <1>4, PaddingFacts
<1>7. end \in Nat /\ b < end
  BY <1>4, <1>6
<1>8. \A m \in Int : Multiple(m) /\ Edge(h, b) <= m => end <= m
  BY <1>2, <1>3, <1>4, <1>5, <1>6
<1>9. end <= Size
  BY <1>3, <1>4, <1>8
<1>10. b \notin DOMAIN h.blocks
  BY <1>2 DEF Placed, Ordered
<1>11. /\ g.blocks = [c \in DOMAIN g.blocks |-> g.blocks[c]]
       /\ DOMAIN g.blocks = DOMAIN h.blocks \cup {b}
       /\ g.blocks[b] = [sz |-> sz, pad |-> pad]
       /\ \A c \in DOMAIN h.blocks : g.blocks[c] = h.blocks[c]
  BY <1>1, <1>10 DEF With
<1>12. end < Edge(h, b) => end \notin DOMAIN h.free
  <2>1. \A f \in DOMAIN h.free : f \in Nat /\ (b < f => Edge(h, b) < f)
    BY <1>2, FieldType DEF Placed, Ordered
  <2>. QED BY <1>5, <1>7, <2>1
<1>16. /\ g.free = [f \in DOMAIN g.free |-> g.free[f]]
       /\ \A f : f \in DOMAIN g.free <=>
                     (f \in DOMAIN h.free /\ f # b) \/ (f = end /\ end < Edge(h, b))
       /\ end < Edge(h, b) => g.free[end] = Edge(h, b) - end
       /\ \A f \in DOMAIN h.free : f # b => g.free[f] = h.free[f]
  <2>1. CASE end < Edge(h, b)
    <3>1. g.free = With(Less(h.free, {b}), end, Edge(h, b) - end)
      BY <1>1, <1>4, <1>5, <1>7, <2>1
    <3>. QED BY <2>1, <3>1, <1>7, <1>12 DEF With, Less
  <2>2. CASE ~(end < Edge(h, b))
    <3>1. g.free = Less(h.free, {b})
      BY <1>1, <1>4, <1>5, <1>7, <2>2
    <3>. QED BY <2>2, <3>1 DEF Less
  <2>. QED BY <2>1, <2>2
<1>13. g.mem = [i \in Positions |-> IF b + sz <= i /\ i < end THEN Marker ELSE h.mem[i]]
  <2>1. \A i \in Positions : i \in Span(b + sz, pad) <=> b + sz <= i /\ i < end
    BY <1>4, <1>6, PositionsType DEF Span
  <2>. QED BY <1>1, <2>1 DEF Fill
<1>14. \A i \in Int : i \in g.lost <=> i \in h.lost /\ ~(b <= i /\ i < end)
  <2>1. \A i \in Int : i \in Span(b, sz + pad) <=> b <= i /\ i < end
    BY <1>4, <1>6 DEF Span
  <2>. QED BY <1>1, <2>1
<1>15. g.lost \subseteq h.lost
  BY <1>1
<1>. QED BY <1>1, <1>2, <1>4, <1>5, <1>6, <1>7, <1>8, <1>9, <1>10, <1>11, <1>12, <1>13, <1>14, <1>15, <1>16 DEF Takes

(* After m61_malloc, blocks and free memory are placed as before           *)
(* (m61.cc:84-102).                                                        *)
LEMMA TakesPlaced ==
  ASSUME NEW h, IsHeap(h), Placed(h), NEW sz \in Nat, NEW g, NEW b, NEW pad, NEW end,
         Takes(h, sz, g, b, pad, end)
  PROVE  IsHeap(g) /\ Placed(g)
<1>1. /\ b \in Nat /\ Multiple(b) /\ b \in DOMAIN h.free /\ b \notin DOMAIN h.blocks
      /\ h.free[b] \in Nat /\ Edge(h, b) \in Nat /\ b < Edge(h, b) /\ Edge(h, b) <= Size
      /\ pad \in Nat \ {0} /\ end \in Nat /\ b < end /\ Multiple(end) /\ end <= Size
      /\ \A m \in Int : Multiple(m) /\ Edge(h, b) <= m => end <= m
  BY DEF Takes
<1>2. /\ g.blocks = [c \in DOMAIN g.blocks |-> g.blocks[c]]
      /\ DOMAIN g.blocks = DOMAIN h.blocks \cup {b}
      /\ g.blocks[b].sz = sz /\ g.blocks[b].pad = pad
      /\ g.blocks[b] = [sz |-> sz, pad |-> pad]
      /\ end = b + sz + pad
      /\ \A c \in DOMAIN h.blocks : g.blocks[c] = h.blocks[c]
  BY DEF Takes
<1>3. /\ g.free = [f \in DOMAIN g.free |-> g.free[f]]
      /\ \A f : f \in DOMAIN g.free <=>
                     (f \in DOMAIN h.free /\ f # b) \/ (f = end /\ end < Edge(h, b))
      /\ end < Edge(h, b) => end \notin DOMAIN h.free /\ g.free[end] = Edge(h, b) - end
      /\ \A f \in DOMAIN h.free : f # b => g.free[f] = h.free[f]
  BY DEF Takes
<1>4. /\ g = [f \in Fields |-> g[f]]
      /\ g.freed = h.freed \ {b}
      /\ g.mem = [i \in Positions |-> IF b + sz <= i /\ i < end THEN Marker ELSE h.mem[i]]
      /\ \A i \in Int : i \in g.lost <=> i \in h.lost /\ ~(b <= i /\ i < end)
      /\ g.lost \subseteq h.lost
  BY DEF Takes
<1>5. IsHeap(g)
  <2>1. b \in Positions /\ (end < Edge(h, b) => end \in Positions)
    BY <1>1, PositionsType
  <2>2. g.mem \in [Positions -> Bytes]
    <3>1. Marker \in Bytes /\ \A i \in Positions : h.mem[i] \in Bytes
      BY AllocatorAssumption DEF IsHeap
    <3>. QED BY <1>4, <3>1
  <2>3. \A c \in DOMAIN g.blocks : g.blocks[c] \in [sz : Nat, pad : Nat \ {0}]
    <3>1. [sz |-> sz, pad |-> pad] \in [sz : Nat, pad : Nat \ {0}]
      BY <1>1
    <3>. QED BY <1>2, <3>1 DEF IsHeap
  <2>4. \A f \in DOMAIN g.free : g.free[f] \in Nat \ {0}
    <3>1. end < Edge(h, b) => Edge(h, b) - end \in Nat \ {0}
      BY <1>1
    <3>2. \A f \in DOMAIN h.free : h.free[f] \in Nat \ {0}
      BY FieldType
    <3>. QED BY <1>3, <3>1, <3>2
  <2>5. g.freed \subseteq Positions /\ g.lost \subseteq Positions
    BY <1>4 DEF IsHeap
  <2>6. DOMAIN g.blocks \subseteq Positions /\ DOMAIN g.free \subseteq Positions
    BY <1>2, <1>3, <2>1 DEF IsHeap
  <2>. QED BY <1>2, <1>3, <1>4, <2>2, <2>3, <2>4, <2>5, <2>6 DEF IsHeap
<1>6. End(g, b) = end /\ \A c \in DOMAIN h.blocks : End(g, c) = End(h, c)
  BY <1>2 DEF End
<1>7. /\ end < Edge(h, b) => Edge(g, end) = Edge(h, b)
      /\ \A f \in DOMAIN h.free : f # b => Edge(g, f) = Edge(h, f)
  BY <1>1, <1>3 DEF Edge
<1>8. \A c \in DOMAIN h.blocks : /\ c \in Nat /\ End(h, c) \in Nat /\ c < End(h, c)
                                 /\ c # b /\ Multiple(c)
                                 /\ c < b => End(h, c) <= b
                                 /\ b < c => Edge(h, b) <= c /\ end <= c
  BY <1>1, EndType DEF Placed, Ordered, Aligned
<1>9. \A f \in DOMAIN h.free : /\ f \in Nat /\ Edge(h, f) \in Nat /\ f < Edge(h, f)
                               /\ Multiple(f)
                               /\ f < b => Edge(h, f) < b
                               /\ b < f => Edge(h, b) < f /\ end <= f
  BY <1>1, EndType DEF Placed, Ordered, Aligned
<1>10. end < Edge(h, b) => end \notin DOMAIN h.free /\ end \notin DOMAIN h.blocks
  BY <1>1, <1>8, <1>9
<1>11. Aligned(g)
  <2>1. \A c \in DOMAIN g.blocks : Multiple(c) /\ End(g, c) <= Size
    BY <1>1, <1>2, <1>6 DEF Aligned, Placed
  <2>2. \A f \in DOMAIN g.free : Multiple(f) /\ Edge(g, f) <= Size
    BY <1>1, <1>3, <1>7, <1>10 DEF Aligned, Placed
  <2>. QED BY <2>1, <2>2 DEF Aligned
<1>12. Ordered(g)
  <2>1. \A c, d \in DOMAIN g.blocks : c < d => End(g, c) <= d
    BY <1>1, <1>2, <1>6, <1>8 DEF Placed, Ordered
  <2>2. ASSUME NEW f \in DOMAIN g.free, NEW k \in DOMAIN g.free, f < k
        PROVE  Edge(g, f) < k
    <3>1. CASE f = end /\ end < Edge(h, b)
      BY <1>1, <1>3, <1>7, <1>9, <2>2, <3>1
    <3>2. CASE f \in DOMAIN h.free /\ f # b /\ k = end /\ end < Edge(h, b)
      BY <1>1, <1>3, <1>7, <1>9, <2>2, <3>2
    <3>3. CASE f \in DOMAIN h.free /\ f # b /\ k \in DOMAIN h.free /\ k # b
      BY <1>7, <2>2, <3>3 DEF Placed, Ordered
    <3>. QED BY <1>3, <3>1, <3>2, <3>3
  <2>3. ASSUME NEW c \in DOMAIN g.blocks, NEW f \in DOMAIN g.free
        PROVE  c # f /\ (c < f => End(g, c) <= f) /\ (f < c => Edge(g, f) <= c)
    <3>1. CASE f = end /\ end < Edge(h, b) /\ c = b
      BY <1>1, <1>6, <1>7, <3>1
    <3>4. CASE f = end /\ end < Edge(h, b) /\ c \in DOMAIN h.blocks
      BY <1>1, <1>6, <1>7, <1>8, <1>10, <3>4
    <3>2. CASE f \in DOMAIN h.free /\ f # b /\ c = b
      BY <1>1, <1>6, <1>7, <1>9, <3>2
    <3>3. CASE f \in DOMAIN h.free /\ f # b /\ c \in DOMAIN h.blocks
      BY <1>6, <1>7, <3>3 DEF Placed, Ordered
    <3>. QED BY <1>2, <1>3, <3>1, <3>2, <3>3, <3>4
  <2>. QED BY <2>1, <2>2, <2>3 DEF Ordered
<1>13. Slack(g)
  <2>1. ASSUME NEW c \in DOMAIN g.blocks, NEW i \in Positions, End(g, c) <= i, i < Up(End(g, c))
        PROVE  i \in g.lost
    <3>0. i \in Int
      BY PositionsType
    <3>1. CASE c = b
      BY <1>1, <1>6, <2>1, <3>0, <3>1, UpFacts
    <3>2. CASE c # b
      <4>1. c \in DOMAIN h.blocks /\ End(g, c) = End(h, c)
        BY <1>2, <1>6, <3>2
      <4>2. i \in h.lost
        BY <2>1, <4>1 DEF Placed, Slack
      <4>3. c < b => Up(End(h, c)) <= b
        BY <1>1, <1>8, <4>1, UpFacts
      <4>4. Up(End(h, c)) \in Int
        BY <1>8, <4>1, UpFacts
      <4>. QED BY <1>1, <1>4, <1>8, <2>1, <3>0, <4>1, <4>2, <4>3, <4>4
    <3>. QED BY <3>1, <3>2
  <2>2. ASSUME NEW f \in DOMAIN g.free, NEW i \in Positions, Edge(g, f) <= i, i < Up(Edge(g, f))
        PROVE  i \in g.lost
    <3>0. i \in Int
      BY PositionsType
    <3>1. CASE f = end /\ end < Edge(h, b)
      <4>1. Edge(g, f) = Edge(h, b)
         BY <1>7, <3>1
      <4>2. i \in h.lost
        BY <1>1, <2>2, <4>1 DEF Placed, Slack
      <4>. QED BY <1>1, <1>4, <2>2, <3>0, <3>1, <4>1, <4>2
    <3>2. CASE f \in DOMAIN h.free /\ f # b
      <4>1. f \in DOMAIN h.free /\ f # b /\ Edge(g, f) = Edge(h, f)
        BY <1>7, <3>2
      <4>2. i \in h.lost
        BY <2>2, <4>1 DEF Placed, Slack
      <4>3. f < b => Up(Edge(h, f)) <= b
        BY <1>1, <1>9, <4>1, UpFacts
      <4>4. Up(Edge(h, f)) \in Int
        BY <1>9, <4>1, UpFacts
      <4>. QED BY <1>1, <1>4, <1>9, <2>2, <3>0, <4>1, <4>2, <4>3, <4>4
    <3>. QED BY <1>3, <3>1, <3>2
  <2>. QED BY <2>1, <2>2 DEF Slack
<1>14. LostApart(g)
  <2>1. \A i \in g.lost : i \in Int
    BY <1>5, PositionsType DEF IsHeap
  <2>2. ASSUME NEW c \in DOMAIN g.blocks, NEW i \in g.lost
        PROVE  ~(c <= i /\ i < End(g, c))
    BY <1>2, <1>4, <1>6, <2>1 DEF Placed, LostApart
  <2>3. ASSUME NEW f \in DOMAIN g.free, NEW i \in g.lost
        PROVE  ~(f <= i /\ i < Edge(g, f))
    <3>1. CASE f = end /\ end < Edge(h, b)
      BY <1>1, <1>4, <1>7, <2>1, <3>1 DEF Placed, LostApart
    <3>2. CASE f \in DOMAIN h.free /\ f # b
      BY <1>4, <1>7, <3>2 DEF Placed, LostApart
    <3>. QED BY <1>3, <3>1, <3>2
  <2>. QED BY <2>2, <2>3 DEF LostApart
<1>15. Covered(g)
  <2>. SUFFICES ASSUME NEW i \in Positions
                PROVE  \/ \E c \in DOMAIN g.blocks : c <= i /\ i < End(g, c)
                       \/ \E f \in DOMAIN g.free : f <= i /\ i < Edge(g, f)
                       \/ i \in g.lost
    BY DEF Covered
  <2>0. i \in Int
    BY PositionsType
  <2>1. CASE b <= i /\ i < end
    BY <1>2, <1>6, <2>1
  <2>2. CASE ~(b <= i /\ i < end) /\ i \in h.lost
    BY <1>4, <2>0, <2>2
  <2>3. CASE \E c \in DOMAIN h.blocks : c <= i /\ i < End(h, c)
    BY <1>2, <1>6, <2>3
  <2>4. ASSUME ~(b <= i /\ i < end), NEW f \in DOMAIN h.free, f <= i, i < Edge(h, f)
        PROVE  \E k \in DOMAIN g.free : k <= i /\ i < Edge(g, k)
    <3>1. CASE f = b
      BY <1>1, <1>3, <1>7, <2>0, <2>4, <3>1
    <3>2. CASE f # b
      <4>1. f \in DOMAIN g.free
        BY <1>3, <3>2
      <4>2. Edge(g, f) = Edge(h, f)
        BY <1>7, <2>4, <3>2
      <4>. QED BY <2>4, <4>1, <4>2
    <3>. QED BY <3>1, <3>2
  <2>. QED BY <2>1, <2>2, <2>3, <2>4 DEF Placed, Covered
<1>. QED BY <1>5, <1>11, <1>12, <1>13, <1>14, <1>15 DEF Placed

(* MergeRight swallows the entry that begins where p's ends, MergeLeft     *)
(* joins p to the entry that ends where p begins.                          *)
LEMMA MergeRightIs ==
  ASSUME NEW f, DOMAIN f \subseteq Nat, \A q \in DOMAIN f : f[q] \in Nat \ {0},
         NEW p \in DOMAIN f, \A q \in DOMAIN f : p < q => p + f[p] <= q,
         NEW k, k = p + f[p], NEW m, m = MergeRight(f, p)
  PROVE  /\ m = [z \in DOMAIN m |-> m[z]]
         /\ DOMAIN m = DOMAIN f \ {k}
         /\ m[p] = IF k \in DOMAIN f THEN f[p] + f[k] ELSE f[p]
         /\ \A z \in DOMAIN m : z # p => m[z] = f[z]
<1>. DEFINE R == {q \in Following(f, p) : q - p = f[p]}
            g == [f EXCEPT ![p] = @ + IF R = {} THEN 0 ELSE f[Min(R)]]
<1>1. p \in Nat /\ f[p] \in Nat \ {0} /\ k \in Nat /\ p < k
  OBVIOUS
<1>2. R = DOMAIN f \cap {k}
  BY <1>1 DEF Following
<1>3. m = [z \in DOMAIN g \ R |-> g[z]]
  BY DEF MergeRight, Less
<1>4. R # {} => R = {k} /\ Min(R) = k
  BY <1>1, <1>2, MinOfOne
<1>. HIDE DEF R
<1>5. DOMAIN g = DOMAIN f /\ \A z \in DOMAIN f : z # p => g[z] = f[z]
  OBVIOUS
<1>6. g[p] = IF k \in DOMAIN f THEN f[p] + f[k] ELSE f[p]
  BY <1>1, <1>2, <1>4
<1>. HIDE DEF g
<1>. QED BY <1>1, <1>2, <1>3, <1>5, <1>6

LeftMerged(f, p, m) ==
  /\ \A l \in DOMAIN f : l + f[l] = p =>
       /\ m = [z \in DOMAIN m |-> m[z]]
       /\ DOMAIN m = DOMAIN f \ {p}
       /\ m[l] = f[l] + f[p]
       /\ \A z \in DOMAIN m : z # l => m[z] = f[z]
  /\ (\A l \in DOMAIN f : l + f[l] # p) => m = f

(* m61_free joins the free block that ends where this one begins with it   *)
(* (m61.cc:217-228).                                                       *)
LEMMA MergeLeftIs ==
  ASSUME NEW f, DOMAIN f \subseteq Nat, \A q \in DOMAIN f : f[q] \in Nat \ {0},
         NEW p \in DOMAIN f, \A q, r \in DOMAIN f : q < r => q + f[q] <= r,
         NEW m, m = MergeLeft(f, p)
  PROVE  LeftMerged(f, p, m)
<1>. DEFINE L == {q \in Preceding(f, p) : p - q = f[q]}
<1>1. m = IF L = {} THEN f ELSE Less([f EXCEPT ![Min(L)] = @ + f[p]], {p})
  BY DEF MergeLeft
<1>2. \A l \in DOMAIN f : l + f[l] = p <=> l \in L
  BY DEF Preceding
<1>3. L \subseteq DOMAIN f
  BY DEF Preceding
<1>. HIDE DEF L
<1>4. ASSUME NEW l \in DOMAIN f, l + f[l] = p
      PROVE  /\ m = [z \in DOMAIN m |-> m[z]]
             /\ DOMAIN m = DOMAIN f \ {p}
             /\ m[l] = f[l] + f[p]
             /\ \A z \in DOMAIN m : z # l => m[z] = f[z]
  <2>1. \A q \in L : q = l
    BY <1>2, <1>3, <1>4
  <2>2. L = {l} /\ Min(L) = l
    BY <1>2, <1>4, <2>1, MinOfOne
  <2>3. m = [z \in DOMAIN f \ {p} |-> [f EXCEPT ![l] = @ + f[p]][z]]
    BY <1>1, <2>2 DEF Less
  <2>4. l # p
    BY <1>4
  <2>. QED BY <2>3, <2>4
<1>5. (\A l \in DOMAIN f : l + f[l] # p) => m = f
  BY <1>1, <1>2, <1>3
<1>. QED BY <1>4, <1>5 DEF LeftMerged

(* g is h without the block p, with a free block from s to e around it.    *)
Gives(h, p, g, s, e) ==
  /\ s \in Nat /\ Multiple(s) /\ s <= p /\ e \in Nat /\ End(h, p) <= e /\ e <= Size
  /\ s = p \/ (s \in DOMAIN h.free /\ Edge(h, s) = p)
  /\ \/ e = End(h, p) /\ e \notin DOMAIN h.free
     \/ End(h, p) \in DOMAIN h.free /\ e = Edge(h, End(h, p))
  /\ \A f \in DOMAIN h.free : f < p /\ f # s => Edge(h, f) < s
  /\ g = [f \in Fields |-> g[f]]
  /\ g.blocks = [c \in DOMAIN g.blocks |-> g.blocks[c]]
  /\ DOMAIN g.blocks = DOMAIN h.blocks \ {p}
  /\ \A c \in DOMAIN g.blocks : g.blocks[c] = h.blocks[c]
  /\ g.free = [f \in DOMAIN g.free |-> g.free[f]]
  /\ \A f : f \in DOMAIN g.free <=>
              f = s \/ (f \in DOMAIN h.free /\ f # s /\ f # End(h, p))
  /\ g.free[s] = e - s
  /\ \A f \in DOMAIN g.free : f # s => g.free[f] = h.free[f]
  /\ g.freed = h.freed \cup {p}
  /\ g.mem = h.mem /\ g.lost = h.lost

(* m61_free makes one free block out of the block and its free neighbours  *)
(* (m61.cc:198-228).                                                       *)
LEMMA GivenIs ==
  ASSUME NEW h, IsHeap(h), Placed(h), NEW p \in DOMAIN h.blocks,
         NEW g, g = Given(h, p)
  PROVE  \E s, e : Gives(h, p, g, s, e)
<1>. DEFINE n == h.blocks[p].sz + h.blocks[p].pad
            f0 == With(h.free, p, n)
            f1 == MergeRight(f0, p)
            k == End(h, p)
<1>1. /\ g = [f \in Fields |-> g[f]]
      /\ g.blocks = Less(h.blocks, {p})
      /\ g.free = MergeLeft(f1, p)
      /\ g.freed = h.freed \cup {p}
      /\ g.mem = h.mem /\ g.lost = h.lost
  <2>. DEFINE B == Less(h.blocks, {p})
              F == Coalesce(f0, p)
              D == h.freed \cup {p}
  <2>1. g = [h EXCEPT !.blocks = B, !.free = F, !.freed = D]
    BY DEF Given
  <2>2. F = MergeLeft(f1, p)
    BY DEF Coalesce
  <2>. HIDE DEF B, F, D
  <2>3. h = [f \in Fields |-> h[f]]
    BY DEF IsHeap
  <2>4. DOMAIN h = Fields
    BY <2>3
  <2>5. DOMAIN g = Fields
    BY <2>1, <2>4 DEF Fields
  <2>6. g = [f \in Fields |-> g[f]]
    BY <2>1, <2>5
  <2>7. g.blocks = B /\ g.free = F /\ g.freed = D /\ g.mem = h.mem /\ g.lost = h.lost
    BY <2>1, <2>4 DEF Fields
  <2>. QED BY <2>2, <2>6, <2>7 DEF B, D
<1>2. /\ p \in Nat /\ Multiple(p) /\ k \in Nat /\ p < k /\ k <= Size
      /\ n \in Nat \ {0} /\ k = p + n
  BY FieldType, EndType DEF Placed, Aligned, End
<1>3. \A f \in DOMAIN h.free : /\ f \in Nat /\ h.free[f] \in Nat \ {0} /\ Multiple(f)
                               /\ Edge(h, f) = f + h.free[f] /\ Edge(h, f) \in Nat
                               /\ f < Edge(h, f) /\ Edge(h, f) <= Size
                               /\ f # p
                               /\ f < p => Edge(h, f) <= p
                               /\ p < f => k <= f
  BY FieldType, EndType DEF Placed, Aligned, Ordered, Edge
<1>. HIDE DEF n, k
<1>4. /\ DOMAIN f0 = DOMAIN h.free \cup {p}
      /\ f0[p] = n
      /\ \A f \in DOMAIN h.free : f0[f] = h.free[f]
  BY <1>3 DEF With
<1>. HIDE DEF f0
<1>5. /\ f1 = [z \in DOMAIN f1 |-> f1[z]]
      /\ DOMAIN f1 = DOMAIN f0 \ {k}
      /\ f1[p] = IF k \in DOMAIN f0 THEN f0[p] + f0[k] ELSE f0[p]
      /\ \A z \in DOMAIN f1 : z # p => f1[z] = f0[z]
  <2>1. DOMAIN f0 \subseteq Nat /\ \A q \in DOMAIN f0 : f0[q] \in Nat \ {0}
    BY <1>2, <1>3, <1>4
  <2>2. p \in DOMAIN f0 /\ k = p + f0[p] /\ \A q \in DOMAIN f0 : p < q => p + f0[p] <= q
    BY <1>2, <1>3, <1>4
  <2>. QED BY <2>1, <2>2, MergeRightIs
<1>. HIDE DEF f1
<1>6. \A f, q \in DOMAIN h.free : f < q => Edge(h, f) < q
  BY DEF Placed, Ordered
<1>. DEFINE e == IF k \in DOMAIN h.free THEN Edge(h, k) ELSE k
<1>7. /\ e \in Nat /\ k <= e /\ e <= Size
      /\ \/ e = k /\ e \notin DOMAIN h.free
         \/ k \in DOMAIN h.free /\ e = Edge(h, k)
      /\ \A f \in DOMAIN h.free : p < f /\ f # k => e < f
  BY <1>2, <1>3, <1>6
<1>8. f1[p] = e - p
  BY <1>2, <1>3, <1>4, <1>5
<1>. HIDE DEF e
<1>9. \A f \in DOMAIN f1 : /\ f \in Nat /\ f1[f] \in Nat \ {0}
                           /\ f # p => f \in DOMAIN h.free /\ f # k /\ f1[f] = h.free[f]
  BY <1>2, <1>3, <1>4, <1>5, <1>7, <1>8
<1>10. /\ p \in DOMAIN f1
       /\ \A f \in DOMAIN h.free : f # k => f \in DOMAIN f1
       /\ \A f \in DOMAIN f1 : f = p \/ (f \in DOMAIN h.free /\ f # k)
  BY <1>2, <1>4, <1>5
<1>11. \A f, q \in DOMAIN f1 : f < q => f + f1[f] <= q
  BY <1>2, <1>3, <1>6, <1>7, <1>8, <1>9
<1>12. /\ \A l \in DOMAIN f1 : l + f1[l] = p =>
              /\ g.free = [z \in DOMAIN g.free |-> g.free[z]]
              /\ DOMAIN g.free = DOMAIN f1 \ {p}
              /\ g.free[l] = f1[l] + f1[p]
              /\ \A z \in DOMAIN g.free : z # l => g.free[z] = f1[z]
       /\ (\A l \in DOMAIN f1 : l + f1[l] # p) => g.free = f1
  <2>1. DOMAIN f1 \subseteq Nat /\ \A q \in DOMAIN f1 : f1[q] \in Nat \ {0}
    BY <1>9
  <2>2. p \in DOMAIN f1 /\ g.free = MergeLeft(f1, p)
    BY <1>1, <1>10
  <2>3. LeftMerged(f1, p, g.free)
    BY <1>11, <2>1, <2>2, MergeLeftIs
  <2>. QED BY <2>3 DEF LeftMerged
<1>13. /\ g.blocks = [c \in DOMAIN g.blocks |-> g.blocks[c]]
       /\ DOMAIN g.blocks = DOMAIN h.blocks \ {p}
       /\ \A c \in DOMAIN g.blocks : g.blocks[c] = h.blocks[c]
  BY <1>1 DEF Less
<1>14. CASE \A l \in DOMAIN f1 : l + f1[l] # p
  <2>1. \A f \in DOMAIN h.free : f < p /\ f # p => Edge(h, f) < p
    <3>1. ASSUME NEW f \in DOMAIN h.free, f < p PROVE Edge(h, f) < p
      <4>1. f \in DOMAIN f1 /\ f1[f] = h.free[f]
        BY <1>2, <1>3, <1>9, <1>10, <3>1
      <4>. QED BY <1>2, <1>3, <1>14, <3>1, <4>1
    <3>. QED BY <3>1
  <2>2. Gives(h, p, g, p, e)
    <3>1. g.free = f1
      BY <1>12, <1>14
    <3>2. /\ g.free = [f \in DOMAIN g.free |-> g.free[f]]
          /\ \A f : f \in DOMAIN g.free <=>
              f = p \/ (f \in DOMAIN h.free /\ f # p /\ f # k)
          /\ g.free[p] = e - p
          /\ \A f \in DOMAIN g.free : f # p => g.free[f] = h.free[f]
      BY <1>3, <1>5, <1>8, <1>9, <1>10, <3>1
    <3>. QED BY <1>1, <1>2, <1>7, <1>13, <2>1, <3>2 DEF Gives, k
  <2>. QED BY <2>2
<1>15. ASSUME NEW l \in DOMAIN f1, l + f1[l] = p
       PROVE  Gives(h, p, g, l, e)
  <2>1. l # p /\ l \in DOMAIN h.free /\ l # k /\ f1[l] = h.free[l] /\ l < p /\ Edge(h, l) = p
    BY <1>2, <1>3, <1>9, <1>15
  <2>2. \A f \in DOMAIN h.free : f < p /\ f # l => Edge(h, f) < l
    <3>1. ASSUME NEW f \in DOMAIN h.free, f < p, f # l PROVE f < l
      <4>1. l < f => Edge(h, l) < f
        BY <1>6, <2>1
      <4>. QED BY <1>2, <1>3, <2>1, <3>1, <4>1
    <3>. QED BY <1>6, <2>1, <3>1
  <2>3. /\ g.free = [f \in DOMAIN g.free |-> g.free[f]]
        /\ \A f : f \in DOMAIN g.free <=>
              f = l \/ (f \in DOMAIN h.free /\ f # l /\ f # k)
        /\ g.free[l] = e - l
        /\ \A f \in DOMAIN g.free : f # l => g.free[f] = h.free[f]
    <3>1. /\ g.free = [z \in DOMAIN g.free |-> g.free[z]]
          /\ DOMAIN g.free = DOMAIN f1 \ {p}
          /\ g.free[l] = f1[l] + f1[p]
          /\ \A z \in DOMAIN g.free : z # l => g.free[z] = f1[z]
      BY <1>12, <1>15
    <3>2. g.free[l] = e - l
      BY <1>2, <1>3, <1>7, <1>8, <1>15, <2>1, <3>1
    <3>. QED BY <1>3, <1>9, <1>10, <2>1, <3>1, <3>2
  <2>. QED BY <1>1, <1>2, <1>3, <1>7, <1>13, <2>1, <2>2, <2>3 DEF Gives, k
<1>. QED BY <1>14, <1>15

(* After m61_free, blocks and free memory are placed as before             *)
(* (m61.cc:198-228).                                                       *)
LEMMA GivesPlaced ==
  ASSUME NEW h, IsHeap(h), Placed(h), NEW p \in DOMAIN h.blocks, NEW g, NEW s, NEW e,
         Gives(h, p, g, s, e)
  PROVE  IsHeap(g) /\ Placed(g)
<1>. DEFINE k == End(h, p)
<1>1. /\ s \in Nat /\ Multiple(s) /\ s <= p /\ e \in Nat /\ k <= e /\ e <= Size
      /\ s = p \/ (s \in DOMAIN h.free /\ Edge(h, s) = p)
      /\ \/ e = k /\ e \notin DOMAIN h.free
         \/ k \in DOMAIN h.free /\ e = Edge(h, k)
      /\ \A f \in DOMAIN h.free : f < p /\ f # s => Edge(h, f) < s
  BY DEF Gives
<1>2. /\ g = [f \in Fields |-> g[f]]
      /\ g.blocks = [c \in DOMAIN g.blocks |-> g.blocks[c]]
      /\ DOMAIN g.blocks = DOMAIN h.blocks \ {p}
      /\ \A c \in DOMAIN g.blocks : g.blocks[c] = h.blocks[c]
      /\ g.freed = h.freed \cup {p}
      /\ g.mem = h.mem /\ g.lost = h.lost
  BY DEF Gives
<1>3. /\ g.free = [f \in DOMAIN g.free |-> g.free[f]]
      /\ \A f : f \in DOMAIN g.free <=>
                  f = s \/ (f \in DOMAIN h.free /\ f # s /\ f # k)
      /\ g.free[s] = e - s
      /\ \A f \in DOMAIN g.free : f # s => g.free[f] = h.free[f]
  BY DEF Gives
<1>4. p \in Nat /\ k \in Nat /\ p < k /\ p < Size /\ Multiple(p)
  BY EndType DEF Placed, Aligned
<1>5. \A c \in DOMAIN h.blocks : /\ c \in Nat /\ End(h, c) \in Nat /\ c < End(h, c)
                                 /\ c < p => End(h, c) <= p
                                 /\ p < c => k <= c
  BY EndType DEF Placed, Ordered
<1>6. \A f \in DOMAIN h.free : /\ f \in Nat /\ Edge(h, f) \in Nat /\ f < Edge(h, f)
                               /\ f # p
                               /\ f < p => Edge(h, f) <= p
                               /\ p < f => k <= f
  BY EndType DEF Placed, Ordered
<1>. HIDE DEF k
<1>7. IsHeap(g)
  <2>1. s \in Positions
    BY <1>1, <1>4, PositionsType
  <2>2. \A f \in DOMAIN g.free : g.free[f] \in Nat \ {0}
    <3>1. e - s \in Nat \ {0}
      BY <1>1, <1>4
    <3>2. \A f \in DOMAIN h.free : h.free[f] \in Nat \ {0}
      BY FieldType
    <3>. QED BY <1>3, <3>1, <3>2
  <2>3. DOMAIN g.blocks \subseteq Positions /\ DOMAIN g.free \subseteq Positions
        /\ g.freed \subseteq Positions
    BY <1>2, <1>3, <2>1 DEF IsHeap
  <2>4. \A c \in DOMAIN g.blocks : g.blocks[c] \in [sz : Nat, pad : Nat \ {0}]
    BY <1>2 DEF IsHeap
  <2>5. g.mem \in [Positions -> Bytes] /\ g.lost \subseteq Positions
    BY <1>2 DEF IsHeap
  <2>. QED BY <1>2, <1>3, <2>2, <2>3, <2>4, <2>5 DEF IsHeap
<1>8. \A c \in DOMAIN g.blocks : c \in DOMAIN h.blocks /\ c # p /\ End(g, c) = End(h, c)
  BY <1>2 DEF End
<1>9. s \in DOMAIN g.free /\ Edge(g, s) = e
  BY <1>1, <1>3 DEF Edge
<1>10. \A f \in DOMAIN g.free : f # s => /\ f \in DOMAIN h.free /\ f # k
                                         /\ Edge(g, f) = Edge(h, f)
  BY <1>3 DEF Edge
<1>11. \A f \in DOMAIN g.free : f # s => /\ f < p => Edge(h, f) < s
                                         /\ p < f => e < f
  <2>1. \A f \in DOMAIN h.free : k < f => e < f
    BY <1>1, <1>4, <1>6 DEF Placed, Ordered
  <2>. QED BY <1>1, <1>4, <1>6, <1>10, <2>1
<1>12. \A c \in DOMAIN g.blocks : /\ c < p => End(h, c) <= s
                                  /\ p < c => e <= c
  <2>1. \A c \in DOMAIN h.blocks, f \in DOMAIN h.free :
          c # f /\ (c < f => End(h, c) <= f) /\ (f < c => Edge(h, f) <= c)
    BY DEF Placed, Ordered
  <2>. QED BY <1>1, <1>4, <1>5, <1>6, <1>8, <2>1
<1>13. Aligned(g)
  <2>1. \A c \in DOMAIN g.blocks : Multiple(c) /\ End(g, c) <= Size
    BY <1>8 DEF Placed, Aligned
  <2>2. \A f \in DOMAIN g.free : Multiple(f) /\ Edge(g, f) <= Size
    BY <1>1, <1>9, <1>10 DEF Placed, Aligned
  <2>. QED BY <2>1, <2>2 DEF Aligned
<1>14. Ordered(g)
  <2>1. \A c, d \in DOMAIN g.blocks : c < d => End(g, c) <= d
    BY <1>8 DEF Placed, Ordered
  <2>2. ASSUME NEW f \in DOMAIN g.free, NEW q \in DOMAIN g.free, f < q
        PROVE  Edge(g, f) < q
    <3>1. CASE f = s
      BY <1>1, <1>4, <1>6, <1>9, <1>10, <1>11, <2>2, <3>1
    <3>2. CASE f # s /\ q = s
      BY <1>1, <1>4, <1>6, <1>10, <1>11, <2>2, <3>2
    <3>3. CASE f # s /\ q # s
      BY <1>10, <2>2, <3>3 DEF Placed, Ordered
    <3>. QED BY <3>1, <3>2, <3>3
  <2>3. ASSUME NEW c \in DOMAIN g.blocks, NEW f \in DOMAIN g.free
        PROVE  c # f /\ (c < f => End(g, c) <= f) /\ (f < c => Edge(g, f) <= c)
    <3>1. CASE f = s
      BY <1>1, <1>4, <1>5, <1>8, <1>9, <1>12, <3>1
    <3>2. CASE f # s
      BY <1>8, <1>10, <3>2 DEF Placed, Ordered
    <3>. QED BY <3>1, <3>2
  <2>. QED BY <2>1, <2>2, <2>3 DEF Ordered
<1>15. Slack(g)
  <2>1. ASSUME NEW c \in DOMAIN g.blocks, NEW i \in Positions, End(g, c) <= i, i < Up(End(g, c))
        PROVE  i \in g.lost
    BY <1>2, <1>8, <2>1 DEF Placed, Slack
  <2>2. ASSUME NEW f \in DOMAIN g.free, NEW i \in Positions, Edge(g, f) <= i, i < Up(Edge(g, f))
        PROVE  i \in g.lost
    <3>1. CASE f = s
      BY <1>1, <1>2, <1>9, <2>2, <3>1 DEF Placed, Slack, k
    <3>2. CASE f # s
      BY <1>2, <1>10, <2>2, <3>2 DEF Placed, Slack
    <3>. QED BY <3>1, <3>2
  <2>. QED BY <2>1, <2>2 DEF Slack
<1>16. LostApart(g)
  <2>1. \A i \in g.lost : i \in Int
    BY <1>7, PositionsType DEF IsHeap
  <2>2. ASSUME NEW c \in DOMAIN g.blocks, NEW i \in g.lost
        PROVE  ~(c <= i /\ i < End(g, c))
    BY <1>2, <1>8 DEF Placed, LostApart
  <2>3. ASSUME NEW f \in DOMAIN g.free, NEW i \in g.lost
        PROVE  ~(f <= i /\ i < Edge(g, f))
    <3>1. CASE f = s
      <4>1. /\ ~(p <= i /\ i < k)
            /\ \A q \in DOMAIN h.free : ~(q <= i /\ i < Edge(h, q))
        BY <1>2 DEF Placed, LostApart, k
      <4>. QED BY <1>1, <1>4, <1>9, <2>1, <3>1, <4>1
    <3>2. CASE f # s
      BY <1>2, <1>10, <3>2 DEF Placed, LostApart
    <3>. QED BY <3>1, <3>2
  <2>. QED BY <2>2, <2>3 DEF LostApart
<1>17. Covered(g)
  <2>. SUFFICES ASSUME NEW i \in Positions
                PROVE  \/ \E c \in DOMAIN g.blocks : c <= i /\ i < End(g, c)
                       \/ \E f \in DOMAIN g.free : f <= i /\ i < Edge(g, f)
                       \/ i \in g.lost
    BY DEF Covered
  <2>0. i \in Int
    BY PositionsType
  <2>1. CASE s <= i /\ i < e
    BY <1>9, <2>1
  <2>2. CASE i \in h.lost
    BY <1>2, <2>2
  <2>3. ASSUME ~(s <= i /\ i < e), NEW c \in DOMAIN h.blocks, c <= i, i < End(h, c)
        PROVE  \E d \in DOMAIN g.blocks : d <= i /\ i < End(g, d)
    <3>1. c # p
      BY <1>1, <1>4, <2>0, <2>3 DEF k
    <3>. QED BY <1>2, <1>8, <2>3, <3>1
  <2>4. ASSUME ~(s <= i /\ i < e), NEW f \in DOMAIN h.free, f <= i, i < Edge(h, f)
        PROVE  \E q \in DOMAIN g.free : q <= i /\ i < Edge(g, q)
    <3>1. f # s /\ f # k
      BY <1>1, <1>4, <1>6, <2>0, <2>4
    <3>. QED BY <1>3, <1>10, <2>4, <3>1
  <2>. QED BY <2>1, <2>2, <2>3, <2>4 DEF Placed, Covered
<1>. QED BY <1>7, <1>13, <1>14, <1>15, <1>16, <1>17 DEF Placed

(* Filling or copying changes the bytes of the buffer and nothing else.    *)
LEMMA MemOnly ==
  ASSUME NEW h, IsHeap(h), NEW m, NEW g, g = [h EXCEPT !.mem = m]
  PROVE  /\ g = [f \in Fields |-> g[f]]
         /\ g.blocks = h.blocks /\ g.free = h.free /\ g.freed = h.freed
         /\ g.mem = m /\ g.lost = h.lost
<1>1. h = [f \in Fields |-> h[f]]
  BY DEF IsHeap
<1>2. DOMAIN h = Fields
  BY <1>1
<1>3. DOMAIN g = Fields
  BY <1>2 DEF Fields
<1>4. g = [f \in Fields |-> g[f]]
  BY <1>3
<1>. QED BY <1>2, <1>4 DEF Fields

(* So they do not move anything.                                           *)
LEMMA MemPlaced ==
  ASSUME NEW h, IsHeap(h), Placed(h), NEW g, NEW m \in [Positions -> Bytes],
         g = [f \in Fields |-> g[f]],
         g.blocks = h.blocks, g.free = h.free, g.freed = h.freed,
         g.mem = m, g.lost = h.lost
  PROVE  IsHeap(g) /\ Placed(g)
<1>1. IsHeap(g)
  BY DEF IsHeap
<1>2. /\ \A c \in DOMAIN h.blocks : End(g, c) = End(h, c)
      /\ \A f \in DOMAIN h.free : Edge(g, f) = Edge(h, f)
  BY DEF End, Edge
<1>3. Aligned(g) /\ Ordered(g)
  BY <1>2 DEF Placed, Aligned, Ordered
<1>4. Slack(g)
  BY <1>2 DEF Placed, Slack
<1>5. LostApart(g)
  BY <1>2 DEF Placed, LostApart
<1>6. Covered(g)
  BY <1>2 DEF Placed, Covered
<1>. QED BY <1>1, <1>3, <1>4, <1>5, <1>6 DEF Placed

(* g is h with the block p cut to sz bytes and end; what was behind end is *)
(* lost.                                                                   *)
Shrinks(h, p, sz, g, end) ==
  /\ end = p + sz + h.blocks[p].pad /\ end <= End(h, p)
  /\ g = [f \in Fields |-> g[f]]
  /\ g.blocks = [c \in DOMAIN h.blocks |-> g.blocks[c]]
  /\ g.blocks[p] = [sz |-> sz, pad |-> h.blocks[p].pad]
  /\ \A c \in DOMAIN h.blocks : c # p => g.blocks[c] = h.blocks[c]
  /\ g.free = h.free /\ g.freed = h.freed
  /\ g.mem = [i \in Positions |-> IF p + sz <= i /\ i < end THEN Marker ELSE h.mem[i]]
  /\ \A i : i \in g.lost <=> i \in h.lost \/ (i \in Int /\ end <= i /\ i < End(h, p))

(* What a shrinking m61_realloc does to each field of the heap.            *)
LEMMA ShrunkIs ==
  ASSUME NEW h, IsHeap(h), NEW p \in DOMAIN h.blocks, NEW sz \in 1..h.blocks[p].sz,
         NEW g, g = Shrunk(h, p, sz), NEW end, end = p + sz + h.blocks[p].pad
  PROVE  Shrinks(h, p, sz, g, end)
<1>. DEFINE B == [h.blocks EXCEPT ![p].sz = sz]
            M == Fill(h.mem, Span(p + sz, h.blocks[p].pad), Marker)
            L == h.lost \cup Span(p + sz + h.blocks[p].pad, h.blocks[p].sz - sz)
<1>1. g = [h EXCEPT !.blocks[p].sz = sz, !.mem = M, !.lost = L]
  BY DEF Shrunk
<1>2. h = [f \in Fields |-> h[f]]
  BY DEF IsHeap
<1>3. DOMAIN h = Fields
  BY <1>2
<1>. HIDE DEF M, L
<1>4. DOMAIN g = Fields
  BY <1>1, <1>3 DEF Fields
<1>5. g = [f \in Fields |-> g[f]]
  BY <1>1, <1>4
<1>6. g.blocks = B /\ g.free = h.free /\ g.freed = h.freed /\ g.mem = M /\ g.lost = L
  BY <1>1, <1>3 DEF Fields
<1>7. /\ p \in Nat /\ h.blocks[p].sz \in Nat /\ h.blocks[p].pad \in Nat \ {0} /\ sz \in Nat
      /\ sz <= h.blocks[p].sz
      /\ h.blocks[p] \in [sz : Nat, pad : Nat \ {0}]
  <2>1. p \in Nat /\ h.blocks[p].sz \in Nat /\ h.blocks[p].pad \in Nat \ {0}
    BY FieldType
  <2>2. h.blocks[p] \in [sz : Nat, pad : Nat \ {0}]
    BY DEF IsHeap
  <2>. QED BY <2>1, <2>2
<1>8. g.blocks = [c \in DOMAIN h.blocks |-> g.blocks[c]]
      /\ \A c \in DOMAIN h.blocks : c # p => g.blocks[c] = h.blocks[c]
  BY <1>6
<1>9. g.blocks[p] = [sz |-> sz, pad |-> h.blocks[p].pad]
  <2>1. g.blocks[p] = [h.blocks[p] EXCEPT !.sz = sz]
    BY <1>6
  <2>. QED BY <1>7, <2>1
<1>10. end <= End(h, p) /\ end \in Nat /\ End(h, p) = end + (h.blocks[p].sz - sz)
  BY <1>7 DEF End
<1>11. g.mem = [i \in Positions |-> IF p + sz <= i /\ i < end THEN Marker ELSE h.mem[i]]
  <2>1. \A i \in Positions : i \in Span(p + sz, h.blocks[p].pad) <=> p + sz <= i /\ i < end
    BY <1>7, PositionsType DEF Span
  <2>. QED BY <1>6, <2>1 DEF Fill, M
<1>12. \A i : i \in g.lost <=> i \in h.lost \/ (i \in Int /\ end <= i /\ i < End(h, p))
  BY <1>6, <1>7, <1>10 DEF L, Span
<1>. QED BY <1>5, <1>6, <1>8, <1>9, <1>10, <1>11, <1>12 DEF Shrinks

(* After a shrinking m61_realloc, blocks, free memory and lost bytes are   *)
(* placed as before (m61.cc:289-295).                                      *)
LEMMA ShrinksPlaced ==
  ASSUME NEW h, IsHeap(h), Placed(h), NEW p \in DOMAIN h.blocks, NEW sz \in 1..h.blocks[p].sz,
         NEW g, NEW end, Shrinks(h, p, sz, g, end)
  PROVE  IsHeap(g) /\ Placed(g)
<1>1. /\ end = p + sz + h.blocks[p].pad /\ end <= End(h, p)
      /\ g = [f \in Fields |-> g[f]]
      /\ g.blocks = [c \in DOMAIN h.blocks |-> g.blocks[c]]
      /\ g.blocks[p] = [sz |-> sz, pad |-> h.blocks[p].pad]
      /\ \A c \in DOMAIN h.blocks : c # p => g.blocks[c] = h.blocks[c]
      /\ g.free = h.free /\ g.freed = h.freed
      /\ g.mem = [i \in Positions |-> IF p + sz <= i /\ i < end THEN Marker ELSE h.mem[i]]
      /\ \A i : i \in g.lost <=> i \in h.lost \/ (i \in Int /\ end <= i /\ i < End(h, p))
  BY DEF Shrinks
<1>2. /\ p \in Nat /\ sz \in Nat /\ h.blocks[p].sz \in Nat /\ h.blocks[p].pad \in Nat \ {0}
      /\ End(h, p) \in Nat /\ End(h, p) <= Size
  BY FieldType, EndType DEF Placed, Aligned
<1>3. end \in Nat /\ p < end /\ DOMAIN g.blocks = DOMAIN h.blocks
  BY <1>1, <1>2
<1>4. End(g, p) = end /\ \A c \in DOMAIN h.blocks : c # p => End(g, c) = End(h, c)
  BY <1>1 DEF End
<1>5. \A f \in DOMAIN h.free : Edge(g, f) = Edge(h, f)
  BY <1>1 DEF Edge
<1>6. IsHeap(g)
  <2>1. \A c \in DOMAIN g.blocks : g.blocks[c] \in [sz : Nat, pad : Nat \ {0}]
    <3>1. g.blocks[p] \in [sz : Nat, pad : Nat \ {0}]
      BY <1>1, <1>2
    <3>. QED BY <1>1, <1>3, <3>1 DEF IsHeap
  <2>2. g.lost \subseteq Positions
    <3>1. \A i : i \in Int /\ end <= i /\ i < End(h, p) => i \in Positions
      BY <1>2, <1>3, PositionsType
    <3>. QED BY <1>1, <3>1 DEF IsHeap
  <2>3. g.mem \in [Positions -> Bytes]
    <3>1. Marker \in Bytes /\ \A i \in Positions : h.mem[i] \in Bytes
      BY AllocatorAssumption DEF IsHeap
    <3>. QED BY <1>1, <3>1
  <2>. QED BY <1>1, <1>3, <2>1, <2>2, <2>3 DEF IsHeap
<1>7. \A c \in DOMAIN h.blocks : /\ c \in Nat /\ End(h, c) \in Nat /\ c < End(h, c)
                                 /\ c < p => End(h, c) <= p
                                 /\ p < c => End(h, p) <= c
  BY EndType DEF Placed, Ordered
<1>8. \A f \in DOMAIN h.free : /\ f \in Nat /\ Edge(h, f) \in Nat /\ f < Edge(h, f)
                               /\ f # p
                               /\ f < p => Edge(h, f) <= p
                               /\ p < f => End(h, p) <= f
  BY EndType DEF Placed, Ordered
<1>9. Aligned(g)
  <2>1. Size \in Nat
    BY PositionsType
  <2>2. \A c \in DOMAIN g.blocks : Multiple(c) /\ End(g, c) <= Size
    <3>1. end <= Size
      BY <1>1, <1>2, <1>3, <2>1
    <3>. QED BY <1>3, <1>4, <3>1 DEF Placed, Aligned
  <2>3. \A f \in DOMAIN g.free : Multiple(f) /\ Edge(g, f) <= Size
    BY <1>1, <1>5 DEF Placed, Aligned
  <2>. QED BY <2>2, <2>3 DEF Aligned
<1>10. Ordered(g)
  <2>1. \A c, d \in DOMAIN g.blocks : c < d => End(g, c) <= d
    BY <1>1, <1>2, <1>3, <1>4, <1>7 DEF Placed, Ordered
  <2>2. \A f, q \in DOMAIN g.free : f < q => Edge(g, f) < q
    BY <1>1, <1>5 DEF Placed, Ordered
  <2>3. ASSUME NEW c \in DOMAIN g.blocks, NEW f \in DOMAIN g.free
        PROVE  c # f /\ (c < f => End(g, c) <= f) /\ (f < c => Edge(g, f) <= c)
    <3>1. CASE c = p
      BY <1>1, <1>2, <1>3, <1>4, <1>5, <1>8, <3>1
    <3>2. CASE c # p
      BY <1>1, <1>3, <1>4, <1>5, <3>2 DEF Placed, Ordered
    <3>. QED BY <3>1, <3>2
  <2>. QED BY <2>1, <2>2, <2>3 DEF Ordered
<1>11. Slack(g)
  <2>1. ASSUME NEW c \in DOMAIN g.blocks, NEW i \in Positions, End(g, c) <= i, i < Up(End(g, c))
        PROVE  i \in g.lost
    <3>0. i \in Int
      BY PositionsType
    <3>1. CASE c = p /\ i < End(h, p)
      BY <1>1, <1>4, <2>1, <3>0, <3>1
    <3>2. CASE c = p /\ ~(i < End(h, p))
      <4>1. Up(end) <= Up(End(h, p)) /\ Up(end) \in Int /\ Up(End(h, p)) \in Int
        <5>1. Up(End(h, p)) \in Int /\ Multiple(Up(End(h, p))) /\ End(h, p) <= Up(End(h, p))
          BY <1>2, UpFacts
        <5>. QED BY <1>1, <1>2, <1>3, <5>1, UpFacts
      <4>2. i \in h.lost
        BY <1>2, <1>4, <2>1, <3>0, <3>2, <4>1 DEF Placed, Slack
      <4>. QED BY <1>1, <4>2
    <3>3. CASE c # p
      BY <1>1, <1>3, <1>4, <2>1, <3>3 DEF Placed, Slack
    <3>. QED BY <3>1, <3>2, <3>3
  <2>2. ASSUME NEW f \in DOMAIN g.free, NEW i \in Positions, Edge(g, f) <= i, i < Up(Edge(g, f))
        PROVE  i \in g.lost
    BY <1>1, <1>5, <2>2 DEF Placed, Slack
  <2>. QED BY <2>1, <2>2 DEF Slack
<1>12. LostApart(g)
  <2>1. \A i \in g.lost : i \in Int
    BY <1>6, PositionsType DEF IsHeap
  <2>2. ASSUME NEW c \in DOMAIN g.blocks, NEW i \in g.lost
        PROVE  ~(c <= i /\ i < End(g, c))
    <3>1. CASE i \in h.lost
      BY <1>1, <1>2, <1>3, <1>4, <2>1, <3>1 DEF Placed, LostApart
    <3>2. CASE end <= i /\ i < End(h, p)
      BY <1>2, <1>3, <1>4, <1>7, <2>1, <3>2
    <3>. QED BY <1>1, <3>1, <3>2
  <2>3. ASSUME NEW f \in DOMAIN g.free, NEW i \in g.lost
        PROVE  ~(f <= i /\ i < Edge(g, f))
    <3>1. CASE i \in h.lost
      BY <1>1, <1>5, <3>1 DEF Placed, LostApart
    <3>2. CASE end <= i /\ i < End(h, p)
      BY <1>1, <1>2, <1>3, <1>5, <1>8, <2>1, <3>2
    <3>. QED BY <1>1, <3>1, <3>2
  <2>. QED BY <2>2, <2>3 DEF LostApart
<1>13. Covered(g)
  <2>. SUFFICES ASSUME NEW i \in Positions
                PROVE  \/ \E c \in DOMAIN g.blocks : c <= i /\ i < End(g, c)
                       \/ \E f \in DOMAIN g.free : f <= i /\ i < Edge(g, f)
                       \/ i \in g.lost
    BY DEF Covered
  <2>0. i \in Int
    BY PositionsType
  <2>1. ASSUME NEW c \in DOMAIN h.blocks, c <= i, i < End(h, c)
        PROVE  i \in g.lost \/ \E d \in DOMAIN g.blocks : d <= i /\ i < End(g, d)
    <3>1. CASE c # p
      BY <1>3, <1>4, <2>1, <3>1
    <3>3. CASE c = p /\ i < end
      <4>1. p \in DOMAIN g.blocks /\ p <= i /\ i < End(g, p)
        BY <1>3, <1>4, <2>1, <3>3
      <4>. QED BY <4>1
    <3>2. CASE c = p /\ ~(i < end)
      <4>1. end <= i /\ i < End(h, p)
        BY <1>3, <2>0, <2>1, <3>2
      <4>2. i \in g.lost
        BY <1>1, <2>0, <4>1
      <4>. QED BY <4>2
    <3>. QED BY <3>1, <3>2, <3>3
  <2>2. ASSUME NEW f \in DOMAIN h.free, f <= i, i < Edge(h, f)
        PROVE  \E q \in DOMAIN g.free : q <= i /\ i < Edge(g, q)
    BY <1>1, <1>5, <2>2
  <2>3. CASE i \in h.lost
    BY <1>1, <2>3
  <2>. QED BY <2>1, <2>2, <2>3 DEF Placed, Covered
<1>. QED BY <1>6, <1>9, <1>10, <1>11, <1>12, <1>13 DEF Placed

(* m61_free finds a wild write behind exactly the blocks of S.             *)
MarkersAt(h, S) == \A p \in DOMAIN h.blocks : p \in S <=> ~Intact(h, p)

(* The invariant: the types and the places; a pointer is recognised as     *)
(* freed only while no active block begins at it; and the markers.         *)
Sound(h, S) ==
  /\ IsHeap(h) /\ Placed(h)
  /\ S \subseteq DOMAIN h.blocks
  /\ DOMAIN h.blocks \cap h.freed = {}
  /\ MarkersAt(h, S)

AllocatorInv == Sound(heap, smashed)

(* The marker check of m61_free, in terms of positions.                    *)
LEMMA IntactIs ==
  ASSUME NEW h, IsHeap(h), NEW p \in DOMAIN h.blocks
  PROVE  Intact(h, p) <=> \A i \in Int : p + h.blocks[p].sz <= i /\ i < End(h, p)
                                           => h.mem[i] = Marker
<1>1. p \in Nat /\ h.blocks[p].sz \in Nat /\ h.blocks[p].pad \in Nat
  BY FieldType
<1>. QED BY <1>1 DEF Intact, Span, End

(* A block keeps its marker if it and the bytes behind it stay as they are. *)
LEMMA IntactSame ==
  ASSUME NEW h, IsHeap(h), NEW g, IsHeap(g), NEW p \in DOMAIN h.blocks,
         p \in DOMAIN g.blocks, g.blocks[p] = h.blocks[p],
         \A i \in Int : p <= i /\ i < End(h, p) => g.mem[i] = h.mem[i]
  PROVE  Intact(g, p) <=> Intact(h, p)
<1>1. p \in Nat /\ h.blocks[p].sz \in Nat /\ End(g, p) = End(h, p)
  BY FieldType DEF End
<1>2. \A i \in Int : p + h.blocks[p].sz <= i => p <= i
  BY <1>1
<1>. QED BY <1>1, <1>2, IntactIs

(* k is g with the buffer holding m.                                       *)
Rewrites(g, m, k) == k = [g EXCEPT !.mem = m]

(* k has the block b besides those of h, whose bytes are as they were.      *)
Leaves(h, k, b, end) ==
  /\ IsHeap(k) /\ Placed(k) /\ End(k, b) = end
  /\ DOMAIN k.blocks = DOMAIN h.blocks \cup {b} /\ b \notin DOMAIN h.blocks
  /\ \A c \in DOMAIN h.blocks :
       /\ k.blocks[c] = h.blocks[c]
       /\ \A i \in Int : c <= i /\ i < End(h, c) => k.mem[i] = h.mem[i]

(* The bytes of the other blocks stay as they are.                         *)
LEMMA TakesLeaves ==
  ASSUME NEW h, NEW S, Sound(h, S), NEW sz \in Nat, NEW g, NEW b, NEW pad, NEW end,
         Takes(h, sz, g, b, pad, end),
         NEW m \in [Positions -> Bytes],
         \A i \in Positions : ~(b <= i /\ i < b + sz) => m[i] = g.mem[i],
         NEW k, Rewrites(g, m, k)
  PROVE  Leaves(h, k, b, end)
<1>1. IsHeap(g) /\ Placed(g)
  BY TakesPlaced DEF Sound
<1>2. /\ k = [f \in Fields |-> k[f]]
      /\ k.blocks = g.blocks /\ k.free = g.free /\ k.freed = g.freed
      /\ k.mem = m /\ k.lost = g.lost
  BY <1>1, MemOnly DEF Rewrites
<1>3. IsHeap(k) /\ Placed(k)
  BY <1>1, <1>2, MemPlaced
<1>4. /\ b \in Nat /\ pad \in Nat \ {0} /\ end = b + sz + pad /\ end <= Size
      /\ b \notin DOMAIN h.blocks
      /\ DOMAIN g.blocks = DOMAIN h.blocks \cup {b}
      /\ g.blocks[b].sz = sz /\ g.blocks[b].pad = pad
      /\ \A c \in DOMAIN h.blocks : g.blocks[c] = h.blocks[c]
      /\ g.freed = h.freed \ {b}
      /\ g.mem = [i \in Positions |-> IF b + sz <= i /\ i < end THEN Marker ELSE h.mem[i]]
  BY DEF Takes
<1>5. End(k, b) = end
  BY <1>2, <1>4 DEF End
<1>6. ASSUME NEW c \in DOMAIN h.blocks, NEW i \in Int, c <= i, i < End(h, c)
      PROVE  k.mem[i] = h.mem[i]
  <2>1. c \in DOMAIN k.blocks /\ k.blocks[c] = h.blocks[c] /\ c # b
    BY <1>2, <1>4
  <2>2. c \in Nat /\ End(h, c) \in Nat /\ c < End(h, c) /\ End(h, c) <= Size
        /\ End(k, c) = End(h, c)
    BY <2>1, EndType DEF Sound, Placed, Aligned, End
  <2>3. (c < b => End(h, c) <= b) /\ (b < c => end <= c)
    BY <1>2, <1>3, <1>4, <1>5, <2>1, <2>2 DEF Placed, Ordered
  <2>4. i \in Positions /\ ~(b <= i /\ i < end)
    BY <1>4, <1>6, <2>1, <2>2, <2>3, PositionsType
  <2>5. ~(b <= i /\ i < b + sz) /\ ~(b + sz <= i /\ i < end)
    BY <1>4, <1>6, <2>4
  <2>. QED BY <1>2, <1>4, <2>4, <2>5
<1>. QED BY <1>2, <1>3, <1>4, <1>5, <1>6 DEF Leaves

(* m61_malloc, with what m61_calloc and m61_realloc then write into the    *)
(* block, keeps the invariant (m61.cc:73-130, 240-258, 297-304).           *)
LEMMA TakesSound ==
  ASSUME NEW h, NEW S, Sound(h, S), NEW sz \in Nat, NEW g, NEW b, NEW pad, NEW end,
         Takes(h, sz, g, b, pad, end),
         NEW m \in [Positions -> Bytes],
         \A i \in Positions : ~(b <= i /\ i < b + sz) => m[i] = g.mem[i],
         NEW k, Rewrites(g, m, k)
  PROVE  Sound(k, S)
<1>0. Leaves(h, k, b, end)
  BY TakesLeaves
<1>1. IsHeap(g) /\ Placed(g)
  BY TakesPlaced DEF Sound
<1>2. /\ k = [f \in Fields |-> k[f]]
      /\ k.blocks = g.blocks /\ k.free = g.free /\ k.freed = g.freed
      /\ k.mem = m /\ k.lost = g.lost
  BY <1>1, MemOnly DEF Rewrites
<1>3. IsHeap(k) /\ Placed(k)
  BY <1>1, <1>2, MemPlaced
<1>4. /\ b \in Nat /\ pad \in Nat \ {0} /\ end = b + sz + pad /\ end <= Size
      /\ b \notin DOMAIN h.blocks
      /\ DOMAIN g.blocks = DOMAIN h.blocks \cup {b}
      /\ g.blocks[b].sz = sz /\ g.blocks[b].pad = pad
      /\ \A c \in DOMAIN h.blocks : g.blocks[c] = h.blocks[c]
      /\ g.freed = h.freed \ {b}
      /\ g.mem = [i \in Positions |-> IF b + sz <= i /\ i < end THEN Marker ELSE h.mem[i]]
  BY DEF Takes
<1>5. End(k, b) = end
  BY <1>2, <1>4 DEF End
<1>6. S \subseteq DOMAIN k.blocks /\ DOMAIN k.blocks \cap k.freed = {}
  BY <1>2, <1>4 DEF Sound
<1>7. Intact(k, b) /\ b \notin S
  <2>1. \A i \in Int : b + sz <= i /\ i < end => i \in Positions /\ ~(b <= i /\ i < b + sz)
    BY <1>4, PositionsType
  <2>2. \A i \in Int : b + sz <= i /\ i < end => k.mem[i] = Marker
    BY <1>2, <1>4, <2>1
  <2>3. Intact(k, b)
    BY <1>2, <1>3, <1>4, <1>5, <2>2, IntactIs
  <2>. QED BY <1>4, <2>3 DEF Sound
<1>8. ASSUME NEW c \in DOMAIN h.blocks
      PROVE  Intact(k, c) <=> Intact(h, c)
  <2>1. /\ c \in DOMAIN k.blocks /\ k.blocks[c] = h.blocks[c]
        /\ \A i \in Int : c <= i /\ i < End(h, c) => k.mem[i] = h.mem[i]
    BY <1>0, <1>2, <1>4 DEF Leaves
  <2>. QED BY <1>3, <2>1, IntactSame DEF Sound
<1>9. MarkersAt(k, S)
  <2>1. \A c \in DOMAIN h.blocks : c \in S <=> ~Intact(h, c)
    BY DEF Sound, MarkersAt
  <2>2. \A c \in DOMAIN k.blocks : c \in DOMAIN h.blocks \/ c = b
    BY <1>2, <1>4
  <2>. QED BY <1>7, <1>8, <2>1, <2>2 DEF MarkersAt
<1>. QED BY <1>3, <1>6, <1>9 DEF Sound

(* m61_free keeps the invariant (m61.cc:183-236).                          *)
LEMMA GivenSound ==
  ASSUME NEW h, NEW S, Sound(h, S), NEW p \in DOMAIN h.blocks
  PROVE  Sound(Given(h, p), S \ {p})
<1>. SUFFICES ASSUME NEW g, g = Given(h, p), NEW s, NEW e, Gives(h, p, g, s, e)
              PROVE  Sound(g, S \ {p})
  <2>1. \E s, e : Gives(h, p, Given(h, p), s, e)
    BY GivenIs DEF Sound
  <2>. QED BY <2>1
<1>1. IsHeap(g) /\ Placed(g)
  BY GivesPlaced DEF Sound
<1>2. /\ DOMAIN g.blocks = DOMAIN h.blocks \ {p}
      /\ \A c \in DOMAIN g.blocks : g.blocks[c] = h.blocks[c]
      /\ g.freed = h.freed \cup {p}
      /\ g.mem = h.mem
  BY DEF Gives
<1>3. \A c \in DOMAIN g.blocks : Intact(g, c) <=> Intact(h, c)
  BY <1>2 DEF Intact
<1>4. MarkersAt(g, S \ {p})
  BY <1>2, <1>3 DEF Sound, MarkersAt
<1>. QED BY <1>1, <1>2, <1>4 DEF Sound

(* A shrinking m61_realloc keeps the invariant and writes the marker anew  *)
(* (m61.cc:289-295).                                                       *)
LEMMA ShrunkSound ==
  ASSUME NEW h, NEW S, Sound(h, S), NEW p \in DOMAIN h.blocks, NEW sz \in 1..h.blocks[p].sz
  PROVE  Sound(Shrunk(h, p, sz), S \ {p})
<1>. SUFFICES ASSUME NEW g, g = Shrunk(h, p, sz), NEW end, end = p + sz + h.blocks[p].pad
              PROVE  Sound(g, S \ {p})
  OBVIOUS
<1>1. Shrinks(h, p, sz, g, end)
  BY ShrunkIs DEF Sound
<1>2. IsHeap(g) /\ Placed(g)
  BY <1>1, ShrinksPlaced DEF Sound
<1>3. /\ end <= End(h, p)
      /\ g.blocks = [c \in DOMAIN h.blocks |-> g.blocks[c]]
      /\ g.blocks[p] = [sz |-> sz, pad |-> h.blocks[p].pad]
      /\ \A c \in DOMAIN h.blocks : c # p => g.blocks[c] = h.blocks[c]
      /\ g.freed = h.freed
      /\ g.mem = [i \in Positions |-> IF p + sz <= i /\ i < end THEN Marker ELSE h.mem[i]]
  BY <1>1 DEF Shrinks
<1>4. DOMAIN g.blocks = DOMAIN h.blocks
  BY <1>3
<1>5. /\ p \in Nat /\ End(h, p) \in Nat /\ End(h, p) <= Size /\ sz \in Nat
      /\ h.blocks[p].pad \in Nat \ {0}
  BY FieldType, EndType DEF Sound, Placed, Aligned
<1>6. Intact(g, p)
  <2>1. g.blocks[p].sz = sz /\ g.blocks[p].pad = h.blocks[p].pad /\ End(g, p) = end /\ end \in Nat
    BY <1>3, <1>5 DEF End
  <2>2. \A i \in Int : p + sz <= i /\ i < end => i \in Positions
    BY <1>3, <1>5, <2>1, PositionsType
  <2>3. \A i \in Int : p + sz <= i /\ i < end => g.mem[i] = Marker
    BY <1>3, <2>2
  <2>. QED BY <1>2, <1>4, <2>1, <2>3, IntactIs
<1>7. ASSUME NEW c \in DOMAIN h.blocks, c # p
      PROVE  Intact(g, c) <=> Intact(h, c)
  <2>1. c \in Nat /\ End(h, c) \in Nat /\ c < End(h, c) /\ End(h, c) <= Size
        /\ (c < p => End(h, c) <= p) /\ (p < c => End(h, p) <= c)
    BY <1>7, EndType DEF Sound, Placed, Aligned, Ordered
  <2>2. ASSUME NEW i \in Int, c <= i, i < End(h, c)
        PROVE  g.mem[i] = h.mem[i]
    <3>0. end \in Int
      BY <1>5
    <3>1. i \in Positions /\ ~(p + sz <= i /\ i < end)
      BY <1>3, <1>5, <1>7, <2>1, <2>2, <3>0, PositionsType
    <3>. QED BY <1>3, <3>1
  <2>. QED BY <1>2, <1>3, <1>4, <1>7, <2>2, IntactSame DEF Sound
<1>8. MarkersAt(g, S \ {p})
  BY <1>4, <1>6, <1>7 DEF Sound, MarkersAt
<1>. QED BY <1>2, <1>3, <1>4, <1>8 DEF Sound

(* The blocks written behind, after a store of n bytes into p.              *)
Wild(h, p, n, S) == IF n <= h.blocks[p].sz THEN S ELSE S \cup {p}

(* The client fills a block, or all of it and one byte more.               *)
LEMMA StoreSound ==
  ASSUME NEW h, NEW S, Sound(h, S), NEW p \in DOMAIN h.blocks,
         NEW n \in {h.blocks[p].sz, h.blocks[p].sz + 1},
         NEW v \in Bytes, v # Marker,
         NEW g, Rewrites(h, Fill(h.mem, Span(p, n), v), g)
  PROVE  Sound(g, Wild(h, p, n, S))
<1>. DEFINE m == Fill(h.mem, Span(p, n), v)
<1>1. IsHeap(h) /\ Placed(h)
  BY DEF Sound
<1>2. m \in [Positions -> Bytes]
  <2>1. \A i \in Positions : h.mem[i] \in Bytes
    BY <1>1 DEF IsHeap
  <2>. QED BY <2>1 DEF Fill
<1>3. /\ p \in Nat /\ h.blocks[p].sz \in Nat /\ h.blocks[p].pad \in Nat \ {0}
      /\ End(h, p) = p + h.blocks[p].sz + h.blocks[p].pad /\ End(h, p) <= Size
      /\ n \in Nat /\ p + n <= End(h, p)
  <2>1. /\ p \in Nat /\ h.blocks[p].sz \in Nat /\ h.blocks[p].pad \in Nat \ {0}
        /\ End(h, p) = p + h.blocks[p].sz + h.blocks[p].pad
    BY <1>1, FieldType DEF End
  <2>2. End(h, p) <= Size
    BY <1>1 DEF Placed, Aligned
  <2>. QED BY <2>1, <2>2
<1>4. \A i \in Positions : m[i] = IF p <= i /\ i < p + n THEN v ELSE h.mem[i]
  BY <1>3, PositionsType DEF Fill, Span
<1>5. m = Fill(h.mem, Span(p, n), v)
  OBVIOUS
<1>. HIDE DEF m
<1>6. /\ g = [f \in Fields |-> g[f]]
      /\ g.blocks = h.blocks /\ g.free = h.free /\ g.freed = h.freed
      /\ g.mem = m /\ g.lost = h.lost
  BY <1>1, <1>5, MemOnly DEF Rewrites
<1>7. IsHeap(g) /\ Placed(g)
  BY <1>1, <1>2, <1>6, MemPlaced
<1>8. ASSUME NEW c \in DOMAIN h.blocks, c # p
      PROVE  Intact(g, c) <=> Intact(h, c)
  <2>1. c \in Nat /\ End(h, c) \in Nat /\ c < End(h, c) /\ End(h, c) <= Size
        /\ (c < p => End(h, c) <= p) /\ (p < c => End(h, p) <= c)
    BY <1>1, <1>8, EndType DEF Placed, Aligned, Ordered
  <2>2. ASSUME NEW i \in Int, c <= i, i < End(h, c)
        PROVE  g.mem[i] = h.mem[i]
    <3>1. i \in Positions /\ ~(p <= i /\ i < p + n)
      BY <1>3, <1>8, <2>1, <2>2, PositionsType
    <3>. QED BY <1>4, <1>6, <3>1
  <2>3. c \in DOMAIN g.blocks /\ g.blocks[c] = h.blocks[c]
    BY <1>6
  <2>. QED BY <1>1, <1>7, <2>2, <2>3, IntactSame
<1>9. CASE n <= h.blocks[p].sz
  <2>1. ASSUME NEW i \in Int, p + h.blocks[p].sz <= i, i < End(h, p)
        PROVE  g.mem[i] = h.mem[i]
    <3>1. i \in Positions /\ ~(p <= i /\ i < p + n)
      BY <1>3, <1>9, <2>1, PositionsType
    <3>. QED BY <1>4, <1>6, <3>1
  <2>2. Intact(g, p) <=> Intact(h, p)
    <3>1. g.blocks[p] = h.blocks[p] /\ End(g, p) = End(h, p)
      BY <1>6 DEF End
    <3>2. Intact(h, p) <=> \A i \in Int : p + h.blocks[p].sz <= i /\ i < End(h, p)
                                            => h.mem[i] = Marker
      BY <1>1, IntactIs
    <3>3. Intact(g, p) <=> \A i \in Int : p + g.blocks[p].sz <= i /\ i < End(g, p)
                                            => g.mem[i] = Marker
      BY <1>6, <1>7, IntactIs
    <3>. QED BY <2>1, <3>1, <3>2, <3>3
  <2>3. MarkersAt(g, S)
    BY <1>6, <1>8, <2>2 DEF Sound, MarkersAt
  <2>4. Sound(g, S)
    BY <1>6, <1>7, <2>3 DEF Sound
  <2>. QED BY <1>9, <2>4 DEF Wild
<1>10. CASE ~(n <= h.blocks[p].sz)
  <2>1. n = h.blocks[p].sz + 1
    BY <1>3, <1>10
  <2>2. p + h.blocks[p].sz \in Positions
    BY <1>3, PositionsType
  <2>3. g.mem[p + h.blocks[p].sz] = v
    BY <1>3, <1>4, <1>6, <2>1, <2>2
  <2>4. ~Intact(g, p)
    <3>1. g.blocks[p].sz = h.blocks[p].sz /\ End(g, p) = End(h, p)
      BY <1>6 DEF End
    <3>2. p + h.blocks[p].sz \in Int /\ p + h.blocks[p].sz < End(h, p)
      BY <1>3
    <3>3. Intact(g, p) <=> \A i \in Int : p + g.blocks[p].sz <= i /\ i < End(g, p)
                                            => g.mem[i] = Marker
      BY <1>6, <1>7, IntactIs
    <3>. QED BY <1>3, <2>3, <3>1, <3>2, <3>3
  <2>5. MarkersAt(g, S \cup {p})
    BY <1>6, <1>8, <2>4 DEF Sound, MarkersAt
  <2>6. Sound(g, S \cup {p})
    BY <1>6, <1>7, <2>5 DEF Sound
  <2>. QED BY <1>10, <2>6 DEF Wild
<1>. QED BY <1>9, <1>10

-----------------------------------------------------------------------------
(* At first all of the buffer is one free block, and every call keeps the  *)
(* invariant.                                                              *)
LEMMA InitSound ==
  ASSUME Init
  PROVE  AllocatorInv
<1>1. /\ heap.blocks = << >> /\ heap.free = [p \in {0} |-> Size] /\ heap.freed = {}
      /\ heap.mem = [i \in Positions |-> Zero] /\ heap.lost = {}
      /\ heap = [f \in Fields |-> heap[f]]
      /\ smashed = {}
  BY DEF Init, Fields
<1>2. DOMAIN heap.blocks = {} /\ heap.blocks = [b \in DOMAIN heap.blocks |-> heap.blocks[b]]
  BY <1>1
<1>3. DOMAIN heap.free = {0} /\ heap.free[0] = Size
  BY <1>1
<1>4. Size \in Nat \ {0} /\ Multiple(Size) /\ Multiple(0) /\ 0 \in Positions
  BY AllocatorAssumption, PositionsType DEF Multiple
<1>5. IsHeap(heap)
  <2>1. heap.mem \in [Positions -> Bytes]
    BY <1>1, AllocatorAssumption
  <2>. QED BY <1>1, <1>2, <1>3, <1>4, <2>1 DEF IsHeap
<1>6. Edge(heap, 0) = Size
  BY <1>3, <1>4 DEF Edge
<1>7. Placed(heap)
  <2>1. Aligned(heap) /\ Ordered(heap)
    BY <1>2, <1>3, <1>4, <1>6 DEF Aligned, Ordered
  <2>2. Slack(heap)
    BY <1>2, <1>3, <1>6, PositionsType DEF Slack
  <2>3. LostApart(heap)
    BY <1>1 DEF LostApart
  <2>4. Covered(heap)
    BY <1>3, <1>6, PositionsType DEF Covered
  <2>. QED BY <2>1, <2>2, <2>3, <2>4 DEF Placed
<1>. QED BY <1>1, <1>2, <1>5, <1>7 DEF AllocatorInv, Sound, MarkersAt

(* m61_malloc keeps the invariant.                                         *)
LEMMA MallocFitsSound ==
  ASSUME AllocatorInv, NEW sz \in Nat, MallocFits(sz)
  PROVE  AllocatorInv'
<1>1. Fits(heap, sz) # {} /\ heap' = Taken(heap, sz) /\ smashed' = smashed
  BY DEF MallocFits
<1>2. IsHeap(heap) /\ Placed(heap)
  BY DEF AllocatorInv, Sound
<1>3. PICK b, pad, end : Takes(heap, sz, heap', b, pad, end)
  BY <1>1, <1>2, TakenIs
<1>4. IsHeap(heap')
  BY <1>2, <1>3, TakesPlaced
<1>5. heap'.mem \in [Positions -> Bytes]
  BY <1>4 DEF IsHeap
<1>6. Rewrites(heap', heap'.mem, heap')
  <2>1. heap' = [f \in Fields |-> heap'[f]]
    BY <1>4 DEF IsHeap
  <2>. QED BY <2>1 DEF Fields, Rewrites
<1>7. Sound(heap', smashed)
  BY <1>3, <1>5, <1>6, TakesSound DEF AllocatorInv
<1>. QED BY <1>1, <1>7 DEF AllocatorInv

(* m61_calloc keeps the invariant.                                         *)
LEMMA CallocSound ==
  ASSUME AllocatorInv, NEW n \in Nat, Fits(heap, n) # {},
         heap' = [Taken(heap, n) EXCEPT !.mem = Fill(@, Span(Min(Fits(heap, n)), n), Zero)],
         smashed' = smashed
  PROVE  AllocatorInv'
<1>. DEFINE g == Taken(heap, n)
            b == Min(Fits(heap, n))
            m == Fill(g.mem, Span(b, n), Zero)
<1>1. IsHeap(heap) /\ Placed(heap)
  BY DEF AllocatorInv, Sound
<1>2. PICK pad, end : Takes(heap, n, g, b, pad, end)
  BY <1>1, TakenIs
<1>3. IsHeap(g)
  BY <1>1, <1>2, TakesPlaced
<1>4. Rewrites(g, m, heap')
  BY DEF Rewrites
<1>. HIDE DEF g, b
<1>5. m \in [Positions -> Bytes]
  <2>1. Zero \in Bytes /\ \A i \in Positions : g.mem[i] \in Bytes
    BY <1>3, AllocatorAssumption DEF IsHeap
  <2>. QED BY <2>1 DEF Fill
<1>6. b \in Nat
  BY <1>2 DEF Takes
<1>7. \A i \in Positions : ~(b <= i /\ i < b + n) => m[i] = g.mem[i]
  BY <1>6, PositionsType DEF Fill, Span
<1>. HIDE DEF m
<1>8. Sound(heap', smashed)
  BY <1>2, <1>4, <1>5, <1>7, TakesSound DEF AllocatorInv
<1>. QED BY <1>8 DEF AllocatorInv

(* m61_free keeps the invariant, whether or not it reports a wild write.   *)
LEMMA FreeSound ==
  ASSUME AllocatorInv, NEW p \in DOMAIN heap.blocks, Free(p)
  PROVE  AllocatorInv'
<1>1. CASE Intact(heap, p)
  BY <1>1, GivenSound DEF Free, AllocatorInv
<1>2. CASE ~Intact(heap, p)
  BY <1>2 DEF Free, Report, AllocatorInv
<1>. QED BY <1>1, <1>2

(* m61_realloc to a larger size keeps the invariant.                       *)
LEMMA GrowSound ==
  ASSUME AllocatorInv, NEW p \in DOMAIN heap.blocks, NEW sz \in Nat, Grow(p, sz)
  PROVE  AllocatorInv'
<1>1. CASE MallocFails(sz)
  BY <1>1 DEF MallocFails, AllocatorInv
<1>. DEFINE old == heap.blocks[p].sz
            b == Min(Fits(heap, sz))
            g == Taken(heap, sz)
            k == Copied(g, p, b, old)
            m == [i \in Positions |-> IF i \in Span(b, old) THEN g.mem[p + i - b] ELSE g.mem[i]]
<1>2. CASE Fits(heap, sz) # {} /\ ~Intact(heap, p) /\ ~MallocFails(sz)
  BY <1>2 DEF Grow, Report, AllocatorInv
<1>3. CASE Fits(heap, sz) # {} /\ Intact(heap, p) /\ ~MallocFails(sz)
  <2>1. IsHeap(heap) /\ Placed(heap)
    BY DEF AllocatorInv, Sound
  <2>2. PICK pad, end : Takes(heap, sz, g, b, pad, end)
    BY <1>3, <2>1, TakenIs
  <2>3. heap' = Given(k, p) /\ smashed' = smashed \ {p} /\ old < sz
    <3>1. old \in Nat
      BY <2>1, FieldType
    <3>. QED BY <1>3, <3>1 DEF Grow
  <2>4. Rewrites(g, m, k)
    BY DEF Copied, Rewrites
  <2>5. IsHeap(g)
    BY <2>1, <2>2, TakesPlaced
  <2>. HIDE DEF b, g, k
  <2>6. b \in Nat /\ p \in Nat /\ old \in Nat /\ p + old < Size
    <3>1. p \in Nat /\ old \in Nat /\ heap.blocks[p].pad \in Nat \ {0} /\ End(heap, p) <= Size
      BY <2>1, FieldType DEF Placed, Aligned
    <3>2. b \in Nat
      BY <2>2 DEF Takes
    <3>3. Size \in Nat
      BY PositionsType
    <3>. QED BY <3>1, <3>2, <3>3 DEF End
  <2>. HIDE DEF old
  <2>7. m \in [Positions -> Bytes]
    <3>1. \A i \in Positions : g.mem[i] \in Bytes
      BY <2>5 DEF IsHeap
    <3>2. \A i \in Positions : i \in Span(b, old) => p + i - b \in Positions
      BY <2>6, PositionsType DEF Span
    <3>. QED BY <3>1, <3>2
  <2>8. \A i \in Positions : ~(b <= i /\ i < b + sz) => m[i] = g.mem[i]
    BY <2>3, <2>6, PositionsType DEF Span
  <2>. HIDE DEF m
  <2>9. Sound(k, smashed)
    BY <2>2, <2>4, <2>7, <2>8, TakesSound DEF AllocatorInv
  <2>10. p \in DOMAIN k.blocks
    <3>1. DOMAIN g.blocks = DOMAIN heap.blocks \cup {b}
      BY <2>2 DEF Takes
    <3>2. k.blocks = g.blocks
      BY <2>4, <2>5, MemOnly DEF Rewrites
    <3>. QED BY <3>1, <3>2
  <2>11. Sound(heap', smashed')
    BY <2>3, <2>9, <2>10, GivenSound
  <2>. QED BY <2>11 DEF AllocatorInv
<1>. QED BY <1>1, <1>2, <1>3 DEF Grow

(* m61_realloc to a smaller size keeps the invariant.                      *)
LEMMA ShrinkSound ==
  ASSUME AllocatorInv, NEW p \in DOMAIN heap.blocks, NEW sz \in Nat, Shrink(p, sz)
  PROVE  AllocatorInv'
BY ShrunkSound DEF Shrink, AllocatorInv

(* The stores of the client keep the invariant.                            *)
LEMMA ClientSound ==
  ASSUME AllocatorInv, NEW p \in DOMAIN heap.blocks, NEW v \in Bytes, NEW over \in {0, 1},
         Store(p, heap.blocks[p].sz + over, v)
  PROVE  AllocatorInv'
<1>. DEFINE n == heap.blocks[p].sz + over
<1>1. heap.blocks[p].sz \in Nat
  BY FieldType DEF AllocatorInv, Sound
<1>2. n \in {heap.blocks[p].sz, heap.blocks[p].sz + 1}
  BY <1>1
<1>3. /\ v # Marker
      /\ Rewrites(heap, Fill(heap.mem, Span(p, n), v), heap')
      /\ smashed' = Wild(heap, p, n, smashed)
  BY DEF Store, Rewrites, Wild
<1>. HIDE DEF n
<1>4. Sound(heap, smashed)
  BY DEF AllocatorInv
<1>5. Sound(heap', Wild(heap, p, n, smashed))
  BY <1>2, <1>3, <1>4, StoreSound
<1>6. Sound(heap', smashed')
  BY <1>3, <1>5
<1>. QED BY <1>6 DEF AllocatorInv

(* Every step keeps the invariant.                                         *)
LEMMA StepSound == AllocatorInv /\ [Next]_vars => AllocatorInv'
<1>. SUFFICES ASSUME AllocatorInv, [Next]_vars
              PROVE  AllocatorInv'
  OBVIOUS
<1>1. ASSUME NEW sz \in Requests, Malloc(sz)
      PROVE  AllocatorInv'
  <2>1. sz \in Nat
    BY AllocatorAssumption
  <2>2. CASE MallocFits(sz)
    BY <2>1, <2>2, MallocFitsSound
  <2>3. CASE MallocFails(sz)
    BY <2>3 DEF MallocFails, AllocatorInv
  <2>. QED BY <1>1, <2>2, <2>3 DEF Malloc
<1>2. ASSUME NEW a \in Arrays, Calloc(a[1], a[2])
      PROVE  AllocatorInv'
  <2>. DEFINE n == a[1] * a[2]
  <2>1. n \in Nat
    <3>1. a[1] \in Nat /\ a[2] \in Nat
      BY AllocatorAssumption
    <3>. QED BY <3>1
  <2>2. CASE heap' = heap /\ smashed' = smashed
    BY <2>2 DEF AllocatorInv
  <2>3. CASE /\ Fits(heap, n) # {}
             /\ heap' = [Taken(heap, n) EXCEPT
                           !.mem = Fill(@, Span(Min(Fits(heap, n)), n), Zero)]
             /\ smashed' = smashed
    <3>. HIDE DEF n
    <3>. QED BY <2>1, <2>3, CallocSound
  <2>. QED BY <1>2, <2>2, <2>3 DEF Calloc, MallocFails
<1>3. ASSUME NEW q \in Strays, BadFree(q)
      PROVE  AllocatorInv'
  <2>1. heap' = heap /\ smashed' = smashed
    BY <1>3 DEF BadFree, Report
  <2>. QED BY <2>1 DEF AllocatorInv
<1>4. ASSUME NEW p \in DOMAIN heap.blocks, Free(p)
      PROVE  AllocatorInv'
  BY <1>4, FreeSound
<1>5. ASSUME NEW p \in DOMAIN heap.blocks, NEW sz \in Requests, Shrink(p, sz) \/ Grow(p, sz)
      PROVE  AllocatorInv'
  <2>1. sz \in Nat
    BY AllocatorAssumption
  <2>. QED BY <1>5, <2>1, ShrinkSound, GrowSound
<1>6. ASSUME NEW p \in DOMAIN heap.blocks, NEW v \in Bytes, NEW over \in {0, 1},
             Store(p, heap.blocks[p].sz + over, v)
      PROVE  AllocatorInv'
  BY <1>6, ClientSound
<1>7. CASE UNCHANGED vars
  BY <1>7 DEF vars, AllocatorInv
<1>. QED BY <1>1, <1>2, <1>3, <1>4, <1>5, <1>6, <1>7 DEF Next

(* In every order of calls the invariant holds (m61.cc:73-306).            *)
THEOREM AllocatorSound == Spec => []AllocatorInv
<1>1. Init => AllocatorInv
  BY InitSound
<1>2. AllocatorInv /\ [Next]_vars => AllocatorInv'
  BY StepSound
<1>. QED BY <1>1, <1>2, PTL DEF Spec

(* The maps, the set of freed pointers and the buffer keep their types.    *)
THEOREM TypeCorrect == Spec => []TypeOK
<1>1. AllocatorInv => TypeOK
  BY DEF AllocatorInv, Sound, IsHeap, TypeOK
<1>. QED BY <1>1, AllocatorSound, PTL

(* In terms of bytes, what is placed so tiles the buffer.                  *)
LEMMA SpansAreIntervals ==
  ASSUME NEW h, IsHeap(h)
  PROVE  /\ \A b \in DOMAIN h.blocks : \A i : i \in Extent(h, b) <=> i \in Int /\ b <= i /\ i < End(h, b)
         /\ \A f \in DOMAIN h.free : \A i : i \in Room(h, f) <=> i \in Int /\ f <= i /\ i < Edge(h, f)
<1>1. \A b \in DOMAIN h.blocks : b \in Nat /\ h.blocks[b].sz \in Nat /\ h.blocks[b].pad \in Nat
  BY FieldType
<1>2. \A f \in DOMAIN h.free : f \in Nat /\ h.free[f] \in Nat
  BY FieldType
<1>. QED BY <1>1, <1>2 DEF Extent, Room, Span, End, Edge

(* From the places of the blocks, the statement about their bytes.         *)
LEMMA PlacedTiles == AllocatorInv => Tiles
<1>. SUFFICES ASSUME AllocatorInv
              PROVE  Tiles
  OBVIOUS
<1>1. IsHeap(heap) /\ Placed(heap)
  BY DEF AllocatorInv, Sound
<1>2. /\ \A b \in DOMAIN heap.blocks : \A i : i \in Extent(heap, b) <=> i \in Int /\ b <= i /\ i < End(heap, b)
      /\ \A f \in DOMAIN heap.free : \A i : i \in Room(heap, f) <=> i \in Int /\ f <= i /\ i < Edge(heap, f)
  BY <1>1, SpansAreIntervals
<1>3. /\ \A b \in DOMAIN heap.blocks : b \in Nat /\ End(heap, b) \in Nat /\ b < End(heap, b)
      /\ \A f \in DOMAIN heap.free : f \in Nat /\ Edge(heap, f) \in Nat /\ f < Edge(heap, f)
  BY <1>1, EndType
<1>4. (UNION {Extent(heap, b) : b \in DOMAIN heap.blocks})
        \cup (UNION {Room(heap, f) : f \in DOMAIN heap.free}) \cup heap.lost = Positions
  <2>1. \A b \in DOMAIN heap.blocks : Extent(heap, b) \subseteq Positions
    BY <1>1, <1>2, <1>3, PositionsType DEF Placed, Aligned
  <2>2. \A f \in DOMAIN heap.free : Room(heap, f) \subseteq Positions
    BY <1>1, <1>2, <1>3, PositionsType DEF Placed, Aligned
  <2>3. heap.lost \subseteq Positions
    BY <1>1 DEF IsHeap
  <2>4. \A i \in Positions : \/ \E b \in DOMAIN heap.blocks : i \in Extent(heap, b)
                             \/ \E f \in DOMAIN heap.free : i \in Room(heap, f)
                             \/ i \in heap.lost
    BY <1>1, <1>2, PositionsType DEF Placed, Covered
  <2>. QED BY <2>1, <2>2, <2>3, <2>4
<1>5. \A b, c \in DOMAIN heap.blocks : b # c => Extent(heap, b) \cap Extent(heap, c) = {}
  <2>. SUFFICES ASSUME NEW b \in DOMAIN heap.blocks, NEW c \in DOMAIN heap.blocks, b # c,
                       NEW i, i \in Extent(heap, b), i \in Extent(heap, c)
                PROVE  FALSE
    OBVIOUS
  <2>. QED BY <1>1, <1>2, <1>3 DEF Placed, Ordered
<1>6. \A f, g \in DOMAIN heap.free : f # g => Room(heap, f) \cap Room(heap, g) = {}
  <2>. SUFFICES ASSUME NEW f \in DOMAIN heap.free, NEW g \in DOMAIN heap.free, f # g,
                       NEW i, i \in Room(heap, f), i \in Room(heap, g)
                PROVE  FALSE
    OBVIOUS
  <2>. QED BY <1>1, <1>2, <1>3 DEF Placed, Ordered
<1>7. \A b \in DOMAIN heap.blocks, f \in DOMAIN heap.free : Extent(heap, b) \cap Room(heap, f) = {}
  <2>. SUFFICES ASSUME NEW b \in DOMAIN heap.blocks, NEW f \in DOMAIN heap.free,
                       NEW i, i \in Extent(heap, b), i \in Room(heap, f)
                PROVE  FALSE
    OBVIOUS
  <2>. QED BY <1>1, <1>2, <1>3 DEF Placed, Ordered
<1>8. /\ \A b \in DOMAIN heap.blocks : heap.lost \cap Extent(heap, b) = {}
      /\ \A f \in DOMAIN heap.free : heap.lost \cap Room(heap, f) = {}
  BY <1>1, <1>2 DEF Placed, LostApart
<1>. QED BY <1>4, <1>5, <1>6, <1>7, <1>8 DEF Tiles

(* Every byte of the buffer belongs to one active block, to one free       *)
(* block, or has been lost by a shrinking m61_realloc, for every alignment *)
(* and size (m61.cc:87-102, 202-228, 289-295).                             *)
THEOREM BytesTiled == Spec => []Tiles
BY AllocatorSound, PlacedTiles, PTL

(* No free block ends where another begins (m61.cc:205-228).               *)
THEOREM FreeCoalesced == Spec => []Coalesced
<1>1. AllocatorInv => Coalesced
  <2>. SUFFICES ASSUME AllocatorInv, NEW f \in DOMAIN heap.free, NEW g \in DOMAIN heap.free,
                       f + heap.free[f] = g
                PROVE  FALSE
    BY DEF Coalesced
  <2>1. f \in Nat /\ heap.free[f] \in Nat \ {0} /\ g \in Nat
    BY FieldType DEF AllocatorInv, Sound
  <2>2. f < g
    BY <2>1
  <2>3. Edge(heap, f) < g
    BY <2>2 DEF AllocatorInv, Sound, Placed, Ordered
  <2>. QED BY <2>1, <2>3 DEF Edge
<1>. QED BY <1>1, AllocatorSound, PTL

(* m61_free reports a wild write of exactly the blocks that were written   *)
(* behind (m61.cc:95, 183-195, 295).                                       *)
THEOREM WildWritesFound == Spec => []MarkersIntact
<1>1. AllocatorInv => MarkersIntact
  BY DEF AllocatorInv, Sound, MarkersAt, MarkersIntact
<1>. QED BY <1>1, AllocatorSound, PTL

-----------------------------------------------------------------------------
(* The statistics.                                                         *)

StatsFields == {"nactive", "ntotal", "nfail", "active_size", "heap_min", "heap_max"}

(* The sizes of the blocks B.                                              *)
Sizes(B) == [b \in DOMAIN B |-> B[b].sz]

BlocksType(B) ==
  DOMAIN B \subseteq Nat /\ IsFiniteSet(DOMAIN B) /\ \A b \in DOMAIN B : B[b].sz \in Nat

(* The statistics s suit the blocks B; before the first allocation, when   *)
(* heap_min and heap_max mean nothing, there is none.                      *)
Counts(B, s) ==
  /\ DOMAIN s = StatsFields
  /\ s.ntotal \in Nat /\ (s.ntotal = 0 => DOMAIN B = {})
  /\ s.nactive = Cardinality(DOMAIN B)
  /\ s.active_size \in Int /\ s.active_size >= Sum(Sizes(B), DOMAIN B)
  /\ s.heap_min \in Int /\ s.heap_max \in Int
  /\ \A b \in DOMAIN B : s.heap_min <= b /\ b + B[b].sz <= s.heap_max

(* The sizes of the blocks add up in any order.                            *)
LEMMA SizesAdd ==
  ASSUME NEW B, BlocksType(B)
  PROVE  /\ Sum(Sizes(B), DOMAIN B) \in Int /\ Cardinality(DOMAIN B) \in Nat
         /\ \A p \in DOMAIN B : /\ Sum(Sizes(B), DOMAIN B)
                                     = B[p].sz + Sum(Sizes(B), DOMAIN B \ {p})
                                /\ Sum(Sizes(B), DOMAIN B \ {p}) \in Int
                                /\ Cardinality(DOMAIN B \ {p}) = Cardinality(DOMAIN B) - 1
<1>. DEFINE D == DOMAIN B
            w == Sizes(B)
<1>1. IsFiniteSet(D) /\ \A b \in D : w[b] \in Int /\ w[b] = B[b].sz
  BY DEF BlocksType, Sizes
<1>2. Cardinality(D) \in Nat /\ \A p \in D : Cardinality(D \ {p}) = Cardinality(D) - 1
  BY <1>1, FS_CardinalityType, FS_RemoveElement
<1>. HIDE DEF D, w
<1>3. /\ Sum(w, D) \in Int
      /\ \A x \in D : Sum(w, D \ {x}) \in Int /\ Sum(w, D) = w[x] + Sum(w, D \ {x})
  BY <1>1, SumTake
<1>. QED BY <1>1, <1>2, <1>3 DEF D, w

(* C has the blocks of B and one more.                                     *)
Grown(B, C, b, sz) ==
  /\ DOMAIN C = DOMAIN B \cup {b} /\ b \notin DOMAIN B /\ C[b].sz = sz
  /\ \A c \in DOMAIN B : C[c].sz = B[c].sz

(* One block more is counted by m61_malloc (m61.cc:117-129).               *)
LEMMA CountsGrown ==
  ASSUME NEW B, NEW C, BlocksType(B), BlocksType(C), NEW s, Counts(B, s),
         NEW b, NEW sz, Grown(B, C, b, sz)
  PROVE  Counts(C, Counted(s, b, sz))
<1>1. /\ DOMAIN C = DOMAIN B \cup {b} /\ b \notin DOMAIN B /\ C[b].sz = sz
      /\ \A c \in DOMAIN B : C[c].sz = B[c].sz
  BY DEF Grown
<1>2. DOMAIN C \ {b} = DOMAIN B /\ b \in DOMAIN C
  BY <1>1
<1>3. b \in Nat /\ sz \in Nat /\ \A c \in DOMAIN B : c \in Nat /\ B[c].sz \in Nat
  BY <1>1 DEF BlocksType
<1>4. Sum(Sizes(C), DOMAIN B) = Sum(Sizes(B), DOMAIN B)
  <2>1. \A c \in DOMAIN B : Sizes(C)[c] = Sizes(B)[c]
    BY <1>1 DEF Sizes
  <2>2. IsFiniteSet(DOMAIN B)
    BY DEF BlocksType
  <2>. QED BY <2>1, <2>2, SumSame
<1>5. /\ Sum(Sizes(C), DOMAIN C) = sz + Sum(Sizes(B), DOMAIN B)
      /\ Sum(Sizes(B), DOMAIN B) \in Int
      /\ Cardinality(DOMAIN C) = Cardinality(DOMAIN B) + 1
  <2>1. /\ Sum(Sizes(C), DOMAIN C) = C[b].sz + Sum(Sizes(C), DOMAIN C \ {b})
        /\ Cardinality(DOMAIN C \ {b}) = Cardinality(DOMAIN C) - 1
        /\ Cardinality(DOMAIN C) \in Nat
    BY <1>2, SizesAdd
  <2>2. Sum(Sizes(B), DOMAIN B) \in Int
    BY SizesAdd
  <2>. QED BY <1>1, <1>2, <1>4, <2>1, <2>2
<1>6. /\ DOMAIN s = StatsFields
      /\ s.ntotal \in Nat /\ (s.ntotal = 0 => DOMAIN B = {})
      /\ s.nactive = Cardinality(DOMAIN B)
      /\ s.active_size \in Int /\ s.active_size >= Sum(Sizes(B), DOMAIN B)
      /\ s.heap_min \in Int /\ s.heap_max \in Int
      /\ \A c \in DOMAIN B : s.heap_min <= c /\ c + B[c].sz <= s.heap_max
  BY DEF Counts
<1>. DEFINE low == IF s.ntotal = 0 THEN b ELSE Min({s.heap_min, b})
            high == IF s.ntotal = 0 THEN b + sz ELSE Max({s.heap_max, b + sz})
            r == Counted(s, b, sz)
<1>7. /\ DOMAIN r = StatsFields
      /\ r.ntotal = s.ntotal + 1 /\ r.nactive = s.nactive + 1
      /\ r.active_size = s.active_size + sz
      /\ r.heap_min = low /\ r.heap_max = high
  BY <1>6 DEF Counted, StatsFields
<1>8. low \in Int /\ low <= b /\ \A c \in DOMAIN B : low <= c
  BY <1>3, <1>6, MinOfTwo
<1>9. high \in Int /\ b + sz <= high /\ \A c \in DOMAIN B : c + B[c].sz <= high
  <2>1. b + sz \in Int
    BY <1>3
  <2>2. s.ntotal # 0 => high = IF s.heap_max >= b + sz THEN s.heap_max ELSE b + sz
    BY <1>6, <2>1, MaxOfTwo
  <2>3. CASE s.ntotal = 0
    <3>1. high = b + sz /\ DOMAIN B = {}
      BY <1>6, <2>3
    <3>. QED BY <2>1, <3>1
  <2>4. CASE s.ntotal # 0
    <3>. HIDE DEF high
    <3>1. \A c \in DOMAIN B : c + B[c].sz \in Int /\ c + B[c].sz <= s.heap_max
      BY <1>3, <1>6
    <3>. QED BY <1>6, <2>1, <2>2, <2>4, <3>1
  <2>. QED BY <2>3, <2>4
<1>. HIDE DEF low, high, r
<1>10. \A c \in DOMAIN C : r.heap_min <= c /\ c + C[c].sz <= r.heap_max
  BY <1>1, <1>7, <1>8, <1>9
<1>11. r.active_size \in Int /\ r.active_size >= Sum(Sizes(C), DOMAIN C)
  BY <1>3, <1>5, <1>6, <1>7
<1>12. r.ntotal \in Nat /\ r.ntotal # 0 /\ r.nactive = Cardinality(DOMAIN C)
       /\ r.heap_min \in Int /\ r.heap_max \in Int
  <2>1. r.ntotal \in Nat /\ r.ntotal # 0
    BY <1>6, <1>7
  <2>2. r.nactive = Cardinality(DOMAIN C)
    BY <1>5, <1>6, <1>7
  <2>. QED BY <1>7, <1>8, <1>9, <2>1, <2>2
<1>13. Counts(C, r)
  BY <1>7, <1>10, <1>11, <1>12 DEF Counts
<1>. QED BY <1>13 DEF r

(* One block less is counted by m61_free (m61.cc:198-199).                 *)
LEMMA CountsLess ==
  ASSUME NEW B, NEW C, BlocksType(B), BlocksType(C), NEW s, Counts(B, s),
         NEW p \in DOMAIN B, Grown(C, B, p, B[p].sz)
  PROVE  Counts(C, Discounted(s, B[p].sz))
<1>1. /\ DOMAIN B = DOMAIN C \cup {p} /\ p \notin DOMAIN C
      /\ \A c \in DOMAIN C : B[c].sz = C[c].sz
  BY DEF Grown
<1>2. DOMAIN B \ {p} = DOMAIN C
  BY <1>1
<1>3. B[p].sz \in Nat
  BY DEF BlocksType
<1>4. Sum(Sizes(B), DOMAIN C) = Sum(Sizes(C), DOMAIN C)
  <2>1. \A c \in DOMAIN C : Sizes(B)[c] = Sizes(C)[c]
    BY <1>1 DEF Sizes
  <2>2. IsFiniteSet(DOMAIN C)
    BY DEF BlocksType
  <2>. QED BY <2>1, <2>2, SumSame
<1>5. /\ Sum(Sizes(B), DOMAIN B) = B[p].sz + Sum(Sizes(C), DOMAIN C)
      /\ Sum(Sizes(C), DOMAIN C) \in Int
      /\ Cardinality(DOMAIN C) = Cardinality(DOMAIN B) - 1
  <2>1. /\ Sum(Sizes(B), DOMAIN B) = B[p].sz + Sum(Sizes(B), DOMAIN B \ {p})
        /\ Cardinality(DOMAIN B \ {p}) = Cardinality(DOMAIN B) - 1
    BY SizesAdd
  <2>2. Sum(Sizes(C), DOMAIN C) \in Int
    BY SizesAdd
  <2>. QED BY <1>2, <1>4, <2>1, <2>2
<1>6. /\ DOMAIN s = StatsFields
      /\ s.ntotal \in Nat /\ (s.ntotal = 0 => DOMAIN B = {})
      /\ s.nactive = Cardinality(DOMAIN B)
      /\ s.active_size \in Int /\ s.active_size >= Sum(Sizes(B), DOMAIN B)
      /\ s.heap_min \in Int /\ s.heap_max \in Int
      /\ \A c \in DOMAIN B : s.heap_min <= c /\ c + B[c].sz <= s.heap_max
  BY DEF Counts
<1>. DEFINE r == Discounted(s, B[p].sz)
<1>7. /\ DOMAIN r = StatsFields
      /\ r.ntotal = s.ntotal /\ r.nactive = s.nactive - 1
      /\ r.active_size = s.active_size - B[p].sz
      /\ r.heap_min = s.heap_min /\ r.heap_max = s.heap_max
  BY <1>6 DEF Discounted, StatsFields
<1>. HIDE DEF r
<1>8. r.active_size \in Int /\ r.active_size >= Sum(Sizes(C), DOMAIN C)
  BY <1>3, <1>5, <1>6, <1>7
<1>9. \A c \in DOMAIN C : r.heap_min <= c /\ c + C[c].sz <= r.heap_max
  BY <1>1, <1>6, <1>7
<1>10. r.ntotal \in Nat /\ (r.ntotal = 0 => DOMAIN C = {}) /\ r.nactive = Cardinality(DOMAIN C)
       /\ r.heap_min \in Int /\ r.heap_max \in Int
  <2>1. r.ntotal \in Nat /\ (r.ntotal = 0 => DOMAIN C = {})
    BY <1>1, <1>6, <1>7
  <2>2. r.nactive = Cardinality(DOMAIN C)
    BY <1>5, <1>6, <1>7
  <2>. QED BY <1>6, <1>7, <2>1, <2>2
<1>11. Counts(C, r)
  BY <1>7, <1>8, <1>9, <1>10 DEF Counts
<1>. QED BY <1>11 DEF r

(* The statistics suit blocks of which one has become shorter.             *)
LEMMA CountsCut ==
  ASSUME NEW B, NEW C, BlocksType(B), BlocksType(C), NEW s, Counts(B, s),
         NEW p \in DOMAIN B, DOMAIN C = DOMAIN B, C[p].sz <= B[p].sz,
         \A c \in DOMAIN B \ {p} : C[c].sz = B[c].sz
  PROVE  Counts(C, s)
<1>1. B[p].sz \in Nat /\ C[p].sz \in Nat /\ p \in Nat
  BY DEF BlocksType
<1>2. Sum(Sizes(C), DOMAIN C \ {p}) = Sum(Sizes(B), DOMAIN B \ {p})
  <2>1. \A c \in DOMAIN B \ {p} : Sizes(C)[c] = Sizes(B)[c]
    BY DEF Sizes
  <2>2. IsFiniteSet(DOMAIN B \ {p})
    BY FS_Subset DEF BlocksType
  <2>. QED BY <2>1, <2>2, SumSame
<1>3. /\ Sum(Sizes(B), DOMAIN B) = B[p].sz + Sum(Sizes(B), DOMAIN B \ {p})
      /\ Sum(Sizes(B), DOMAIN B \ {p}) \in Int
      /\ Sum(Sizes(B), DOMAIN B) \in Int
  BY SizesAdd
<1>4. Sum(Sizes(C), DOMAIN C) = C[p].sz + Sum(Sizes(C), DOMAIN C \ {p})
  BY SizesAdd
<1>5. s.active_size >= Sum(Sizes(C), DOMAIN C)
  BY <1>1, <1>2, <1>3, <1>4 DEF Counts
<1>6. \A c \in DOMAIN C : s.heap_min <= c /\ c + C[c].sz <= s.heap_max
  <2>. SUFFICES ASSUME NEW c \in DOMAIN B
                PROVE  s.heap_min <= c /\ c + C[c].sz <= s.heap_max
    OBVIOUS
  <2>1. c \in Nat /\ C[c].sz \in Nat /\ B[c].sz \in Nat /\ C[c].sz <= B[c].sz
    BY <1>1 DEF BlocksType
  <2>. QED BY <2>1 DEF Counts
<1>. QED BY <1>5, <1>6 DEF Counts

(* The blocks of a heap are finitely many.                                 *)
LEMMA BlocksTyped ==
  ASSUME NEW h, IsHeap(h)
  PROVE  BlocksType(h.blocks)
<1>1. IsFiniteSet(DOMAIN h.blocks)
  <2>1. IsFiniteSet(0..(Size - 1))
    BY PositionsType, FS_Interval
  <2>2. DOMAIN h.blocks \subseteq 0..(Size - 1)
    BY DEF IsHeap, Positions
  <2>. QED BY <2>1, <2>2, FS_Subset
<1>2. DOMAIN h.blocks \subseteq Nat /\ \A b \in DOMAIN h.blocks : h.blocks[b].sz \in Nat
  BY FieldType
<1>. QED BY <1>1, <1>2 DEF BlocksType

(* m61_malloc counts the block that it hands out.                          *)
LEMMA TakesCounts ==
  ASSUME NEW h, IsHeap(h), NEW sz \in Nat, NEW g, IsHeap(g), NEW b, NEW pad, NEW end,
         Takes(h, sz, g, b, pad, end), NEW s, Counts(h.blocks, s)
  PROVE  Counts(g.blocks, Counted(s, b, sz))
<1>1. Grown(h.blocks, g.blocks, b, sz)
  BY DEF Takes, Grown
<1>2. BlocksType(h.blocks) /\ BlocksType(g.blocks)
  BY BlocksTyped
<1>. QED BY <1>1, <1>2, CountsGrown

(* The invariant with the statistics.                                      *)
StatsInv == AllocatorInv /\ Counts(heap.blocks, stats)

(* Each call keeps the statistics in step with the maps.                   *)
LEMMA MallocFitsCounts ==
  ASSUME StatsInv, AllocatorInv', NEW sz \in Nat, MallocFits(sz)
  PROVE  Counts(heap.blocks, stats)'
<1>1. /\ Fits(heap, sz) # {} /\ heap' = Taken(heap, sz)
      /\ stats' = Counted(stats, Min(Fits(heap, sz)), sz)
  BY DEF MallocFits
<1>2. IsHeap(heap) /\ Placed(heap) /\ IsHeap(heap') /\ Counts(heap.blocks, stats)
  BY DEF StatsInv, AllocatorInv, Sound
<1>. DEFINE b == Min(Fits(heap, sz))
<1>3. PICK pad, end : Takes(heap, sz, heap', b, pad, end)
  BY <1>1, <1>2, TakenIs
<1>4. stats' = Counted(stats, b, sz)
  BY <1>1
<1>. HIDE DEF b
<1>5. Counts(heap'.blocks, Counted(stats, b, sz))
  BY <1>2, <1>3, TakesCounts
<1>. QED BY <1>4, <1>5

(* m61_calloc, which fills the block with zeros, counts it as m61_malloc   *)
(* does.                                                                   *)
LEMMA CallocCounts ==
  ASSUME StatsInv, NEW n \in Nat, Fits(heap, n) # {},
         heap' = [Taken(heap, n) EXCEPT !.mem = Fill(@, Span(Min(Fits(heap, n)), n), Zero)],
         stats' = Counted(stats, Min(Fits(heap, n)), n)
  PROVE  Counts(heap.blocks, stats)'
<1>. DEFINE g == Taken(heap, n)
            b == Min(Fits(heap, n))
            m == Fill(g.mem, Span(b, n), Zero)
<1>1. IsHeap(heap) /\ Placed(heap) /\ Counts(heap.blocks, stats)
  BY DEF StatsInv, AllocatorInv, Sound
<1>2. PICK pad, end : Takes(heap, n, g, b, pad, end)
  BY <1>1, TakenIs
<1>3. IsHeap(g)
  BY <1>1, <1>2, TakesPlaced
<1>4. heap' = [g EXCEPT !.mem = m] /\ stats' = Counted(stats, b, n)
  OBVIOUS
<1>. HIDE DEF g, b, m
<1>5. heap'.blocks = g.blocks
  <2>1. \A k : k = [g EXCEPT !.mem = m] => k.blocks = g.blocks
    BY <1>3, MemOnly
  <2>. QED BY <1>4, <2>1
<1>6. Counts(g.blocks, Counted(stats, b, n))
  BY <1>1, <1>2, <1>3, TakesCounts
<1>. QED BY <1>4, <1>5, <1>6

(* m61_free counts the block out, or ends the program.                     *)
LEMMA FreeCounts ==
  ASSUME StatsInv, AllocatorInv', NEW p \in DOMAIN heap.blocks, Free(p)
  PROVE  Counts(heap.blocks, stats)'
<1>1. CASE Intact(heap, p)
  <2>1. heap' = Given(heap, p) /\ stats' = Discounted(stats, heap.blocks[p].sz)
    BY <1>1 DEF Free
  <2>2. IsHeap(heap) /\ Placed(heap) /\ IsHeap(heap') /\ Counts(heap.blocks, stats)
    BY DEF StatsInv, AllocatorInv, Sound
  <2>3. PICK s, e : Gives(heap, p, heap', s, e)
    BY <2>1, <2>2, GivenIs
  <2>4. Grown(heap'.blocks, heap.blocks, p, heap.blocks[p].sz)
    BY <2>3 DEF Gives, Grown
  <2>5. BlocksType(heap.blocks) /\ BlocksType(heap'.blocks)
    BY <2>2, BlocksTyped
  <2>6. Counts(heap'.blocks, Discounted(stats, heap.blocks[p].sz))
    BY <2>2, <2>4, <2>5, CountsLess
  <2>. QED BY <2>1, <2>6
<1>2. CASE ~Intact(heap, p)
  BY <1>2 DEF Free, Report, StatsInv
<1>. QED BY <1>1, <1>2

(* m61_realloc to a larger size counts the new block and then the old one  *)
(* out.                                                                    *)
LEMMA GrowCounts ==
  ASSUME StatsInv, AllocatorInv', NEW p \in DOMAIN heap.blocks, NEW sz \in Nat, Grow(p, sz)
  PROVE  Counts(heap.blocks, stats)' \/ (heap' = heap /\ stats' = Refused(stats))
<1>1. CASE MallocFails(sz)
  BY <1>1 DEF MallocFails
<1>2. CASE Fits(heap, sz) # {} /\ ~Intact(heap, p) /\ ~MallocFails(sz)
  BY <1>2 DEF Grow, Report, StatsInv
<1>3. CASE Fits(heap, sz) # {} /\ Intact(heap, p) /\ ~MallocFails(sz)
  <2>. DEFINE old == heap.blocks[p].sz
              b == Min(Fits(heap, sz))
              g == Taken(heap, sz)
              k == Copied(g, p, b, old)
              m == [i \in Positions |-> IF i \in Span(b, old) THEN g.mem[p + i - b] ELSE g.mem[i]]
  <2>1. IsHeap(heap) /\ Placed(heap) /\ IsHeap(heap') /\ Counts(heap.blocks, stats)
    BY DEF StatsInv, AllocatorInv, Sound
  <2>2. PICK pad, end : Takes(heap, sz, g, b, pad, end)
    BY <1>3, <2>1, TakenIs
  <2>3. heap' = Given(k, p) /\ stats' = Discounted(Counted(stats, b, sz), old)
    BY <1>3 DEF Grow
  <2>4. k = [g EXCEPT !.mem = m]
    BY DEF Copied
  <2>5. IsHeap(g)
    BY <2>1, <2>2, TakesPlaced
  <2>. HIDE DEF b, g, k, old, m
  <2>6. k = [f \in Fields |-> k[f]] /\ k.blocks = g.blocks
    BY <2>4, <2>5, MemOnly
  <2>7. heap'.blocks = Less(g.blocks, {p})
    BY <2>3, <2>6 DEF Given, Fields
  <2>8. Counts(g.blocks, Counted(stats, b, sz))
    BY <2>1, <2>2, <2>5, TakesCounts
  <2>9. p \in DOMAIN g.blocks /\ g.blocks[p].sz = old
    BY <2>2 DEF Takes, old
  <2>10. Grown(heap'.blocks, g.blocks, p, old)
    BY <2>7, <2>9 DEF Less, Grown
  <2>11. BlocksType(g.blocks) /\ BlocksType(heap'.blocks)
    BY <2>1, <2>5, BlocksTyped
  <2>12. Counts(heap'.blocks, Discounted(Counted(stats, b, sz), old))
    BY <2>8, <2>9, <2>10, <2>11, CountsLess
  <2>. QED BY <2>3, <2>12
<1>. QED BY <1>1, <1>2, <1>3 DEF Grow

(* m61_realloc to a smaller size counts nothing: active_size stays, too    *)
(* large from then on (m61.cc:289-295).                                    *)
LEMMA ShrinkCounts ==
  ASSUME StatsInv, AllocatorInv', NEW p \in DOMAIN heap.blocks, NEW sz \in Nat, Shrink(p, sz)
  PROVE  Counts(heap.blocks, stats)'
<1>1. sz \in 1..heap.blocks[p].sz /\ heap' = Shrunk(heap, p, sz) /\ stats' = stats
  BY DEF Shrink
<1>2. IsHeap(heap) /\ IsHeap(heap') /\ Counts(heap.blocks, stats)
  BY DEF StatsInv, AllocatorInv, Sound
<1>3. PICK end : Shrinks(heap, p, sz, heap', end)
  BY <1>1, <1>2, ShrunkIs
<1>4. heap.blocks[p].sz \in Nat
  BY <1>2, FieldType
<1>5. /\ DOMAIN heap'.blocks = DOMAIN heap.blocks
      /\ heap'.blocks[p].sz <= heap.blocks[p].sz
      /\ \A c \in DOMAIN heap.blocks \ {p} : heap'.blocks[c].sz = heap.blocks[c].sz
  BY <1>1, <1>3, <1>4 DEF Shrinks
<1>6. BlocksType(heap.blocks) /\ BlocksType(heap'.blocks)
  BY <1>2, BlocksTyped
<1>7. Counts(heap'.blocks, stats)
  BY <1>2, <1>5, <1>6, CountsCut
<1>. QED BY <1>1, <1>7

(* A failure is counted apart.                                             *)
LEMMA RefusedCounts ==
  ASSUME NEW B, NEW s, Counts(B, s)
  PROVE  Counts(B, Refused(s))
<1>. DEFINE r == Refused(s)
<1>1. /\ DOMAIN r = StatsFields
      /\ r.ntotal = s.ntotal /\ r.nactive = s.nactive /\ r.active_size = s.active_size
      /\ r.heap_min = s.heap_min /\ r.heap_max = s.heap_max
  BY DEF Counts, StatsFields, Refused
<1>. HIDE DEF r
<1>2. Counts(B, r)
  BY <1>1 DEF Counts
<1>. QED BY <1>2 DEF r

(* At first there is nothing to count.                                     *)
LEMMA InitCounts ==
  ASSUME Init
  PROVE  Counts(heap.blocks, stats)
<1>1. /\ heap.blocks = << >> /\ DOMAIN heap.blocks = {}
      /\ DOMAIN stats = StatsFields
      /\ stats.ntotal = 0 /\ stats.nactive = 0 /\ stats.active_size = 0
      /\ stats.heap_min = 0 /\ stats.heap_max = 0
  BY DEF Init, StatsFields
<1>2. Cardinality({}) = 0
  BY FS_EmptySet
<1>3. Sum(Sizes(heap.blocks), {}) = 0
  BY SumEmpty
<1>. QED BY <1>1, <1>2, <1>3 DEF Counts

(* Every step keeps the statistics in step with the maps.                  *)
LEMMA StepCounts == StatsInv /\ [Next]_vars => StatsInv'
<1>. SUFFICES ASSUME StatsInv, [Next]_vars
              PROVE  StatsInv'
  OBVIOUS
<1>1. AllocatorInv'
  BY StepSound DEF StatsInv
<1>2. SUFFICES Counts(heap.blocks, stats)'
  BY <1>1 DEF StatsInv
<1>3. CASE heap' = heap /\ (stats' = stats \/ stats' = Refused(stats))
  <2>1. Counts(heap.blocks, stats) /\ Counts(heap.blocks, Refused(stats))
    BY RefusedCounts DEF StatsInv
  <2>2. CASE stats' = stats
    BY <1>3, <2>1, <2>2
  <2>3. CASE stats' = Refused(stats)
    BY <1>3, <2>1, <2>3
  <2>. QED BY <1>3, <2>2, <2>3
<1>4. ASSUME NEW sz \in Requests, Malloc(sz)
      PROVE  Counts(heap.blocks, stats)'
  <2>1. sz \in Nat
    BY AllocatorAssumption
  <2>2. CASE MallocFits(sz)
    BY <1>1, <2>1, <2>2, MallocFitsCounts
  <2>3. CASE MallocFails(sz)
    BY <1>3, <2>3 DEF MallocFails
  <2>. QED BY <1>4, <2>2, <2>3 DEF Malloc
<1>5. ASSUME NEW a \in Arrays, Calloc(a[1], a[2])
      PROVE  Counts(heap.blocks, stats)'
  <2>. DEFINE n == a[1] * a[2]
  <2>1. n \in Nat
    <3>1. a[1] \in Nat /\ a[2] \in Nat
      BY AllocatorAssumption
    <3>. QED BY <3>1
  <2>2. CASE heap' = heap /\ stats' = Refused(stats)
    BY <1>3, <2>2
  <2>3. CASE /\ Fits(heap, n) # {}
             /\ heap' = [Taken(heap, n) EXCEPT
                           !.mem = Fill(@, Span(Min(Fits(heap, n)), n), Zero)]
             /\ stats' = Counted(stats, Min(Fits(heap, n)), n)
    <3>. HIDE DEF n
    <3>. QED BY <2>1, <2>3, CallocCounts
  <2>. QED BY <1>5, <2>2, <2>3 DEF Calloc, MallocFails
<1>6. ASSUME NEW q \in Strays, BadFree(q)
      PROVE  Counts(heap.blocks, stats)'
  <2>1. heap' = heap /\ stats' = stats
    BY <1>6 DEF BadFree, Report
  <2>. QED BY <1>3, <2>1
<1>7. ASSUME NEW p \in DOMAIN heap.blocks, Free(p)
      PROVE  Counts(heap.blocks, stats)'
  BY <1>1, <1>7, FreeCounts
<1>8. ASSUME NEW p \in DOMAIN heap.blocks, NEW sz \in Requests, Shrink(p, sz) \/ Grow(p, sz)
      PROVE  Counts(heap.blocks, stats)'
  <2>1. sz \in Nat
    BY AllocatorAssumption
  <2>2. CASE Shrink(p, sz)
    BY <1>1, <2>1, <2>2, ShrinkCounts
  <2>3. CASE Grow(p, sz)
    BY <1>1, <1>3, <2>1, <2>3, GrowCounts
  <2>. QED BY <1>8, <2>2, <2>3
<1>9. ASSUME NEW p \in DOMAIN heap.blocks, NEW v \in Bytes, NEW over \in {0, 1},
             Store(p, heap.blocks[p].sz + over, v)
      PROVE  Counts(heap.blocks, stats)'
  <2>1. stats' = stats /\ heap' = [heap EXCEPT !.mem = Fill(@, Span(p, heap.blocks[p].sz + over), v)]
    BY <1>9 DEF Store
  <2>2. heap'.blocks = heap.blocks
    BY <2>1, MemOnly DEF StatsInv, AllocatorInv, Sound
  <2>. QED BY <2>1, <2>2 DEF StatsInv
<1>10. CASE UNCHANGED vars
  BY <1>3, <1>10 DEF vars
<1>. QED BY <1>4, <1>5, <1>6, <1>7, <1>8, <1>9, <1>10 DEF Next

(* The sum that the property states is the sum of the sizes.               *)
LEMMA ActiveSum ==
  ASSUME StatsInv
  PROVE  MapThenSumSet(LAMBDA b : heap.blocks[b].sz, DOMAIN heap.blocks)
           = Sum(Sizes(heap.blocks), DOMAIN heap.blocks)
<1>. DEFINE S == DOMAIN heap.blocks
            w == Sizes(heap.blocks)
            Computes(f) ==
              f = [s \in SUBSET S |->
                     IF s = {} THEN 0
                     ELSE heap.blocks[CHOOSE x \in s : TRUE].sz + f[s \ {CHOOSE x \in s : TRUE}]]
            g == CHOOSE f : Computes(f)
<1>1. \A x \in S : w[x] = heap.blocks[x].sz
  BY DEF Sizes
<1>2. \A f : Sums(f, w, S) <=> Computes(f)
  <2>. HIDE DEF w
  <2>. SUFFICES ASSUME NEW f
                PROVE  Sums(f, w, S) <=> Computes(f)
    OBVIOUS
  <2>1. \A s \in SUBSET S : s # {} =>
          w[CHOOSE x \in s : TRUE] = heap.blocks[CHOOSE x \in s : TRUE].sz
    BY <1>1
  <2>. QED BY <2>1 DEF Sums
<1>3. IsFiniteSet(S)
  BY BlocksTyped DEF StatsInv, AllocatorInv, Sound, BlocksType
<1>4. PICK f : Sums(f, w, S)
  BY <1>3, SumsExist
<1>5. Computes(g)
  <2>. HIDE DEF Computes
  <2>1. Computes(f)
    BY <1>2, <1>4
  <2>. QED BY <2>1
<1>6. Sums(g, w, S)
  BY <1>2, <1>5
<1>7. Sum(w, S) = g[S]
  <2>. HIDE DEF g, w
  <2>. QED BY <1>3, <1>6, SumValue
<1>8. MapThenSumSet(LAMBDA b : heap.blocks[b].sz, S) = g[S]
  BY DEF MapThenSumSet, MapThenFoldSet
<1>. QED BY <1>7, <1>8

(* The statistics agree with the maps: the number of active blocks, no     *)
(* fewer bytes than they have, and bounds around them (m61.cc:117-129,     *)
(* 198-199).                                                               *)
THEOREM StatsAgree == Spec => []StatsCover
<1>1. Init => StatsInv
  BY InitSound, InitCounts DEF StatsInv
<1>2. StatsInv /\ [Next]_vars => StatsInv'
  BY StepCounts
<1>3. StatsInv => StatsCover
  BY ActiveSum DEF StatsInv, Counts, StatsCover
<1>. QED BY <1>1, <1>2, <1>3, PTL DEF Spec

-----------------------------------------------------------------------------
(* The allocator gives out blocks the way Heap promises: each step is one  *)
(* of Heap's or leaves its variables as they are.                          *)
(* The blocks with their bytes, which is what the client may look at.      *)
Live(h) ==
  [b \in DOMAIN h.blocks |-> [i \in 0..(h.blocks[b].sz - 1) |-> h.mem[b + i]]]

(* The blocks that the client sees, and their sizes.                       *)
LEMMA LiveDomain ==
  ASSUME NEW h
  PROVE  /\ DOMAIN Live(h) = DOMAIN h.blocks
         /\ \A b \in DOMAIN h.blocks : DOMAIN Live(h)[b] = 0..(h.blocks[b].sz - 1)
BY DEF Live

(* A block whose bytes stay as they are is the same to its owner.          *)
LEMMA LiveSame ==
  ASSUME NEW h, IsHeap(h), NEW g, NEW p \in DOMAIN h.blocks, p \in DOMAIN g.blocks,
         g.blocks[p] = h.blocks[p],
         \A i \in Int : p <= i /\ i < End(h, p) => g.mem[i] = h.mem[i]
  PROVE  Live(g)[p] = Live(h)[p]
<1>1. p \in Nat /\ h.blocks[p].sz \in Nat /\ h.blocks[p].pad \in Nat
      /\ End(h, p) = p + h.blocks[p].sz + h.blocks[p].pad
  BY FieldType DEF End
<1>2. \A i \in 0..(h.blocks[p].sz - 1) : p + i \in Int /\ p <= p + i /\ p + i < End(h, p)
  BY <1>1
<1>3. \A i \in 0..(h.blocks[p].sz - 1) : g.mem[p + i] = h.mem[p + i]
  BY <1>2
<1>. QED BY <1>3 DEF Live

(* Cardinality means in Heap what it means here.                           *)
LEMMA CardinalityInHeap == \A S : Blocks!Cardinality(S) = Cardinality(S)
BY Zenon DEF Blocks!Cardinality, Cardinality, Blocks!IsFiniteSet, IsFiniteSet

(* The number of numbers below n.                                          *)
LEMMA CountTo ==
  ASSUME NEW n \in Nat
  PROVE  Cardinality(0..(n - 1)) = n
<1>1. Cardinality(0..(n - 1)) = IF 0 > n - 1 THEN 0 ELSE (n - 1) - 0 + 1
  BY FS_Interval
<1>. QED BY <1>1

(* The bytes that Heap counts to a block; an empty one has its first.      *)
LEMMA LiveSpan ==
  ASSUME NEW h, IsHeap(h), NEW p \in DOMAIN h.blocks
  PROVE  Blocks!Span(Live(h), p)
           = p..(p + IF h.blocks[p].sz = 0 THEN 0 ELSE h.blocks[p].sz - 1)
<1>1. h.blocks[p].sz \in Nat /\ p \in Nat
  BY FieldType
<1>2. Cardinality(0..(h.blocks[p].sz - 1)) = h.blocks[p].sz
  BY <1>1, CountTo
<1>3. DOMAIN Live(h)[p] = 0..(h.blocks[p].sz - 1)
  BY LiveDomain
<1>4. Blocks!Cardinality(DOMAIN Live(h)[p]) = h.blocks[p].sz
  BY <1>2, <1>3, CardinalityInHeap
<1>. QED BY <1>4 DEF Blocks!Span

(* They lie within the block and its padding.                              *)
LEMMA LiveSpanWithin ==
  ASSUME NEW h, IsHeap(h), NEW p \in DOMAIN h.blocks
  PROVE  \A i \in Blocks!Span(Live(h), p) : i \in Int /\ p <= i /\ i < End(h, p)
<1>1. h.blocks[p].sz \in Nat /\ h.blocks[p].pad \in Nat \ {0} /\ p \in Nat
  BY FieldType
<1>. QED BY <1>1, LiveSpan DEF End

(* A block taken from the free memory of h shares no byte with h's blocks. *)
HandedOut(h, k, b, sz) ==
  /\ b % Align = 0 /\ b \in Positions
  /\ DOMAIN Live(k) = DOMAIN Live(h) \cup {b} /\ b \notin DOMAIN Live(h)
  /\ \A c \in DOMAIN Live(h) : Live(k)[c] = Live(h)[c]
  /\ Live(k)[b] = [i \in 0..(sz - 1) |-> k.mem[b + i]]
  /\ Blocks!Span(Live(k), b) \subseteq Positions
  /\ \A c \in DOMAIN Live(h) :
       Blocks!Span(Live(h), c) \cap Blocks!Span(Live(k), b) = {}

(* m61_malloc hands out memory that no other block has, and leaves the     *)
(* bytes of the others alone (m61.cc:84-102).                              *)
LEMMA TakesHanded ==
  ASSUME NEW h, NEW S, Sound(h, S), NEW sz \in Nat, NEW g, NEW b, NEW pad, NEW end,
         Takes(h, sz, g, b, pad, end),
         NEW m \in [Positions -> Bytes],
         \A i \in Positions : ~(b <= i /\ i < b + sz) => m[i] = g.mem[i],
         NEW k, Rewrites(g, m, k)
  PROVE  HandedOut(h, k, b, sz)
<1>1. /\ IsHeap(k) /\ Placed(k) /\ End(k, b) = end
      /\ DOMAIN k.blocks = DOMAIN h.blocks \cup {b} /\ b \notin DOMAIN h.blocks
      /\ \A c \in DOMAIN h.blocks :
           /\ k.blocks[c] = h.blocks[c]
           /\ \A i \in Int : c <= i /\ i < End(h, c) => k.mem[i] = h.mem[i]
  <2>1. Leaves(h, k, b, end)
    BY TakesLeaves
  <2>. QED BY <2>1 DEF Leaves
<1>2. IsHeap(h) /\ Placed(h)
  BY DEF Sound
<1>3. b \in Nat /\ b % Align = 0 /\ b < end /\ end \in Nat /\ end <= Size
      /\ g.blocks[b].sz = sz /\ b < Size
  BY PositionsType DEF Takes, Multiple
<1>4. IsHeap(g)
  BY <1>2, TakesPlaced
<1>5. k.blocks = g.blocks /\ k.mem = m
  BY <1>4, MemOnly DEF Rewrites
<1>6. DOMAIN Live(k) = DOMAIN Live(h) \cup {b} /\ b \notin DOMAIN Live(h)
  BY <1>1, LiveDomain
<1>7. \A c \in DOMAIN Live(h) : Live(k)[c] = Live(h)[c]
  <2>. SUFFICES ASSUME NEW c \in DOMAIN h.blocks
                PROVE  Live(k)[c] = Live(h)[c]
    BY LiveDomain
  <2>. QED BY <1>1, <1>2, LiveSame
<1>8. Live(k)[b] = [i \in 0..(sz - 1) |-> k.mem[b + i]]
  BY <1>1, <1>3, <1>5 DEF Live
<1>9. \A i \in Blocks!Span(Live(k), b) : i \in Int /\ b <= i /\ i < end
  BY <1>1, LiveSpanWithin
<1>10. Blocks!Span(Live(k), b) \subseteq Positions
  BY <1>3, <1>9, PositionsType
<1>11. ASSUME NEW c \in DOMAIN Live(h), NEW i \in Blocks!Span(Live(h), c),
              i \in Blocks!Span(Live(k), b)
       PROVE  FALSE
  <2>1. c \in DOMAIN h.blocks /\ c # b /\ c \in DOMAIN k.blocks /\ b \in DOMAIN k.blocks
    BY <1>1, LiveDomain
  <2>2. i \in Int /\ c <= i /\ i < End(h, c) /\ b <= i /\ i < end
    BY <1>2, <1>9, <1>11, <2>1, LiveSpanWithin
  <2>3. c \in Nat /\ End(h, c) \in Nat /\ End(k, c) = End(h, c)
    BY <1>1, <1>2, <2>1, EndType DEF End
  <2>4. (c < b => End(h, c) <= b) /\ (b < c => end <= c)
    BY <1>1, <2>1, <2>3 DEF Placed, Ordered
  <2>. QED BY <1>3, <2>1, <2>2, <2>3, <2>4
<1>. QED BY <1>3, <1>6, <1>7, <1>8, <1>10, <1>11, PositionsType DEF HandedOut

(* m61_free takes away one block and no byte of the others.                *)
LEMMA GivenLive ==
  ASSUME NEW h, NEW S, Sound(h, S), NEW p \in DOMAIN h.blocks
  PROVE  /\ Live(Given(h, p)) = [q \in DOMAIN Live(h) \ {p} |-> Live(h)[q]]
         /\ Given(h, p).freed = h.freed \cup {p}
<1>. SUFFICES ASSUME NEW g, g = Given(h, p), NEW s, NEW e, Gives(h, p, g, s, e)
              PROVE  /\ Live(g) = [q \in DOMAIN Live(h) \ {p} |-> Live(h)[q]]
                     /\ g.freed = h.freed \cup {p}
  <2>1. \E s, e : Gives(h, p, Given(h, p), s, e)
    BY GivenIs DEF Sound
  <2>. QED BY <2>1
<1>1. /\ DOMAIN g.blocks = DOMAIN h.blocks \ {p}
      /\ \A c \in DOMAIN g.blocks : g.blocks[c] = h.blocks[c]
      /\ g.freed = h.freed \cup {p}
      /\ g.mem = h.mem
  BY DEF Gives
<1>. QED BY <1>1 DEF Live

(* At first no block is active.                                            *)
LEMMA InitRefines ==
  ASSUME Init
  PROVE  Blocks!Init
<1>1. heap.blocks = << >> /\ heap.freed = {} /\ report = [kind |-> "none", ptr |-> Outside]
  BY DEF Init
<1>2. Live(heap) = << >>
  <2>1. DOMAIN heap.blocks = {}
    BY <1>1
  <2>. QED BY <2>1 DEF Live
<1>. QED BY <1>1, <1>2 DEF Blocks!Init, Live

(* The allocation of a block is Heap's Malloc, the rest of m61_realloc its *)
(* Grow.                                                                   *)
LEMMA MallocRefines ==
  ASSUME AllocatorInv, Running, NEW sz \in Nat, NEW g, NEW b, NEW pad, NEW end,
         Takes(heap, sz, g, b, pad, end),
         NEW m \in [Positions -> Bytes],
         \A i \in Positions : ~(b <= i /\ i < b + sz) => m[i] = g.mem[i],
         Rewrites(g, m, heap'), UNCHANGED report
  PROVE  Blocks!Next
<1>1. /\ b % Align = 0 /\ b \in Positions
      /\ DOMAIN Live(heap') = DOMAIN Live(heap) \cup {b} /\ b \notin DOMAIN Live(heap)
      /\ \A c \in DOMAIN Live(heap) : Live(heap')[c] = Live(heap)[c]
      /\ Blocks!Span(Live(heap'), b) \subseteq Positions
      /\ \A c \in DOMAIN Live(heap) :
           Blocks!Span(Live(heap), c) \cap Blocks!Span(Live(heap'), b) = {}
  <2>1. HandedOut(heap, heap', b, sz)
    BY TakesHanded DEF AllocatorInv
  <2>. QED BY <2>1 DEF HandedOut
<1>2. heap'.freed = heap.freed \ {b}
  <2>1. IsHeap(g)
    BY TakesPlaced DEF AllocatorInv, Sound
  <2>2. heap'.freed = g.freed
    BY <2>1, MemOnly DEF Rewrites
  <2>. QED BY <2>2 DEF Takes
<1>3. Blocks!Handed(b)
  BY <1>1 DEF Blocks!Handed, Live, Positions
<1>4. Blocks!Only(b)
  <2>1. [q \in DOMAIN Live(heap') \ {b} |-> Live(heap')[q]]
          = [q \in DOMAIN Live(heap) \ {b} |-> Live(heap)[q]]
    BY <1>1
  <2>. QED BY <2>1 DEF Blocks!Only, Blocks!Others, Live
<1>5. Blocks!Malloc(b)
  BY <1>2, <1>3, <1>4 DEF Blocks!Malloc
<1>. QED BY <1>1, <1>5 DEF Blocks!Next, Running, Positions

(* m61_malloc is Heap's Malloc.                                            *)
LEMMA MallocFitsRefines ==
  ASSUME AllocatorInv, Running, NEW sz \in Nat, MallocFits(sz)
  PROVE  Blocks!Next
<1>1. Fits(heap, sz) # {} /\ heap' = Taken(heap, sz) /\ UNCHANGED report
  BY DEF MallocFits
<1>2. IsHeap(heap) /\ Placed(heap)
  BY DEF AllocatorInv, Sound
<1>3. PICK b, pad, end : Takes(heap, sz, heap', b, pad, end)
  BY <1>1, <1>2, TakenIs
<1>4. IsHeap(heap')
  BY <1>2, <1>3, TakesPlaced
<1>5. heap'.mem \in [Positions -> Bytes]
  BY <1>4 DEF IsHeap
<1>6. Rewrites(heap', heap'.mem, heap')
  <2>1. heap' = [f \in Fields |-> heap'[f]]
    BY <1>4 DEF IsHeap
  <2>. QED BY <2>1 DEF Fields, Rewrites
<1>. QED BY <1>1, <1>3, <1>5, <1>6, MallocRefines

(* m61_calloc is Heap's Malloc.                                            *)
LEMMA CallocRefines ==
  ASSUME AllocatorInv, Running, NEW n \in Nat, Fits(heap, n) # {},
         heap' = [Taken(heap, n) EXCEPT !.mem = Fill(@, Span(Min(Fits(heap, n)), n), Zero)],
         UNCHANGED report
  PROVE  Blocks!Next
<1>. DEFINE g == Taken(heap, n)
            b == Min(Fits(heap, n))
            m == Fill(g.mem, Span(b, n), Zero)
<1>1. IsHeap(heap) /\ Placed(heap)
  BY DEF AllocatorInv, Sound
<1>2. PICK pad, end : Takes(heap, n, g, b, pad, end)
  BY <1>1, TakenIs
<1>3. IsHeap(g)
  BY <1>1, <1>2, TakesPlaced
<1>4. Rewrites(g, m, heap')
  BY DEF Rewrites
<1>. HIDE DEF g, b
<1>5. m \in [Positions -> Bytes]
  <2>1. Zero \in Bytes /\ \A i \in Positions : g.mem[i] \in Bytes
    BY <1>3, AllocatorAssumption DEF IsHeap
  <2>. QED BY <2>1 DEF Fill
<1>6. b \in Nat
  BY <1>2 DEF Takes
<1>7. \A i \in Positions : ~(b <= i /\ i < b + n) => m[i] = g.mem[i]
  BY <1>6, PositionsType DEF Fill, Span
<1>. HIDE DEF m
<1>. QED BY <1>2, <1>4, <1>5, <1>7, MallocRefines

(* A wild write is reported of an active block.                            *)
LEMMA WildWriteRefines ==
  ASSUME AllocatorInv, Running, NEW p \in DOMAIN heap.blocks, Report("wild write", p)
  PROVE  Blocks!Next
<1>1. p \in Positions /\ p \notin heap.freed
  BY DEF AllocatorInv, Sound, IsHeap
<1>2. heap' = heap /\ report' = [kind |-> "wild write", ptr |-> p]
  BY DEF Report
<1>3. p \in DOMAIN Live(heap)
  BY LiveDomain
<1>4. Blocks!Stop(p)
  BY <1>1, <1>2, <1>3 DEF Blocks!Stop, Live
<1>. QED BY <1>1, <1>4 DEF Blocks!Next, Running, Positions

(* m61_free is Heap's Free, or stops the program.                          *)
LEMMA FreeRefines ==
  ASSUME AllocatorInv, NEW p \in DOMAIN heap.blocks, Free(p)
  PROVE  Blocks!Next
<1>0. Running
  BY DEF Free
<1>1. CASE Intact(heap, p)
  <2>1. heap' = Given(heap, p) /\ UNCHANGED report
    BY <1>1 DEF Free
  <2>2. /\ Live(heap') = [q \in DOMAIN Live(heap) \ {p} |-> Live(heap)[q]]
        /\ heap'.freed = heap.freed \cup {p}
    BY <2>1, GivenLive DEF AllocatorInv
  <2>3. p \in DOMAIN Live(heap) /\ p \in Positions
    BY LiveDomain DEF AllocatorInv, Sound, IsHeap
  <2>4. Blocks!Free(p)
    BY <2>1, <2>2, <2>3 DEF Blocks!Free, Blocks!Others, Live
  <2>. QED BY <1>0, <2>3, <2>4 DEF Blocks!Next, Running, Positions
<1>2. CASE ~Intact(heap, p)
  BY <1>0, <1>2, WildWriteRefines DEF Free
<1>. QED BY <1>1, <1>2

(* m61_realloc to a larger size is Heap's Grow: the bytes are in the new   *)
(* block, the other blocks keep theirs, and the old one is freed.          *)
LEMMA GrowRefines ==
  ASSUME AllocatorInv, NEW p \in DOMAIN heap.blocks, NEW sz \in Nat, Grow(p, sz),
         ~MallocFails(sz), NEW b, b = Min(Fits(heap, sz))
  PROVE  Blocks!Next
<1>0. Running
  BY DEF Grow
<1>. DEFINE old == heap.blocks[p].sz
            g == Taken(heap, sz)
            k == Copied(g, p, b, old)
            m == [i \in Positions |-> IF i \in Span(b, old) THEN g.mem[p + i - b] ELSE g.mem[i]]
<1>1. CASE ~Intact(heap, p)
  BY <1>0, <1>1, WildWriteRefines DEF Grow
<1>2. CASE Intact(heap, p)
  <2>1. IsHeap(heap) /\ Placed(heap)
    BY DEF AllocatorInv, Sound
  <2>2. PICK pad, end : Takes(heap, sz, g, b, pad, end)
    BY <2>1, TakenIs DEF Grow
  <2>3. heap' = Given(k, p) /\ old < sz /\ UNCHANGED report
    <3>1. old \in Nat
      BY <2>1, FieldType
    <3>. QED BY <1>2, <3>1 DEF Grow
  <2>4. Rewrites(g, m, k)
    BY DEF Copied, Rewrites
  <2>5. IsHeap(g)
    BY <2>1, <2>2, TakesPlaced
  <2>. HIDE DEF g, k
  <2>6. b \in Nat /\ p \in Nat /\ old \in Nat /\ p + old < Size
    <3>1. p \in Nat /\ old \in Nat /\ heap.blocks[p].pad \in Nat \ {0} /\ End(heap, p) <= Size
      BY <2>1, FieldType DEF Placed, Aligned
    <3>2. b \in Nat
      BY <2>2 DEF Takes
    <3>3. Size \in Nat
      BY PositionsType
    <3>. QED BY <3>1, <3>2, <3>3 DEF End
  <2>7. m \in [Positions -> Bytes]
    <3>. HIDE DEF old
    <3>1. \A i \in Positions : g.mem[i] \in Bytes
      BY <2>5 DEF IsHeap
    <3>2. \A i \in Positions : i \in Span(b, old) => p + i - b \in Positions
      BY <2>6, PositionsType DEF Span
    <3>. QED BY <3>1, <3>2
  <2>8. \A i \in Positions : ~(b <= i /\ i < b + sz) => m[i] = g.mem[i]
    <3>. HIDE DEF old
    <3>. QED BY <2>3, <2>6, PositionsType DEF Span
  <2>9. k.mem = m
    BY <2>4, <2>5, MemOnly DEF Rewrites
  <2>. HIDE DEF m
  <2>10. Sound(k, smashed) /\ HandedOut(heap, k, b, sz)
    BY <2>2, <2>4, <2>7, <2>8, TakesSound, TakesHanded DEF AllocatorInv
  <2>11. /\ b % Align = 0 /\ b \in Positions
         /\ DOMAIN Live(k) = DOMAIN Live(heap) \cup {b} /\ b \notin DOMAIN Live(heap)
         /\ \A c \in DOMAIN Live(heap) : Live(k)[c] = Live(heap)[c]
         /\ Live(k)[b] = [i \in 0..(sz - 1) |-> m[b + i]]
         /\ Blocks!Span(Live(k), b) \subseteq Positions
         /\ \A c \in DOMAIN Live(heap) :
              Blocks!Span(Live(heap), c) \cap Blocks!Span(Live(k), b) = {}
    BY <2>9, <2>10 DEF HandedOut
  <2>12. p \in DOMAIN k.blocks /\ p \in DOMAIN Live(heap) /\ p # b /\ p \in Positions
    <3>1. p \in DOMAIN Live(heap) /\ DOMAIN Live(k) = DOMAIN k.blocks
      BY LiveDomain
    <3>2. p \in Positions
      BY <2>1 DEF IsHeap
    <3>. QED BY <2>11, <3>1, <3>2
  <2>13. /\ Live(heap') = [q \in DOMAIN Live(k) \ {p} |-> Live(k)[q]]
         /\ heap'.freed = k.freed \cup {p}
    BY <2>3, <2>10, <2>12, GivenLive
  <2>14. k.freed = heap.freed \ {b}
    <3>1. k.freed = g.freed
      BY <2>4, <2>5, MemOnly DEF Rewrites
    <3>. QED BY <2>2, <3>1 DEF Takes
  <2>15. /\ b \in DOMAIN Live(heap') \ DOMAIN Live(heap)
         /\ Live(heap')[b] = Live(k)[b]
    BY <2>11, <2>12, <2>13
  <2>16. Blocks!Span(Live(heap'), b) = Blocks!Span(Live(k), b)
    BY <2>15 DEF Blocks!Span
  <2>17. Blocks!Handed(b)
    BY <2>11, <2>15, <2>16 DEF Blocks!Handed, Live, Positions
  <2>18. Blocks!Prefix(Live(heap)[p], Live(heap')[b])
    <3>1. DOMAIN Live(heap)[p] = 0..(old - 1)
      BY LiveDomain
    <3>2. Live(heap)[p] = [i \in 0..(old - 1) |-> heap.mem[p + i]]
      BY DEF Live
    <3>3. ASSUME NEW i \in 0..(old - 1)
          PROVE  i \in 0..(sz - 1) /\ m[b + i] = heap.mem[p + i]
      <4>1. i \in Nat /\ i < old /\ i \in 0..(sz - 1)
        BY <2>3, <2>6
      <4>2. b + i \in Positions
        <5>1. end \in Nat /\ end <= Size /\ b + sz <= end
          BY <2>2, <2>6, PositionsType DEF Takes
        <5>. QED BY <2>3, <2>6, <4>1, <5>1, PositionsType
      <4>3. b + i \in Span(b, old) /\ p + (b + i) - b = p + i
        BY <2>6, <4>1 DEF Span
      <4>4. m[b + i] = g.mem[p + i]
        BY <4>2, <4>3 DEF m
      <4>5. p + i \in Int /\ p <= p + i /\ p + i < End(heap, p) /\ p + i \in Positions
        <5>1. heap.blocks[p].pad \in Nat \ {0}
          BY <2>1, FieldType
        <5>. QED BY <2>6, <4>1, <5>1, PositionsType DEF End
      <4>6. g.mem[p + i] = heap.mem[p + i]
        <5>1. Rewrites(g, g.mem, g)
          <6>1. g = [f \in Fields |-> g[f]]
            BY <2>5 DEF IsHeap
          <6>. QED BY <6>1 DEF Rewrites, Fields
        <5>2. g.mem \in [Positions -> Bytes]
          BY <2>5 DEF IsHeap
        <5>3. Sound(heap, smashed)
          BY DEF AllocatorInv
        <5>4. Leaves(heap, g, b, end)
          BY <2>2, <5>1, <5>2, <5>3, TakesLeaves
        <5>. QED BY <4>5, <5>4 DEF Leaves
      <4>. QED BY <4>1, <4>4, <4>6
    <3>. QED BY <2>11, <2>15, <3>1, <3>2, <3>3 DEF Blocks!Prefix
  <2>19. Blocks!Others(Live(heap'), b) = Blocks!Others(Live(heap), p)
    BY <2>11, <2>12, <2>13 DEF Blocks!Others
  <2>20. Blocks!Grow(p, b)
    BY <2>3, <2>12, <2>13, <2>14, <2>17, <2>18, <2>19 DEF Blocks!Grow, Live
  <2>21. b \in Positions /\ p \in Positions
    BY <2>11, <2>12
  <2>. QED BY <1>0, <2>20, <2>21 DEF Blocks!Next, Running, Positions
<1>. QED BY <1>1, <1>2

(* m61_realloc to a smaller size is Heap's Shrink.                         *)
LEMMA ShrinkRefines ==
  ASSUME AllocatorInv, NEW p \in DOMAIN heap.blocks, NEW sz \in Nat, Shrink(p, sz)
  PROVE  Blocks!Next
<1>. DEFINE old == heap.blocks[p].sz
            end == p + sz + heap.blocks[p].pad
<1>1. Running /\ sz \in 1..old /\ heap' = Shrunk(heap, p, sz) /\ UNCHANGED report
  BY DEF Shrink
<1>2. IsHeap(heap) /\ p \in Positions
  BY DEF AllocatorInv, Sound, IsHeap
<1>3. Shrinks(heap, p, sz, heap', end)
  BY <1>1, <1>2, ShrunkIs
<1>4. /\ p \in Nat /\ old \in Nat /\ heap.blocks[p].pad \in Nat \ {0} /\ end <= End(heap, p)
      /\ End(heap, p) = p + old + heap.blocks[p].pad /\ End(heap, p) <= Size
  <2>1. p \in Nat /\ old \in Nat /\ heap.blocks[p].pad \in Nat \ {0}
    BY <1>2, FieldType
  <2>. QED BY <1>3, <2>1 DEF Shrinks, End, AllocatorInv, Sound, Placed, Aligned
<1>5. /\ DOMAIN heap'.blocks = DOMAIN heap.blocks
      /\ heap'.blocks[p].sz = sz
      /\ \A c \in DOMAIN heap.blocks : c # p => heap'.blocks[c] = heap.blocks[c]
      /\ heap'.freed = heap.freed
      /\ heap'.mem = [i \in Positions |-> IF p + sz <= i /\ i < end THEN Marker ELSE heap.mem[i]]
  <2>1. /\ heap'.blocks = [c \in DOMAIN heap.blocks |-> heap'.blocks[c]]
        /\ heap'.blocks[p] = [sz |-> sz, pad |-> heap.blocks[p].pad]
        /\ \A c \in DOMAIN heap.blocks : c # p => heap'.blocks[c] = heap.blocks[c]
        /\ heap'.freed = heap.freed
        /\ heap'.mem = [i \in Positions |-> IF p + sz <= i /\ i < end THEN Marker ELSE heap.mem[i]]
    BY <1>3 DEF Shrinks
  <2>2. DOMAIN heap'.blocks = DOMAIN heap.blocks
    BY <2>1
  <2>. QED BY <2>1, <2>2
<1>6. ASSUME NEW c \in DOMAIN heap.blocks, c # p
      PROVE  Live(heap')[c] = Live(heap)[c]
  <2>1. c \in Nat /\ End(heap, c) \in Nat /\ c < End(heap, c) /\ End(heap, c) <= Size
        /\ (c < p => End(heap, c) <= p) /\ (p < c => End(heap, p) <= c)
    BY <1>2, <1>6, EndType DEF AllocatorInv, Sound, Placed, Aligned, Ordered
  <2>2. ASSUME NEW i \in Int, c <= i, i < End(heap, c)
        PROVE  heap'.mem[i] = heap.mem[i]
    <3>1. i \in Positions /\ ~(p + sz <= i /\ i < end)
      BY <1>4, <1>6, <2>1, <2>2, PositionsType
    <3>. QED BY <1>5, <3>1
  <2>. QED BY <1>2, <1>5, <1>6, <2>2, LiveSame
<1>7. DOMAIN Live(heap') = DOMAIN Live(heap) /\ p \in DOMAIN Live(heap)
  BY <1>5, LiveDomain
<1>8. Blocks!Prefix(Live(heap')[p], Live(heap)[p])
  <2>1. Live(heap')[p] = [i \in 0..(sz - 1) |-> heap'.mem[p + i]]
    BY <1>5 DEF Live
  <2>2. Live(heap)[p] = [i \in 0..(old - 1) |-> heap.mem[p + i]]
    BY DEF Live
  <2>3. ASSUME NEW i \in 0..(sz - 1)
        PROVE  i \in 0..(old - 1) /\ heap'.mem[p + i] = heap.mem[p + i]
    <3>1. i \in 0..(old - 1) /\ p + i \in Positions /\ ~(p + sz <= p + i)
      BY <1>1, <1>4, PositionsType
    <3>. QED BY <1>5, <3>1
  <2>. QED BY <2>1, <2>2, <2>3 DEF Blocks!Prefix
<1>9. Blocks!Only(p)
  <2>1. [q \in DOMAIN Live(heap') \ {p} |-> Live(heap')[q]]
          = [q \in DOMAIN Live(heap) \ {p} |-> Live(heap)[q]]
    <3>1. \A q \in DOMAIN Live(heap) \ {p} : Live(heap')[q] = Live(heap)[q]
      BY <1>6, LiveDomain
    <3>. QED BY <1>7, <3>1
  <2>. QED BY <2>1 DEF Blocks!Only, Blocks!Others, Live
<1>10. Blocks!Shrink(p)
  BY <1>1, <1>5, <1>7, <1>8, <1>9 DEF Blocks!Shrink, Live
<1>11. Running /\ p \in 0..(Size - 1)
  BY <1>1, <1>2 DEF Positions
<1>. QED BY <1>10, <1>11 DEF Blocks!Next, Running

(* A store of the client is Heap's Write, beyond the end too: the marker   *)
(* byte that it overwrites is in no block.                                 *)
LEMMA WriteRefines ==
  ASSUME AllocatorInv, NEW p \in DOMAIN heap.blocks, NEW v \in Bytes, NEW over \in {0, 1},
         Store(p, heap.blocks[p].sz + over, v)
  PROVE  Blocks!Next
<1>. DEFINE n == heap.blocks[p].sz + over
            m == Fill(heap.mem, Span(p, n), v)
<1>1. Running /\ UNCHANGED report /\ Rewrites(heap, m, heap')
  BY DEF Store, Rewrites
<1>2. IsHeap(heap) /\ Placed(heap) /\ p \in Positions
  BY DEF AllocatorInv, Sound, IsHeap
<1>3. heap'.blocks = heap.blocks /\ heap'.freed = heap.freed /\ heap'.mem = m
  BY <1>1, <1>2, MemOnly DEF Rewrites
<1>4. /\ p \in Nat /\ heap.blocks[p].sz \in Nat /\ heap.blocks[p].pad \in Nat \ {0}
      /\ End(heap, p) = p + heap.blocks[p].sz + heap.blocks[p].pad /\ End(heap, p) <= Size
      /\ n \in Nat /\ heap.blocks[p].sz <= n /\ p + n <= End(heap, p)
  <2>1. /\ p \in Nat /\ heap.blocks[p].sz \in Nat /\ heap.blocks[p].pad \in Nat \ {0}
        /\ End(heap, p) = p + heap.blocks[p].sz + heap.blocks[p].pad
    BY <1>2, FieldType DEF End
  <2>2. End(heap, p) <= Size
    BY <1>2 DEF Placed, Aligned
  <2>. QED BY <2>1, <2>2
<1>5. \A i \in Positions : m[i] = IF p <= i /\ i < p + n THEN v ELSE heap.mem[i]
  BY <1>4, PositionsType DEF Fill, Span
<1>. HIDE DEF m, n
<1>6. ASSUME NEW c \in DOMAIN heap.blocks, c # p
      PROVE  Live(heap')[c] = Live(heap)[c]
  <2>1. c \in Nat /\ End(heap, c) \in Nat /\ c < End(heap, c) /\ End(heap, c) <= Size
        /\ (c < p => End(heap, c) <= p) /\ (p < c => End(heap, p) <= c)
    BY <1>2, <1>6, EndType DEF Placed, Aligned, Ordered
  <2>2. ASSUME NEW i \in Int, c <= i, i < End(heap, c)
        PROVE  heap'.mem[i] = heap.mem[i]
    <3>1. i \in Positions /\ ~(p <= i /\ i < p + n)
      BY <1>4, <1>6, <2>1, <2>2, PositionsType
    <3>. QED BY <1>3, <1>5, <3>1
  <2>3. c \in DOMAIN heap'.blocks /\ heap'.blocks[c] = heap.blocks[c]
    BY <1>3
  <2>. QED BY <1>2, <2>2, <2>3, LiveSame
<1>7. DOMAIN Live(heap') = DOMAIN Live(heap) /\ p \in DOMAIN Live(heap)
      /\ DOMAIN Live(heap)[p] = 0..(heap.blocks[p].sz - 1)
  BY <1>3, LiveDomain
<1>8. Live(heap')[p] = [i \in 0..(heap.blocks[p].sz - 1) |-> v]
  <2>1. Live(heap')[p] = [i \in 0..(heap.blocks[p].sz - 1) |-> m[p + i]]
    BY <1>3 DEF Live
  <2>2. \A i \in 0..(heap.blocks[p].sz - 1) : p + i \in Positions /\ p <= p + i /\ p + i < p + n
    BY <1>4, PositionsType
  <2>. QED BY <1>5, <2>1, <2>2
<1>9. Live(heap') = [Live(heap) EXCEPT ![p] = [i \in DOMAIN @ |-> v]]
  <2>1. Live(heap') = [c \in DOMAIN Live(heap) |-> Live(heap')[c]]
    BY <1>7 DEF Live
  <2>2. \A c \in DOMAIN Live(heap) : c # p => Live(heap')[c] = Live(heap)[c]
    BY <1>6, LiveDomain
  <2>. QED BY <1>7, <1>8, <2>1, <2>2
<1>10. Blocks!Write(p)
  BY <1>1, <1>3, <1>7, <1>9 DEF Blocks!Write, Live
<1>11. p \in 0..(Size - 1)
  BY <1>2 DEF Positions
<1>. QED BY <1>1, <1>10, <1>11 DEF Blocks!Next, Running

(* The kind of bug that m61_free reports is the one that it is             *)
(* (m61.cc:150-181).                                                       *)
LEMMA BadFreeRefines ==
  ASSUME AllocatorInv, NEW q \in Strays, BadFree(q)
  PROVE  Blocks!Next
<1>1. IsHeap(heap) /\ Placed(heap) /\ heap.freed \subseteq Positions
  BY DEF AllocatorInv, Sound, IsHeap
<1>2. Running /\ q \notin DOMAIN heap.blocks /\ heap' = heap
  BY DEF BadFree, Report
<1>3. q \in 0..(Size - 1) \cup {Outside}
  BY AllocatorAssumption
<1>4. q \notin DOMAIN Live(heap)
  BY <1>2, LiveDomain
<1>5. CASE q \in heap.freed
  <2>1. report' = [kind |-> "double free", ptr |-> q]
    BY <1>1, <1>5 DEF BadFree, Report
  <2>2. Blocks!Stop(q)
    BY <1>2, <1>4, <1>5, <2>1 DEF Blocks!Stop, Live
  <2>. QED BY <1>2, <1>3, <2>2 DEF Blocks!Next, Running
<1>6. CASE q \notin heap.freed /\ q \notin Positions
  <2>1. report' = [kind |-> "not in heap", ptr |-> q]
    BY <1>6 DEF BadFree, Report
  <2>2. Blocks!Stop(q)
    BY <1>2, <1>4, <1>6, <2>1 DEF Blocks!Stop, Live
  <2>. QED BY <1>2, <1>3, <2>2 DEF Blocks!Next, Running
<1>7. CASE q \notin heap.freed /\ q \in Positions /\ Below(q) = {}
  <2>1. report' = [kind |-> "undefined", ptr |-> q]
    BY <1>7 DEF BadFree, Report
  <2>2. Blocks!Stop(q)
    BY <1>2, <1>4, <1>7, <2>1 DEF Blocks!Stop, Live
  <2>. QED BY <1>2, <1>3, <2>2 DEF Blocks!Next, Running
<1>8. CASE q \notin heap.freed /\ q \in Positions /\ Below(q) # {}
  <2>. DEFINE b == Max(Below(q))
  <2>1. q \in Nat
    BY <1>8, PositionsType
  <2>2. b \in Below(q) /\ \A c \in Below(q) : c <= b
    <3>1. Below(q) \in SUBSET (0..q)
      <4>1. \A c \in DOMAIN heap.blocks : c \in Nat
        BY <1>1, FieldType
      <4>. QED BY <2>1, <4>1 DEF Below
    <3>. QED BY <1>8, <2>1, <3>1, MaxIsGreatest
  <2>3. report' = [kind |-> IF b + heap.blocks[b].sz > q THEN "inside" ELSE "not allocated",
                   ptr |-> q]
    BY <1>8 DEF BadFree, Report
  <2>. HIDE DEF b
  <2>4. b \in DOMAIN heap.blocks /\ b \in Nat /\ b <= q /\ b # q /\ heap.blocks[b].sz \in Nat
    BY <1>1, <1>2, <2>2, FieldType DEF Below
  <2>5. CASE b + heap.blocks[b].sz > q
    <3>1. report' = [kind |-> "inside", ptr |-> q]
      BY <2>3, <2>5
    <3>2. b \in DOMAIN Live(heap) /\ q \in Blocks!Span(Live(heap), b)
      <4>1. q \in b..(b + IF heap.blocks[b].sz = 0 THEN 0 ELSE heap.blocks[b].sz - 1)
        BY <2>1, <2>4, <2>5
      <4>. QED BY <1>1, <2>4, <4>1, LiveDomain, LiveSpan
    <3>3. Blocks!Stop(q)
      BY <1>2, <1>4, <1>8, <2>4, <3>1, <3>2 DEF Blocks!Stop, Live
    <3>. QED BY <1>2, <1>3, <3>3 DEF Blocks!Next, Running
  <2>6. CASE ~(b + heap.blocks[b].sz > q)
    <3>1. report' = [kind |-> "not allocated", ptr |-> q]
      BY <2>3, <2>6
    <3>2. ASSUME NEW c \in DOMAIN Live(heap), q \in Blocks!Span(Live(heap), c)
          PROVE  FALSE
      <4>1. c \in DOMAIN heap.blocks
        BY LiveDomain
      <4>2. c \in Nat /\ heap.blocks[c].sz \in Nat /\ End(heap, c) \in Nat
        BY <1>1, <4>1, FieldType, EndType
      <4>3. c <= q /\ q < End(heap, c)
        BY <1>1, <3>2, <4>1, LiveSpanWithin
      <4>4. c \in Below(q)
        BY <4>1, <4>3 DEF Below
      <4>5. c <= b
        BY <2>2, <4>4
      <4>6. CASE c = b
        <5>1. q \in b..(b + IF heap.blocks[b].sz = 0 THEN 0 ELSE heap.blocks[b].sz - 1)
          BY <1>1, <2>4, <3>2, <4>6, LiveSpan
        <5>. QED BY <2>1, <2>4, <2>6, <5>1
      <4>7. CASE c # b
        <5>1. End(heap, c) <= b
          BY <1>1, <2>4, <4>1, <4>2, <4>5, <4>7 DEF Placed, Ordered
        <5>. QED BY <2>1, <2>4, <4>2, <4>3, <5>1
      <4>. QED BY <4>6, <4>7
    <3>3. Blocks!Stop(q)
      BY <1>2, <1>4, <1>8, <3>1, <3>2 DEF Blocks!Stop, Live
    <3>. QED BY <1>2, <1>3, <3>3 DEF Blocks!Next, Running
  <2>. QED BY <2>5, <2>6
<1>. QED BY <1>5, <1>6, <1>7, <1>8

(* Every step is one of Heap's or changes none of its variables.           *)
LEMMA StepRefines == AllocatorInv /\ [Next]_vars => [Blocks!Next]_(Blocks!vars)
<1>. SUFFICES ASSUME AllocatorInv, [Next]_vars
              PROVE  Blocks!Next \/ UNCHANGED <<heap, report>>
  BY DEF Blocks!vars
<1>1. ASSUME NEW sz \in Requests, Malloc(sz)
      PROVE  Blocks!Next \/ UNCHANGED <<heap, report>>
  <2>1. sz \in Nat
    BY AllocatorAssumption
  <2>. QED BY <1>1, <2>1, MallocFitsRefines DEF Malloc, MallocFails
<1>2. ASSUME NEW a \in Arrays, Calloc(a[1], a[2])
      PROVE  Blocks!Next \/ UNCHANGED <<heap, report>>
  <2>. DEFINE n == a[1] * a[2]
  <2>1. n \in Nat
    <3>1. a[1] \in Nat /\ a[2] \in Nat
      BY AllocatorAssumption
    <3>. QED BY <3>1
  <2>2. Running
    BY <1>2 DEF Calloc
  <2>3. CASE /\ Fits(heap, n) # {}
             /\ heap' = [Taken(heap, n) EXCEPT
                           !.mem = Fill(@, Span(Min(Fits(heap, n)), n), Zero)]
             /\ UNCHANGED report
    <3>. HIDE DEF n
    <3>. QED BY <2>1, <2>2, <2>3, CallocRefines
  <2>. QED BY <1>2, <2>3 DEF Calloc, MallocFails
<1>3. ASSUME NEW q \in Strays, BadFree(q)
      PROVE  Blocks!Next
  BY <1>3, BadFreeRefines
<1>4. ASSUME NEW p \in DOMAIN heap.blocks, Free(p)
      PROVE  Blocks!Next
  BY <1>4, FreeRefines
<1>5. ASSUME NEW p \in DOMAIN heap.blocks, NEW sz \in Requests, Shrink(p, sz) \/ Grow(p, sz)
      PROVE  Blocks!Next \/ UNCHANGED <<heap, report>>
  <2>1. sz \in Nat
    BY AllocatorAssumption
  <2>2. CASE Grow(p, sz) /\ ~MallocFails(sz)
    <3>1. PICK b : b = Min(Fits(heap, sz))
      OBVIOUS
    <3>. QED BY <2>1, <2>2, <3>1, GrowRefines
  <2>3. CASE MallocFails(sz)
    BY <2>3 DEF MallocFails
  <2>. QED BY <1>5, <2>1, <2>2, <2>3, ShrinkRefines
<1>6. ASSUME NEW p \in DOMAIN heap.blocks, NEW v \in Bytes, NEW over \in {0, 1},
             Store(p, heap.blocks[p].sz + over, v)
      PROVE  Blocks!Next
  BY <1>6, WriteRefines
<1>7. CASE UNCHANGED vars
  BY <1>7 DEF vars
<1>. QED BY <1>1, <1>2, <1>3, <1>4, <1>5, <1>6, <1>7 DEF Next

(* The allocator implements Heap: each active block is memory of its       *)
(* owner's, whatever is done to the others, and a pointer is recognised as *)
(* freed until it is returned again (m61.cc:73-306).                       *)
THEOREM BlocksOwned == Spec => OwnMemory
<1>1. Init => Blocks!Init
  BY InitRefines
<1>2. AllocatorInv /\ [Next]_vars => [Blocks!Next]_(Blocks!vars)
  BY StepRefines
<1>. QED BY <1>1, <1>2, AllocatorSound, PTL DEF Spec, OwnMemory, Blocks!Spec

=============================================================================

------------------------- MODULE PacketHandlerProofs -------------------------
(***************************************************************************)
(* The two parts of Core/PacketHandler.h.                                  *)
(*                                                                         *)
(* The dispatcher of PacketDispatch, for any ids that handlers are put     *)
(* under: since no two handlers claim one id, those under the ids that     *)
(* they claim never take each other's place.                               *)
(*                                                                         *)
(* The capture of PacketCapture, for any readers, clients, packets and     *)
(* counter widths, and whatever a packet adds to the statistics: callbacks *)
(* are told of one packet, statistics are of one instant, and counters     *)
(* that wrap stay in step.                                                 *)
(***************************************************************************)
EXTENDS PacketDispatch, PacketCaptureRefinement, FiniteSetTheorems, SequenceTheorems,
        WellFoundedInduction, TLAPS

-----------------------------------------------------------------------------
(* The dispatcher.                                                         *)

\* What every step preserves.  A wanted handler is under an id that there is.
IInv ==
    /\ handlers \in [Ids -> Handlers \cup {NoHandler}]
    /\ wanted \subseteq {h \in Handlers : GetPacketId(h) \in Ids}
    /\ NoneReplaced

-----------------------------------------------------------------------------

\* No two handlers claim one id.
LEMMA ClaimsDiffer ==
    \A h, g \in Handlers : GetPacketId(h) = GetPacketId(g) => h = g
BY DEF Handlers, Claims, PacketID, GetPacketId

\* A handler comes under its own id or another's: the wanted ones of other ids
\* stay, and none of its id but itself is wanted after.
LEMMA RegisterCorrect ==
    ASSUME IInv, NEW k \in Ids, NEW h \in Handlers, RegisterHandler(k, h)
    PROVE  IInv'
<1>1. CASE UNCHANGED dispatching
  BY <1>1 DEF IInv, NoneReplaced, DispatchPacket, dispatching
<1>2. CASE /\ handlers' = [handlers EXCEPT ![k] = h]
           /\ wanted' = IF GetPacketId(h) = k THEN wanted \cup {h} ELSE Without(k)
  <2>1. handlers' \in [Ids -> Handlers \cup {NoHandler}]
    BY <1>2 DEF IInv
  <2>2. wanted' \subseteq {g \in Handlers : GetPacketId(g) \in Ids}
    BY <1>2 DEF IInv, Without
  <2>3. ASSUME NEW g \in wanted'
        PROVE  handlers'[GetPacketId(g)] = g
    <3>1. CASE g = h /\ GetPacketId(h) = k
      BY <1>2, <3>1 DEF IInv
    <3>2. CASE ~(g = h /\ GetPacketId(h) = k)
      <4>1. g \in wanted /\ GetPacketId(g) # k
        BY <1>2, <2>2, <2>3, <3>2, ClaimsDiffer DEF Without, IInv
      <4>2. GetPacketId(g) \in Ids /\ handlers[GetPacketId(g)] = g
        BY <4>1 DEF IInv, NoneReplaced, DispatchPacket, GetPacketId
      <4> QED
        BY <1>2, <4>1, <4>2 DEF IInv
    <3> QED
      BY <3>1, <3>2
  <2> QED
    BY <2>1, <2>2, <2>3 DEF IInv, NoneReplaced, DispatchPacket, GetPacketId
<1> QED
  BY <1>1, <1>2 DEF RegisterHandler

\* A handler goes, and no handler of its id is wanted any more.
LEMMA UnregisterCorrect ==
    ASSUME IInv, NEW k \in Ids, UnregisterHandler(k)
    PROVE  IInv'
<1>1. handlers' \in [Ids -> Handlers \cup {NoHandler}]
  BY DEF IInv, UnregisterHandler
<1>2. wanted' \subseteq {g \in Handlers : GetPacketId(g) \in Ids}
  BY DEF IInv, UnregisterHandler, Without
<1>3. ASSUME NEW g \in wanted'
      PROVE  handlers'[GetPacketId(g)] = g
  <2>1. g \in wanted /\ GetPacketId(g) # k
    BY <1>3 DEF UnregisterHandler, Without
  <2>2. GetPacketId(g) \in Ids /\ handlers[GetPacketId(g)] = g
    BY <2>1 DEF IInv, NoneReplaced, DispatchPacket, GetPacketId
  <2> QED
    BY <2>1, <2>2 DEF IInv, UnregisterHandler
<1> QED
  BY <1>1, <1>2, <1>3 DEF IInv, NoneReplaced, DispatchPacket, GetPacketId

\* In whatever order handlers come and go, those under the ids that they claim
\* never take each other's place.
THEOREM PlaceIsKept == DispatchSpec => []NoneReplaced
<1>1. DispatchInit => IInv
  BY DEF DispatchInit, IInv, NoneReplaced
<1>2. IInv /\ [DispatchNext]_dispatching => IInv'
  <2> SUFFICES ASSUME IInv, [DispatchNext]_dispatching PROVE IInv'
    OBVIOUS
  <2>1. CASE UNCHANGED dispatching
    BY <2>1 DEF IInv, NoneReplaced, DispatchPacket, dispatching
  <2> QED
    BY <2>1, RegisterCorrect, UnregisterCorrect DEF DispatchNext
<1>3. IInv => NoneReplaced
  BY DEF IInv
<1> QED
  BY <1>1, <1>2, <1>3, PTL DEF DispatchSpec

-----------------------------------------------------------------------------
(* The capture.  First, sums over finite sets.                             *)

\* A set of naturals has a least one.
LEMMA LeastNatural ==
    ASSUME NEW A \in SUBSET Nat, A # {}
    PROVE  \E n \in A : \A m \in A : n <= m
<1> DEFINE R == OpToRel(<, Nat)
<1>1. IsWellFoundedOn(R, Nat)
  BY NatLessThanWellFounded
<1>2. PICK n \in A : \A m \in A : <<m, n>> \notin R
  BY <1>1, WFMin
<1>3. \A m \in A : ~(m < n)
  BY <1>2 DEF OpToRel
<1>4. \A m \in A : m \in Nat /\ n \in Nat
  OBVIOUS
<1> HIDE DEF R
<1> QED
  BY <1>3, <1>4

\* Among sets of elements of a finite set there is one all of whose proper
\* subsets are not among them.
LEMMA SmallestSet ==
    ASSUME NEW S, IsFiniteSet(S), NEW C \in SUBSET SUBSET S, C # {}
    PROVE  \E T \in C : \A U \in SUBSET T : U # T => U \notin C
<1> DEFINE A == {Cardinality(T) : T \in C}
<1>1. \A T \in SUBSET S : IsFiniteSet(T) /\ Cardinality(T) \in Nat
  BY FS_Subset, FS_CardinalityType
<1>2. A \in SUBSET Nat /\ A # {}
  BY <1>1
<1>3. PICK n \in A : \A m \in A : n <= m
  <2> HIDE DEF A
  <2> QED
    BY <1>2, LeastNatural
<1>4. PICK T \in C : n = Cardinality(T)
  BY <1>3
<1>5. ASSUME NEW U \in SUBSET T, U # T, U \in C
      PROVE  FALSE
  <2>1. Cardinality(U) < Cardinality(T)
    BY <1>1, <1>5, FS_Subset
  <2>2. Cardinality(T) <= Cardinality(U)
    BY <1>3, <1>4, <1>5
  <2> QED
    BY <2>1, <2>2, <1>1, <1>5
<1> QED
  BY <1>4, <1>5

\* g gives every subset of S the sum of f over it, as MapThenSumSet forms it.
IsSum(g, f, S) ==
    g = [s \in SUBSET S |->
           IF s = {} THEN 0
           ELSE f[CHOOSE x \in s : TRUE] + g[s \ {CHOOSE x \in s : TRUE}]]

\* An element that the sum takes first.
First(s) == CHOOSE x \in s : TRUE

\* It is one of them.
LEMMA FirstIn == \A s : s # {} => First(s) \in s
BY DEF First

\* Such a function, element by element.
LEMMA SumSteps ==
    ASSUME NEW g, NEW f, NEW S, IsSum(g, f, S)
    PROVE  /\ DOMAIN g = SUBSET S
           /\ g[{}] = 0
           /\ \A s \in SUBSET S : s # {} => g[s] = f[First(s)] + g[s \ {First(s)}]
BY DEF IsSum, First

\* f and e give the elements of R the same numbers.
SameOn(R, f, e) == \A i \in R : f[i] \in Nat /\ e[i] = f[i]

\* Sums of the same over the same are the same.
LEMMA SumsAgree ==
    ASSUME NEW S, IsFiniteSet(S), NEW T,
           NEW f, NEW e, NEW g, NEW h, IsSum(g, f, S), IsSum(h, e, T),
           NEW R \in SUBSET S, R \subseteq T, SameOn(R, f, e)
    PROVE  g[R] = h[R] /\ g[R] \in Nat
<1>a. /\ DOMAIN g = SUBSET S
      /\ g[{}] = 0
      /\ \A s \in SUBSET S : s # {} => g[s] = f[First(s)] + g[s \ {First(s)}]
  BY DEF IsSum, First
<1>b. /\ DOMAIN h = SUBSET T
      /\ h[{}] = 0
      /\ \A s \in SUBSET T : s # {} => h[s] = e[First(s)] + h[s \ {First(s)}]
  BY DEF IsSum, First
<1> DEFINE C == {r \in SUBSET R : ~(g[r] = h[r] /\ g[r] \in Nat)}
<1> SUFFICES ASSUME C # {} PROVE FALSE
  OBVIOUS
<1>1. IsFiniteSet(R)
  BY FS_Subset
<1>2. PICK r \in C : \A u \in SUBSET r : u # r => u \notin C
  <2>1. C \in SUBSET SUBSET R
    OBVIOUS
  <2> HIDE DEF C
  <2> QED
    BY <2>1, <1>1, SmallestSet
<1>3. r # {}
  <2>1. g[{}] = 0 /\ h[{}] = 0 /\ 0 \in Nat
    BY <1>a, <1>b
  <2>2. {} \notin C
    BY <2>1
  <2> QED
    BY <2>2
<1> DEFINE q == r \ {First(r)}
<1>4. First(r) \in r /\ q \in SUBSET r /\ q # r
  BY <1>3, FirstIn
<1>5. q \notin C
  BY <1>2, <1>4
<1>6. g[q] = h[q] /\ g[q] \in Nat
  BY <1>4, <1>5
<1>7. g[r] = f[First(r)] + g[q] /\ h[r] = e[First(r)] + h[q]
  <2>1. r \in SUBSET S /\ r \in SUBSET T
    BY <1>2
  <2> QED
    BY <2>1, <1>3, <1>a, <1>b
<1>8. g[r] = h[r] /\ g[r] \in Nat
  <2> HIDE DEF q, C
  <2>1. f[First(r)] \in Nat /\ e[First(r)] = f[First(r)]
    BY <1>4, <1>2 DEF C, SameOn
  <2> QED
    BY <2>1, <1>6, <1>7
<1> QED
  BY <1>2, <1>8

\* The sum of f over S.
Sum(f, S) == (CHOOSE g : IsSum(g, f, S))[S]

\* Every subset of a finite set has such a function.
LEMMA SumExists ==
    ASSUME NEW S, IsFiniteSet(S), NEW f, \A i \in S : f[i] \in Nat
    PROVE  \A R \in SUBSET S : IsSum(CHOOSE g : IsSum(g, f, R), f, R)
<1> DEFINE Good(r) == IsSum(CHOOSE g : IsSum(g, f, r), f, r)
           C == {r \in SUBSET S : ~ Good(r)}
<1> SUFFICES ASSUME C # {} PROVE FALSE
  OBVIOUS
<1>1. PICK R \in C : \A U \in SUBSET R : U # R => U \notin C
  <2>1. C \in SUBSET SUBSET S
    OBVIOUS
  <2> HIDE DEF C
  <2> QED
    BY <2>1, SmallestSet
<1>2. \A U \in SUBSET R : U # R => Good(U)
  <2> HIDE DEF Good
  <2> QED
    BY <1>1
<1>3. ASSUME NEW U \in SUBSET R, U # R, NEW V \in SUBSET U
      PROVE  (CHOOSE g : IsSum(g, f, U))[V] = Sum(f, V)
  <2> DEFINE gu == CHOOSE g : IsSum(g, f, U)
             gv == CHOOSE g : IsSum(g, f, V)
  <2>1. IsSum(gu, f, U) /\ IsSum(gv, f, V)
    <3>1. V \in SUBSET R /\ V # R
      BY <1>3
    <3>2. Good(U) /\ Good(V)
      <4> HIDE DEF Good
      <4> QED BY <3>1, <1>2, <1>3
    <3> QED
      BY <3>2
  <2>2. IsFiniteSet(U) /\ \A i \in V : f[i] \in Nat
    BY <1>1, <1>3, FS_Subset
  <2>3. gu[V] = gv[V]
    <3> HIDE DEF gu, gv
    <3> QED
      BY <2>1, <2>2, <1>3, SumsAgree DEF SameOn
  <2> QED
    BY <2>3 DEF Sum
<1> DEFINE g == [s \in SUBSET R |->
                   IF s = {} THEN 0 ELSE f[First(s)] + Sum(f, s \ {First(s)})]
<1>4. ASSUME NEW s \in SUBSET R, s # {}
      PROVE  g[s \ {First(s)}] = Sum(f, s \ {First(s)})
  <2> DEFINE q == s \ {First(s)}
  <2>1. q \in SUBSET R /\ q # R
    BY <1>4, FirstIn
  <2>2. IsSum(CHOOSE h : IsSum(h, f, q), f, q)
    BY <2>1, <1>2
  <2>3. CASE q = {}
    <3>1. Sum(f, q) = 0
      <4> DEFINE h == CHOOSE h : IsSum(h, f, q)
      <4>1. IsSum(h, f, q)
        BY <2>2
      <4>2. h[{}] = 0
        <5> HIDE DEF h
        <5> QED BY <4>1, SumSteps
      <4> QED
        BY <4>2, <2>3 DEF Sum
    <3> QED
      BY <3>1, <2>3
  <2>4. CASE q # {}
    <3> DEFINE h == CHOOSE h : IsSum(h, f, q)
    <3>1. IsSum(h, f, q)
      BY <2>2
    <3>2. h[q] = f[First(q)] + h[q \ {First(q)}]
      <4> HIDE DEF h, q
        <4>1. \A r \in SUBSET q : r # {} => h[r] = f[First(r)] + h[r \ {First(r)}]
        BY <3>1, SumSteps
      <4> QED BY <4>1, <2>4
    <3>3. h[q \ {First(q)}] = Sum(f, q \ {First(q)})
      BY <2>1, <1>3
    <3>4. g[q] = f[First(q)] + Sum(f, q \ {First(q)})
      BY <2>1, <2>4
    <3> QED
      BY <3>2, <3>3, <3>4 DEF Sum
  <2> QED
    BY <2>3, <2>4
<1>5. IsSum(g, f, R)
  <2> DEFINE g2 == [s \in SUBSET R |->
                   IF s = {} THEN 0 ELSE f[First(s)] + g[s \ {First(s)}]]
  <2>1. \A s \in SUBSET R : g2[s] = g[s]
    <3> SUFFICES ASSUME NEW s \in SUBSET R PROVE g2[s] = g[s]
      OBVIOUS
    <3>1. CASE s = {}
      BY <3>1
    <3>2. CASE s # {}
      <4>1. g[s] = f[First(s)] + Sum(f, s \ {First(s)})
        BY <3>2
      <4>2. g2[s] = f[First(s)] + g[s \ {First(s)}]
        <5> HIDE DEF g
        <5> QED BY <3>2
      <4> QED
        BY <4>1, <4>2, <1>4, <3>2
    <3> QED
      BY <3>1, <3>2
  <2>2. g2 = g
    <3>1. DOMAIN g2 = DOMAIN g
      OBVIOUS
    <3> QED BY <2>1
  <2> QED
    <3> HIDE DEF g
    <3> QED BY <2>2 DEF IsSum, First
<1>6. Good(R)
  <2> HIDE DEF g
  <2> QED BY <1>5
<1> QED
  <2> HIDE DEF Good
  <2> QED BY <1>1, <1>6

\* The sum is the value of such a function.
LEMMA SumIs ==
    ASSUME NEW S, IsFiniteSet(S), NEW f, \A i \in S : f[i] \in Nat
    PROVE  \E g : IsSum(g, f, S) /\ Sum(f, S) = g[S]
BY SumExists DEF Sum

\* The sum of naturals is a natural.
LEMMA SumType ==
    ASSUME NEW S, IsFiniteSet(S), NEW f, \A i \in S : f[i] \in Nat
    PROVE  Sum(f, S) \in Nat
<1>1. PICK g : IsSum(g, f, S) /\ Sum(f, S) = g[S]
  BY SumIs
<1>2. SameOn(S, f, f)
  BY DEF SameOn
<1> QED
  BY <1>1, <1>2, SumsAgree

\* The sum over no element is 0.
LEMMA SumEmpty ==
    ASSUME NEW f
    PROVE  Sum(f, {}) = 0
<1>1. IsFiniteSet({}) /\ \A i \in {} : f[i] \in Nat
  BY FS_EmptySet
<1>2. PICK g : IsSum(g, f, {}) /\ Sum(f, {}) = g[{}]
  BY <1>1, SumIs
<1> QED
  BY <1>2 DEF IsSum

\* A sum depends on nothing but the numbers that the elements have.
LEMMA SumSame ==
    ASSUME NEW S, IsFiniteSet(S), NEW f, NEW e, SameOn(S, f, e)
    PROVE  Sum(f, S) = Sum(e, S)
<1>1. (\A i \in S : f[i] \in Nat) /\ (\A i \in S : e[i] \in Nat)
  BY DEF SameOn
<1>2. PICK g : IsSum(g, f, S) /\ Sum(f, S) = g[S]
  BY <1>1, SumIs
<1>3. PICK h : IsSum(h, e, S) /\ Sum(e, S) = h[S]
  BY <1>1, SumIs
<1>4. g[S] = h[S]
  BY <1>2, <1>3, SumsAgree
<1> QED
  BY <1>2, <1>3, <1>4

\* The first element of a sum taken out.
LEMMA SumFirst ==
    ASSUME NEW S, IsFiniteSet(S), S # {}, NEW f, \A i \in S : f[i] \in Nat
    PROVE  Sum(f, S) = f[First(S)] + Sum(f, S \ {First(S)})
<1> DEFINE q == S \ {First(S)}
<1>1. q \in SUBSET S /\ IsFiniteSet(q) /\ \A i \in q : f[i] \in Nat
  BY FS_Subset
<1>2. PICK g : IsSum(g, f, S) /\ Sum(f, S) = g[S]
  BY SumIs
<1>3. PICK h : IsSum(h, f, q) /\ Sum(f, q) = h[q]
  BY <1>1, SumIs
<1>4. SameOn(q, f, f)
  BY <1>1 DEF SameOn
<1>5. g[q] = h[q]
  <2> HIDE DEF q
  <2> QED
    BY <1>1, <1>2, <1>3, <1>4, SumsAgree
<1>6. g[S] = f[First(S)] + g[q]
  BY <1>2 DEF IsSum, First
<1> QED
  BY <1>2, <1>3, <1>5, <1>6

\* Any element of a sum taken out.
LEMMA SumWithout ==
    ASSUME NEW S, IsFiniteSet(S), NEW f, \A i \in S : f[i] \in Nat, NEW k \in S
    PROVE  Sum(f, S) = f[k] + Sum(f, S \ {k})
<1> DEFINE Right(r, j) == Sum(f, r) = f[j] + Sum(f, r \ {j})
           C == {r \in SUBSET S : \E j \in r : ~ Right(r, j)}
<1> SUFFICES ASSUME C # {} PROVE FALSE
  <2>1. C = {} => \A j \in S : Right(S, j)
    <3> HIDE DEF Right
    <3> QED OBVIOUS
  <2> QED
    BY <2>1
<1>1. PICK r \in C : \A u \in SUBSET r : u # r => u \notin C
  <2>1. C \in SUBSET SUBSET S
    OBVIOUS
  <2> HIDE DEF C
  <2> QED
    BY <2>1, SmallestSet
<1>2. PICK j \in r : ~ Right(r, j)
  <2> HIDE DEF Right
  <2> QED
    BY <1>1
<1>3. r \in SUBSET S /\ r # {} /\ IsFiniteSet(r) /\ \A i \in r : f[i] \in Nat
  <2>1. r \in SUBSET S
    <3> HIDE DEF Right
    <3> QED BY <1>1
  <2> QED
    BY <1>2, <2>1, FS_Subset
<1> DEFINE x == First(r)
<1>4. x \in r
  BY <1>3, FirstIn
<1>5. ASSUME NEW i \in r
      PROVE  \A l \in r \ {i} : Right(r \ {i}, l)
  <2>1. r \ {i} \in SUBSET r /\ r \ {i} # r
    OBVIOUS
  <2>2. r \ {i} \notin C
    BY <1>1, <2>1
  <2>3. r \ {i} \in SUBSET S
    BY <1>3
  <2> HIDE DEF Right
  <2> QED
    BY <2>2, <2>3
<1>6. Right(r, x)
  BY <1>3, SumFirst
<1>7. x # j
  BY <1>6, <1>2
<1>8. Right(r \ {x}, j) /\ Right(r \ {j}, x)
  <2>1. j \in r \ {x} /\ x \in r \ {j}
    BY <1>2, <1>4, <1>7
  <2> HIDE DEF x, Right
  <2> QED
    BY <2>1, <1>2, <1>4, <1>5
<1>9. (r \ {x}) \ {j} = (r \ {j}) \ {x}
  OBVIOUS
<1> DEFINE both == Sum(f, (r \ {x}) \ {j})
<1>10. both \in Nat /\ f[x] \in Nat /\ f[j] \in Nat
  <2>1. IsFiniteSet((r \ {x}) \ {j}) /\ \A i \in (r \ {x}) \ {j} : f[i] \in Nat
    BY <1>3, FS_Subset
  <2>2. both \in Nat
    BY <2>1, SumType
  <2> QED
    BY <2>2, <1>2, <1>3, <1>4
<1>11. /\ Sum(f, r) = f[x] + Sum(f, r \ {x})
       /\ Sum(f, r \ {x}) = f[j] + both
       /\ Sum(f, r \ {j}) = f[x] + both
  BY <1>6, <1>8, <1>9
<1>12. Sum(f, r) = f[j] + Sum(f, r \ {j})
  <2> HIDE DEF x, both
  <2> QED
    BY <1>10, <1>11
<1> QED
  BY <1>2, <1>12

\* One more element.
LEMMA SumWith ==
    ASSUME NEW S, IsFiniteSet(S), NEW k, k \notin S,
           NEW f, \A i \in S \cup {k} : f[i] \in Nat
    PROVE  Sum(f, S \cup {k}) = Sum(f, S) + f[k] /\ Sum(f, S) \in Nat
<1>1. IsFiniteSet(S \cup {k}) /\ k \in S \cup {k} /\ (S \cup {k}) \ {k} = S
  BY FS_AddElement
<1>2. Sum(f, S \cup {k}) = f[k] + Sum(f, (S \cup {k}) \ {k})
  BY <1>1, SumWithout
<1>3. Sum(f, S) \in Nat /\ f[k] \in Nat
  BY SumType
<1> QED
  BY <1>1, <1>2, <1>3

\* Any such sum gives the sum.
LEMMA SumOfAny ==
    ASSUME NEW S, IsFiniteSet(S), NEW f, \A i \in S : f[i] \in Nat,
           NEW h, IsSum(h, f, S)
    PROVE  h[S] = Sum(f, S)
<1>1. PICK g : IsSum(g, f, S) /\ Sum(f, S) = g[S]
  BY SumIs
<1>2. SameOn(S, f, f)
  BY DEF SameOn
<1>3. h[S] = g[S]
  BY <1>1, <1>2, SumsAgree
<1> QED
  BY <1>1, <1>3

\* The sums that the model writes are these.
LEMMA AddedSum ==
    ASSUME NEW S, IsFiniteSet(S), NEW l, NEW F, \A i \in S : Adds(l[i], F) \in Nat
    PROVE  MapThenSumSet(LAMBDA i : Adds(l[i], F), S)
             = Sum([i \in S |-> Adds(l[i], F)], S)
<1> DEFINE f == [i \in S |-> Adds(l[i], F)]
           P(g) == g = [s \in SUBSET S |->
                          IF s = {} THEN 0
                          ELSE Adds(l[CHOOSE x \in s : TRUE], F)
                                 + g[s \ {CHOOSE x \in s : TRUE}]]
           h == CHOOSE g : P(g)
<1>1. ASSUME NEW g
      PROVE  P(g) <=> IsSum(g, f, S)
  <2> DEFINE A == [s \in SUBSET S |->
                     IF s = {} THEN 0
                     ELSE Adds(l[CHOOSE x \in s : TRUE], F)
                            + g[s \ {CHOOSE x \in s : TRUE}]]
             B == [s \in SUBSET S |->
                     IF s = {} THEN 0
                     ELSE f[CHOOSE x \in s : TRUE] + g[s \ {CHOOSE x \in s : TRUE}]]
  <2>1. \A s \in SUBSET S : s # {} =>
           f[CHOOSE x \in s : TRUE] = Adds(l[CHOOSE x \in s : TRUE], F)
    OBVIOUS
  <2>2. \A s \in SUBSET S : A[s] = B[s]
    BY <2>1
  <2>3. A = B
    BY <2>2
  <2> QED
    BY <2>3 DEF IsSum
<1>2. (\E g : P(g)) => IsSum(h, f, S)
  <2>1. (\E g : P(g)) => P(h)
    <3> HIDE DEF P
    <3> QED
      OBVIOUS
  <2> HIDE DEF P, h, f
  <2> QED
    BY <1>1, <2>1
<1>3. h[S] = Sum(f, S)
  <2>1. \A i \in S : f[i] \in Nat
    OBVIOUS
  <2> HIDE DEF P, h, f
  <2> QED
    BY <1>1, <1>2, <2>1, SumIs, SumOfAny
<1> QED
  BY <1>3 DEF MapThenSumSet, MapThenFoldSet

\* So are the sums of the packets' sizes ...
LEMMA SizeSum ==
    ASSUME NEW S, IsFiniteSet(S), NEW l, \A i \in S : l[i].size \in Nat
    PROVE  MapThenSumSet(LAMBDA i : l[i].size, S)
             = Sum([i \in S |-> l[i].size], S)
<1> DEFINE f == [i \in S |-> l[i].size]
           P(g) == g = [s \in SUBSET S |->
                          IF s = {} THEN 0
                          ELSE l[CHOOSE x \in s : TRUE].size
                                 + g[s \ {CHOOSE x \in s : TRUE}]]
           h == CHOOSE g : P(g)
<1>1. ASSUME NEW g
      PROVE  P(g) <=> IsSum(g, f, S)
  <2> DEFINE A == [s \in SUBSET S |->
                     IF s = {} THEN 0
                     ELSE l[CHOOSE x \in s : TRUE].size
                            + g[s \ {CHOOSE x \in s : TRUE}]]
             B == [s \in SUBSET S |->
                     IF s = {} THEN 0
                     ELSE f[CHOOSE x \in s : TRUE] + g[s \ {CHOOSE x \in s : TRUE}]]
  <2>1. \A s \in SUBSET S : s # {} =>
           f[CHOOSE x \in s : TRUE] = l[CHOOSE x \in s : TRUE].size
    OBVIOUS
  <2>2. \A s \in SUBSET S : A[s] = B[s]
    BY <2>1
  <2>3. A = B
    BY <2>2
  <2> QED
    BY <2>3 DEF IsSum
<1>2. (\E g : P(g)) => IsSum(h, f, S)
  <2>1. (\E g : P(g)) => P(h)
    <3> HIDE DEF P
    <3> QED
      OBVIOUS
  <2> HIDE DEF P, h, f
  <2> QED
    BY <1>1, <2>1
<1>3. h[S] = Sum(f, S)
  <2>1. \A i \in S : f[i] \in Nat
    OBVIOUS
  <2> HIDE DEF P, h, f
  <2> QED
    BY <1>1, <1>2, <2>1, SumIs, SumOfAny
<1> QED
  BY <1>3 DEF MapThenSumSet, MapThenFoldSet

\* ... and the sum of the values of a function, of some ...
LEMMA SumOnSet ==
    ASSUME NEW S, IsFiniteSet(S), NEW fun, \A i \in S : fun[i] \in Nat
    PROVE  SumFunctionOnSet(fun, S) = Sum(fun, S)
<1> DEFINE P(g) == g = [s \in SUBSET S |->
                          IF s = {} THEN 0
                          ELSE fun[CHOOSE x \in s : TRUE]
                                 + g[s \ {CHOOSE x \in s : TRUE}]]
           h == CHOOSE g : P(g)
<1>1. ASSUME NEW g
      PROVE  P(g) <=> IsSum(g, fun, S)
  BY DEF IsSum
<1>2. (\E g : P(g)) => IsSum(h, fun, S)
  <2>1. (\E g : P(g)) => P(h)
    <3> HIDE DEF P
    <3> QED
      OBVIOUS
  <2> HIDE DEF P, h
  <2> QED
    BY <1>1, <2>1
<1>3. h[S] = Sum(fun, S)
  <2> HIDE DEF P, h
  <2> QED
    BY <1>1, <1>2, SumIs, SumOfAny
<1> QED
  BY <1>3 DEF SumFunctionOnSet, FoldFunctionOnSet, MapThenFoldSet

\* ... or of all.
LEMMA FunctionSum ==
    ASSUME NEW S, IsFiniteSet(S), NEW fun \in [S -> Nat]
    PROVE  FoldFunction(+, 0, fun) = Sum(fun, S)
<1>1. FoldFunction(+, 0, fun) = SumFunctionOnSet(fun, S)
  BY DEF FoldFunction, SumFunctionOnSet
<1> QED
  BY <1>1, SumOnSet

-----------------------------------------------------------------------------
(* The inductive invariant.                                                *)

\* A job on the statistics, before, between and after its fields.
Jobs ==
    [does : {"count", "get", "reset"}, next : 1..6, report : [Fields -> Nat]]

\* What AnalyzePacket makes of the i-th packet.
InfoOf(i) ==
    [of |-> i, client |-> log[i].client, size |-> log[i].size,
     flags |-> FlagsIn(FlagByte(log[i].flags)),
     misplaced |-> Misplaced(log[i].protocol)]

Types ==
    /\ at \in {"wait", "analyze", "count", "callback"}
    /\ log \in Seq(Packets)
    /\ connections \in [Clients -> Nat] /\ totals \in Nat
    /\ statistics_ \in [Fields -> Nat]
    /\ stats_mutex_ \in Threads \cup {Nobody}
    /\ job \in [Threads -> Jobs \cup {Idle}]
    /\ since \in SUBSET (1..Len(log))

\* The thread that holds the mutex is the one with a job; the capture thread's
\* is to count the packet that it is at.
MutexHeld ==
    /\ \A t \in Threads : job[t] # Idle <=> stats_mutex_ = t
    /\ \A r \in Readers : job[r] # Idle => job[r].does \in {"get", "reset"}
    /\ job[Capturer] # Idle => job[Capturer].does = "count" /\ at = "count"

\* The packet worked on is the last captured, and what is told of it is its own.
WorksOnLast ==
    /\ at # "wait" => Len(log) > 0
    /\ at \in {"count", "callback"} => info = InfoOf(Len(log))
    /\ at = "callback" => Frame.result = "SUCCESS"

\* The packet worked on is not among those counted before its job begins.
NotYetCounted ==
    Len(log) \in since => at \in {"wait", "callback"} \/ job[Capturer] # Idle

Basics == Types /\ MutexHeld /\ WorksOnLast /\ NotYetCounted

-----------------------------------------------------------------------------
(* Types and places.                                                       *)

\* The fields of the statistics, and their order.
LEMMA FieldsAre ==
    /\ Fields = {"total_packets_captured", "tcp_packets", "udp_packets",
                 "other_packets", "bytes_captured"}
    /\ Len(CaptureStatistics) = 5
    /\ \A k \in 1..5 : CaptureStatistics[k] \in Fields
BY DEF Fields, ToSet, CaptureStatistics

\* The parts of a packet.
LEMMA PacketsAre ==
    ASSUME CaptureAssumption, NEW p \in Packets
    PROVE  /\ p.size \in Nat /\ p.client \in Clients
           /\ p.protocol \in {TCP, UDP} /\ p.result \in PacketAnalysisResult
BY DEF CaptureAssumption

\* Every field gets a natural from every packet.
LEMMA AddsType ==
    ASSUME CaptureAssumption, NEW p \in Packets, NEW field \in Fields
    PROVE  Adds(p, field) \in Nat
BY DEF CaptureAssumption, Fields

\* A job is told from none by what it does.
LEMMA IdleJob ==
    \A j \in Jobs \cup {Idle} :
        /\ j = Idle <=> j.does = "nothing"
        /\ j # Idle => j \in Jobs
BY DEF Jobs, Idle

\* A job that comes to its next field is a job.
LEMMA NextField ==
    ASSUME NEW j \in Jobs, j.next \in 1..5, NEW report \in [Fields -> Nat]
    PROVE  [j EXCEPT !.next = @ + 1, !.report = report] \in Jobs
<1> DEFINE k == [j EXCEPT !.next = @ + 1]
<1>1. k \in Jobs
  BY DEF Jobs
<1>2. [k EXCEPT !.report = report] \in Jobs
  <2> HIDE DEF k
  <2> QED
    BY <1>1 DEF Jobs
<1>3. [j EXCEPT !.next = @ + 1, !.report = report] = [k EXCEPT !.report = report]
  BY DEF Jobs
<1> QED
  BY <1>2, <1>3

\* What a thread that begins with the statistics changes.
LEMMA BeginTypes ==
    ASSUME Types, NEW t \in Threads, NEW what \in {"count", "get", "reset"},
           Begin(t, what)
    PROVE  /\ stats_mutex_' \in Threads \cup {Nobody}
           /\ job' \in [Threads -> Jobs \cup {Idle}]
<1>1. Zero \in [Fields -> Nat]
  BY DEF Zero, Fields
<1>2. [does |-> what, next |-> 1, report |-> Zero] \in Jobs
  BY <1>1 DEF Jobs
<1> QED
  BY <1>2 DEF Types, Begin

\* A thread that does a field has a job, which is at a field.
LEMMA AdvanceTypes ==
    ASSUME Types, NEW t \in Threads, NEW what \in {"count", "get", "reset"},
           Advance(t, what)
    PROVE  /\ job[t] \in Jobs /\ job[t] # Idle
           /\ job[t].next \in 1..5
           /\ Field(t) \in Fields
<1>1. job[t] \in Jobs /\ job[t] # Idle
  BY IdleJob DEF Types, Advance
<1>2. job[t].next \in 1..5
  BY <1>1, FieldsAre DEF Advance, Done, Jobs
<1> QED
  BY <1>1, <1>2, FieldsAre DEF Field

\* A counter and a total of any number are naturals below their limit.
LEMMA WrappedType ==
    ASSUME CaptureAssumption, NEW n \in Nat
    PROVE  Counter(n) \in Nat /\ Total(n) \in Nat
<1>1. \A a \in Nat, d \in Nat \ {0} : a % d \in Nat
  OBVIOUS
<1>2. \A a, b \in Nat \ {0} : a * b \in Nat \ {0}
  OBVIOUS
<1>3. 2 ^ CounterBits \in Nat \ {0} /\ 2 ^ (2 * CounterBits) \in Nat \ {0}
  BY <1>2 DEF CaptureAssumption
<1> QED
  BY <1>1, <1>3 DEF Counter, Total

\* Every step keeps the types.
LEMMA TypesCorrect ==
    ASSUME CaptureAssumption, Basics, [Next]_vars
    PROVE  Types'
<1> USE DEF Basics
<1>1. ASSUME NEW p \in Packets, Capture(p)
      PROVE  Types'
  <2>1. log' \in Seq(Packets) /\ Len(log') = Len(log) + 1
    BY <1>1 DEF Capture, Types
  <2>2. since \in SUBSET (1..Len(log'))
    BY <2>1 DEF Types
  <2> QED
    BY <1>1, <2>1, <2>2 DEF Types, Capture, Goes, traffic, counting
<1>2. CASE AnalyzePacket
  BY <1>2 DEF Types, AnalyzePacket, Goes, traffic, counting
<1>3. CASE ProcessPacket
  <2>1. Capturer \in Threads
    BY DEF Threads
  <2>2. Len(log) \in 1..Len(log)
    BY <1>3 DEF ProcessPacket, WorksOnLast, Types
  <2>3. /\ stats_mutex_' \in Threads \cup {Nobody}
        /\ job' \in [Threads -> Jobs \cup {Idle}]
    BY <1>3, <2>1, BeginTypes DEF ProcessPacket
  <2> QED
    BY <1>3, <2>2, <2>3
    DEF Types, ProcessPacket, elsewhere, traffic
<1>4. ASSUME NEW r \in Readers, GetStatistics(r) \/ ResetStatistics(r)
      PROVE  Types'
  <2>1. r \in Threads
    BY DEF Threads
  <2>2. /\ stats_mutex_' \in Threads \cup {Nobody}
        /\ job' \in [Threads -> Jobs \cup {Idle}]
    BY <1>4, <2>1, BeginTypes DEF GetStatistics, ResetStatistics
  <2> QED
    BY <1>4, <2>2
    DEF Types, GetStatistics, ResetStatistics, elsewhere, traffic
<1>5. CASE Count
  <2>1. Capturer \in Threads /\ Advance(Capturer, "count")
    BY <1>5 DEF Threads, Count
  <2>2. /\ job[Capturer] \in Jobs /\ job[Capturer].next \in 1..5
        /\ Field(Capturer) \in Fields
    BY <2>1, AdvanceTypes
  <2>3. Frame \in Packets
    <3>1. job[Capturer] # Idle
      BY <2>1, AdvanceTypes
    <3>2. Len(log) > 0
      BY <3>1 DEF Basics, MutexHeld, WorksOnLast
    <3> QED
      BY <3>2 DEF Frame, Types
  <2>4. Adds(Frame, Field(Capturer)) \in Nat
    BY <2>2, <2>3, AddsType
  <2>5. statistics_' \in [Fields -> Nat]
    BY <1>5, <2>2, <2>4 DEF Count, Types
  <2>6. [job[Capturer] EXCEPT !.next = @ + 1] \in Jobs
    BY <2>2 DEF Jobs
  <2>7. job' \in [Threads -> Jobs \cup {Idle}]
    BY <1>5, <2>1, <2>6 DEF Count, Types
  <2> QED
    BY <2>1, <2>5, <2>7 DEF Types, Advance, elsewhere, traffic
<1>6. ASSUME NEW r \in Readers, Get(r)
      PROVE  Types'
  <2>1. r \in Threads /\ Advance(r, "get")
    BY <1>6 DEF Threads, Get
  <2>2. /\ job[r] \in Jobs /\ job[r].next \in 1..5
        /\ Field(r) \in Fields
    BY <2>1, AdvanceTypes
  <2>3. statistics_[Field(r)] \in Nat
    BY <2>2 DEF Types
  <2>4. [job[r] EXCEPT !.next = @ + 1, !.report[Field(r)] = statistics_[Field(r)]]
          \in Jobs
    <3> DEFINE report == [job[r].report EXCEPT ![Field(r)] = statistics_[Field(r)]]
    <3>1. report \in [Fields -> Nat]
      BY <2>2, <2>3 DEF Jobs
    <3>2. [job[r] EXCEPT !.next = @ + 1, !.report = report] \in Jobs
      <4> HIDE DEF report
      <4> QED
        BY <2>2, <3>1, NextField
    <3> QED
      BY <2>2, <3>2 DEF Jobs
  <2>5. job' = [job EXCEPT ![r] = [job[r] EXCEPT
                  !.next = @ + 1, !.report[Field(r)] = statistics_[Field(r)]]]
    BY <1>6, <2>1, <2>2 DEF Get, Types, Jobs
  <2>6. job' \in [Threads -> Jobs \cup {Idle}]
    BY <2>1, <2>4, <2>5 DEF Types
  <2> QED
    BY <1>6, <2>1, <2>6 DEF Types, Get, Advance, elsewhere, traffic
<1>7. ASSUME NEW r \in Readers, Reset(r)
      PROVE  Types'
  <2>1. r \in Threads /\ Advance(r, "reset")
    BY <1>7 DEF Threads, Reset
  <2>2. job[r] \in Jobs /\ job[r].next \in 1..5
    BY <2>1, AdvanceTypes
  <2>3. [job[r] EXCEPT !.next = @ + 1] \in Jobs
    BY <2>2 DEF Jobs
  <2>4. job' \in [Threads -> Jobs \cup {Idle}]
    BY <1>7, <2>1, <2>3 DEF Reset, Types
  <2> QED
    BY <1>7, <2>1, <2>4 DEF Types, Reset, Advance, elsewhere, traffic
<1>8. ASSUME NEW t \in Threads, End(t)
      PROVE  Types'
  BY <1>8 DEF Types, End, elsewhere, traffic
<1>9. CASE Callback
  <2>1. info.client \in Clients /\ info.size \in Nat
    <3>1. Len(log) > 0 /\ info = InfoOf(Len(log))
      BY <1>9 DEF Basics, WorksOnLast, Callback, Goes
    <3>2. log[Len(log)] \in Packets
      BY <3>1 DEF Types
    <3> QED
      BY <3>1, <3>2, PacketsAre DEF InfoOf
  <2>2. /\ Counter(connections[info.client] + info.size) \in Nat
        /\ Total(totals + info.size) \in Nat
    <3>1. connections[info.client] + info.size \in Nat /\ totals + info.size \in Nat
      BY <2>1 DEF Types
    <3> QED
      BY <3>1, WrappedType
  <2> QED
    BY <1>9, <2>1, <2>2 DEF Types, Callback, Goes, counting
<1>10. CASE UNCHANGED vars
  BY <1>10 DEF Types, vars, traffic, counting
<1> QED
  BY <1>1, <1>2, <1>3, <1>4, <1>5, <1>6, <1>7, <1>8, <1>9, <1>10 DEF Next

-----------------------------------------------------------------------------
(* Who holds the mutex, and where the capture thread is.                   *)

\* The capture thread is a thread of its own, and nobody is none.
LEMMA NobodyIsNoThread ==
    ASSUME CaptureAssumption
    PROVE  Nobody \notin Threads /\ Capturer \in Threads /\ Capturer \notin Readers
BY DEF CaptureAssumption, Threads

\* A thread that begins finds all others idle.
LEMMA Began ==
    ASSUME CaptureAssumption, Basics, NEW t \in Threads,
           NEW what \in {"count", "get", "reset"}, Begin(t, what)
    PROVE  /\ stats_mutex_ = Nobody /\ stats_mutex_' = t
           /\ \A u \in Threads : job[u] = Idle
           /\ \A u \in Threads \ {t} : job'[u] = job[u]
           /\ job'[t] # Idle /\ job'[t].does = what /\ job'[t].next = 1
<1>1. stats_mutex_ = Nobody /\ \A u \in Threads : job[u] = Idle
  BY NobodyIsNoThread DEF Basics, MutexHeld, Begin
<1>2. job'[t] = [does |-> what, next |-> 1, report |-> Zero]
  BY DEF Begin, Basics, Types
<1>3. job'[t].does = what /\ job'[t].next = 1
  BY <1>2
<1>4. job'[t] # Idle
  BY <1>3 DEF Idle
<1> QED
  BY <1>1, <1>3, <1>4 DEF Begin, Basics, Types

\* A thread that is at a field holds the mutex; all others are idle.
LEMMA Alone ==
    ASSUME CaptureAssumption, Basics, NEW t \in Threads, job[t] # Idle
    PROVE  stats_mutex_ = t /\ \A u \in Threads \ {t} : job[u] = Idle
BY DEF Basics, MutexHeld

\* A thread that did a field goes on with the same job at the next.
LEMMA Advanced ==
    ASSUME CaptureAssumption, Basics, NEW t \in Threads,
           NEW what \in {"count", "get", "reset"}, Advance(t, what),
           \/ job' = [job EXCEPT ![t].next = @ + 1]
           \/ job' = [job EXCEPT ![t].next = @ + 1,
                                 ![t].report[Field(t)] = statistics_[Field(t)]]
    PROVE  /\ job[t].does = what /\ job[t] # Idle
           /\ \A u \in Threads \ {t} : job'[u] = job[u]
           /\ job'[t] # Idle /\ job'[t].does = what
           /\ job'[t].next = job[t].next + 1
           /\ stats_mutex_ = t /\ stats_mutex_' = t
<1>1. /\ job[t] \in Jobs /\ job[t] # Idle /\ job[t].does = what
      /\ job[t].next \in 1..5 /\ Field(t) \in Fields
  BY AdvanceTypes DEF Advance, Basics
<1>2. stats_mutex_ = t /\ stats_mutex_' = t
  BY <1>1, Alone DEF Advance
<1>3. \A u \in Threads \ {t} : job'[u] = job[u]
  BY DEF Basics, Types
<1>4. job'[t].does = what /\ job'[t].next = job[t].next + 1
  BY <1>1 DEF Basics, Types, Jobs
<1>5. job'[t] # Idle
  BY <1>4 DEF Idle
<1> QED
  BY <1>1, <1>2, <1>3, <1>4, <1>5

\* A thread that ends frees the mutex and leaves all idle.
LEMMA Ended ==
    ASSUME CaptureAssumption, Basics, NEW t \in Threads, End(t)
    PROVE  /\ job[t] # Idle /\ stats_mutex_ = t /\ stats_mutex_' = Nobody
           /\ \A u \in Threads : job'[u] = Idle
<1>1. job[t] # Idle
  BY DEF End, Done
<1>2. stats_mutex_ = t /\ \A u \in Threads \ {t} : job[u] = Idle
  BY <1>1, Alone
<1>3. \A u \in Threads : job'[u] = Idle
  BY <1>2 DEF End, Basics, Types
<1> QED
  BY <1>1, <1>2, <1>3 DEF End

\* Every step leaves the mutex with the one thread that has a job, or free.
LEMMA MutexCorrect ==
    ASSUME CaptureAssumption, Basics, [Next]_vars
    PROVE  MutexHeld'
<1> USE NobodyIsNoThread
<1>1. ASSUME job' = job, stats_mutex_' = stats_mutex_,
             at = "count" => job[Capturer] = Idle \/ at' = at
      PROVE  MutexHeld'
  BY <1>1 DEF MutexHeld, Basics
<1>2. ASSUME NEW p \in Packets, Capture(p)
      PROVE  MutexHeld'
  BY <1>1, <1>2 DEF Capture, Goes, counting
<1>3. CASE AnalyzePacket \/ Callback
  BY <1>1, <1>3 DEF AnalyzePacket, Callback, Goes, counting
<1>4. CASE ProcessPacket
  <2>1. /\ stats_mutex_' = Capturer
        /\ \A u \in Threads \ {Capturer} : job'[u] = Idle
        /\ job'[Capturer] # Idle /\ job'[Capturer].does = "count"
    BY <1>4, Began DEF ProcessPacket
  <2>2. at' = "count"
    BY <1>4 DEF ProcessPacket
  <2> QED
    BY <2>1, <2>2 DEF MutexHeld, Threads
<1>5. ASSUME NEW r \in Readers, GetStatistics(r) \/ ResetStatistics(r)
      PROVE  MutexHeld'
  <2>1. r \in Threads
    BY DEF Threads
  <2>2. /\ stats_mutex_' = r
        /\ \A u \in Threads \ {r} : job'[u] = Idle
        /\ job'[r] # Idle /\ job'[r].does \in {"get", "reset"}
    BY <1>5, <2>1, Began DEF GetStatistics, ResetStatistics
  <2> QED
    BY <2>1, <2>2 DEF MutexHeld, Threads
<1>6. CASE Count
  <2>1. /\ job[Capturer] # Idle /\ stats_mutex_' = Capturer
        /\ \A u \in Threads \ {Capturer} : job'[u] = job[u]
        /\ job'[Capturer] # Idle /\ job'[Capturer].does = "count"
    BY <1>6, Advanced DEF Count
  <2>2. \A u \in Threads \ {Capturer} : job[u] = Idle
    BY <2>1, Alone
  <2>3. at' = "count"
    BY <1>6, <2>1 DEF Count, Advance, Basics, MutexHeld
  <2> QED
    BY <2>1, <2>2, <2>3 DEF MutexHeld, Threads
<1>7. ASSUME NEW r \in Readers, Get(r) \/ Reset(r)
      PROVE  MutexHeld'
  <2>1. r \in Threads
    BY DEF Threads
  <2>2. /\ job[r] # Idle /\ stats_mutex_' = r
        /\ \A u \in Threads \ {r} : job'[u] = job[u]
        /\ job'[r] # Idle /\ job'[r].does \in {"get", "reset"}
    BY <1>7, <2>1, Advanced DEF Get, Reset
  <2>3. \A u \in Threads \ {r} : job[u] = Idle
    BY <2>1, <2>2, Alone
  <2> QED
    BY <2>1, <2>2, <2>3 DEF MutexHeld, Threads
<1>8. ASSUME NEW t \in Threads, End(t)
      PROVE  MutexHeld'
  BY <1>8, Ended DEF MutexHeld, Threads
<1>9. CASE UNCHANGED vars
  BY <1>1, <1>9 DEF vars, counting
<1> QED
  BY <1>2, <1>3, <1>4, <1>5, <1>6, <1>7, <1>8, <1>9 DEF Next

\* The packet that the capture thread works on, and what is told of it.
LEMMA WorksCorrect ==
    ASSUME CaptureAssumption, Basics, [Next]_vars
    PROVE  WorksOnLast' /\ NotYetCounted'
<1> USE NobodyIsNoThread
<1>1. ASSUME log' = log, info' = info, at' = at, since' = since,
             job[Capturer] # Idle => job'[Capturer] # Idle
      PROVE  WorksOnLast' /\ NotYetCounted'
  BY <1>1 DEF WorksOnLast, NotYetCounted, Basics, InfoOf, Frame
<1>2. ASSUME NEW p \in Packets, Capture(p)
      PROVE  WorksOnLast' /\ NotYetCounted'
  <2>1. /\ log' = Append(log, p) /\ Len(log') = Len(log) + 1 /\ Len(log) \in Nat
        /\ \A i \in 1..Len(log) : log'[i] = log[i]
    BY <1>2 DEF Capture, Basics, Types
  <2>2. Len(log') \notin since'
    BY <1>2, <2>1 DEF Capture, counting, Basics, Types
  <2> QED
    BY <1>2, <2>1, <2>2 DEF Capture, Goes, WorksOnLast, NotYetCounted
<1>3. CASE AnalyzePacket
  <2>1. /\ log' = log /\ at' = "count" /\ since' = since
        /\ job' = job /\ Len(log) > 0 /\ Len(log) \notin since
    <3>1. job[Capturer] = Idle
      BY <1>3 DEF AnalyzePacket, Goes, Basics, MutexHeld
    <3> QED
      BY <1>3, <3>1
      DEF AnalyzePacket, Goes, Basics, WorksOnLast, NotYetCounted, counting
  <2>2. info' = InfoOf(Len(log))'
    BY <1>3, <2>1 DEF AnalyzePacket, InfoOf, Frame
  <2> QED
    BY <2>1, <2>2 DEF WorksOnLast, NotYetCounted, Basics, InfoOf
<1>4. CASE ProcessPacket
  <2>1. /\ job'[Capturer] # Idle
        /\ log' = log /\ info' = info /\ at' = at
    BY <1>4, Began DEF ProcessPacket, elsewhere
  <2> QED
    BY <2>1 DEF WorksOnLast, NotYetCounted, Basics, InfoOf, Frame
<1>5. ASSUME NEW r \in Readers, GetStatistics(r) \/ ResetStatistics(r)
      PROVE  WorksOnLast' /\ NotYetCounted'
  <2>1. r \in Threads /\ r # Capturer
    BY DEF Threads
  <2>2. /\ job'[Capturer] = job[Capturer]
        /\ log' = log /\ info' = info /\ at' = at
        /\ (since' = since \/ since' = {})
    BY <1>5, <2>1, Began DEF GetStatistics, ResetStatistics, elsewhere
  <2> QED
    BY <2>2 DEF WorksOnLast, NotYetCounted, Basics, InfoOf, Frame
<1>6. CASE Count
  <2>1. job'[Capturer] # Idle
    BY <1>6, Advanced DEF Count
  <2> QED
    BY <1>1, <1>6, <2>1
    DEF Count, Advance, elsewhere, Basics, WorksOnLast
<1>7. ASSUME NEW r \in Readers, Get(r) \/ Reset(r)
      PROVE  WorksOnLast' /\ NotYetCounted'
  <2>1. r \in Threads /\ r # Capturer
    BY DEF Threads
  <2>2. job'[Capturer] = job[Capturer]
    BY <1>7, <2>1, Advanced DEF Get, Reset
  <2> QED
    BY <1>1, <1>7, <2>2
    DEF Get, Reset, Advance, elsewhere, Basics, WorksOnLast
<1>8. ASSUME NEW t \in Threads, End(t)
      PROVE  WorksOnLast' /\ NotYetCounted'
  <2>1. log' = log /\ info' = info /\ since' = since
    BY <1>8 DEF End, elsewhere
  <2>2. CASE t = Capturer
    <3>1. at = "count"
      BY <1>8, <2>2, Ended DEF Basics, MutexHeld
    <3>2. \/ at' = "wait"
          \/ at' = "callback" /\ Frame.result = "SUCCESS"
      BY <1>8, <2>2 DEF End
    <3> QED
      BY <2>1, <3>1, <3>2 DEF WorksOnLast, NotYetCounted, Basics, InfoOf, Frame
  <2>3. CASE t # Capturer
    <3>1. at' = at
      BY <1>8, <2>3 DEF End
    <3>2. job[Capturer] = Idle
      BY <1>8, <2>3, Ended, Alone
    <3> QED
      BY <1>1, <2>1, <3>1, <3>2 DEF Basics, WorksOnLast
  <2> QED
    BY <2>2, <2>3
<1>9. CASE Callback
  <2>1. at' = "wait" /\ log' = log /\ since' = since
    BY <1>9 DEF Callback, Goes, counting
  <2> QED
    BY <2>1 DEF WorksOnLast, NotYetCounted
<1>10. CASE UNCHANGED vars
  BY <1>1, <1>10 DEF vars, counting, Basics, WorksOnLast
<1> QED
  BY <1>2, <1>3, <1>4, <1>5, <1>6, <1>7, <1>8, <1>9, <1>10 DEF Next

\* The four parts together are inductive.
LEMMA BasicsCorrect ==
    ASSUME CaptureAssumption, Basics, [Next]_vars
    PROVE  Basics'
BY TypesCorrect, MutexCorrect, WorksCorrect DEF Basics

\* At first nothing runs and nothing was captured.
LEMMA BasicsInit ==
    ASSUME CaptureAssumption, Init
    PROVE  Basics
<1>1. Zero \in [Fields -> Nat]
  BY DEF Zero, Fields
<1>2. Types
  <2>1. <<>> \in Seq(Packets) /\ {} \in SUBSET (1..Len(<<>>))
    OBVIOUS
  <2>2. job \in [Threads -> Jobs \cup {Idle}] /\ connections \in [Clients -> Nat]
    BY DEF Init
  <2> QED
    BY <1>1, <2>1, <2>2 DEF Init, Types
<1>3. MutexHeld
  BY NobodyIsNoThread DEF Init, MutexHeld, Idle, Threads
<1> QED
  BY <1>2, <1>3 DEF Basics, Init, WorksOnLast, NotYetCounted

\* They hold in every state.
THEOREM BasicsInvariant == Spec => []Basics
<1>1. Init => Basics
  BY BasicsInit, CaptureAssumption
<1>2. Basics /\ [Next]_vars => Basics'
  BY BasicsCorrect, CaptureAssumption
<1> QED
  BY <1>1, <1>2, PTL DEF Spec

\* The callbacks are told of, and shown, one packet.
THEOREM InfoOfOne == Spec => []InfoIsOfOnePacket
<1>1. Basics => InfoIsOfOnePacket
  BY DEF Basics, WorksOnLast, InfoIsOfOnePacket, InfoOf, Raw
<1> QED
  BY <1>1, BasicsInvariant, PTL

-----------------------------------------------------------------------------
(* Where the members of the layouts are.                                   *)

\* s is n members, each of some bytes.
Members(s, n) == DOMAIN s = 1..n /\ \A i \in 1..n : s[i].bytes \in Nat

\* A member begins where the one before it ends, and the structure ends where
\* its last member does.
LEMMA OffsetSteps ==
    ASSUME NEW s, NEW n \in Nat, Members(s, n)
    PROVE  /\ Offset(s, 1) = 0
           /\ \A i \in 1..n : Offset(s, i + 1) = Offset(s, i) + s[i].bytes
           /\ SizeOf(s) = Offset(s, n + 1)
<1> DEFINE f == MemberBytes(s)
<1>1. DOMAIN f = 1..n /\ \A i \in 1..n : f[i] = s[i].bytes /\ f[i] \in Nat
  BY DEF Members, MemberBytes
<1>2. \A i \in 1..n + 1 : IsFiniteSet(1..(i - 1)) /\ \A k \in 1..(i - 1) : k \in 1..n
  <2>1. \A i \in 1..n + 1 : i - 1 \in Int
    OBVIOUS
  <2>2. \A i \in 1..n + 1 : IsFiniteSet(1..(i - 1))
    BY <2>1, FS_Interval
  <2> QED
    BY <2>2
<1> HIDE DEF f
<1>3. \A i \in 1..n + 1 : Offset(s, i) = Sum(f, 1..(i - 1))
  BY <1>1, <1>2, SumOnSet DEF Offset, f
<1>4. Offset(s, 1) = 0
  <2>1. 1 \in 1..n + 1 /\ 1..(1 - 1) = {}
    OBVIOUS
  <2> QED
    BY <1>3, <2>1, SumEmpty
<1>5. ASSUME NEW i \in 1..n
      PROVE  Offset(s, i + 1) = Offset(s, i) + s[i].bytes
  <2>1. i \in 1..n + 1 /\ i + 1 \in 1..n + 1
    OBVIOUS
  <2>2. 1..((i + 1) - 1) = 1..(i - 1) \cup {i} /\ i \notin 1..(i - 1)
    OBVIOUS
  <2>3. IsFiniteSet(1..(i - 1)) /\ \A k \in 1..(i - 1) \cup {i} : f[k] \in Nat
    BY <1>1, <1>2, <2>1
  <2>4. Sum(f, 1..(i - 1) \cup {i}) = Sum(f, 1..(i - 1)) + f[i]
    BY <2>2, <2>3, SumWith
  <2> QED
    BY <1>1, <1>3, <2>1, <2>2, <2>4
<1>6. SizeOf(s) = Offset(s, n + 1)
  <2>1. DOMAIN f = 1..((n + 1) - 1)
    BY <1>1
  <2> QED
    BY <2>1 DEF SizeOf, Offset, SumFunction, f
<1> QED
  BY <1>4, <1>5, <1>6

\* The offsets of the members of EthernetHeader, and its size ...
LEMMA EthernetOffsets ==
    /\ Offset(EthernetHeader, 1) = 0 /\ Offset(EthernetHeader, 2) = 6
    /\ Offset(EthernetHeader, 3) = 12 /\ SizeOf(EthernetHeader) = 14
<1> DEFINE s == EthernetHeader
<1>1. /\ DOMAIN s = 1..3 /\ s[1].bytes = 6 /\ s[2].bytes = 6
      /\ s[3].bytes = 2
  BY DEF EthernetHeader, Mac, U16
<1> HIDE DEF s
<1>2. Members(s, 3)
  <2>1. \A i \in 1..3 : i = 1 \/ i = 2 \/ i = 3
    OBVIOUS
  <2> QED
    BY <1>1, <2>1 DEF Members
<1>3. /\ Offset(s, 1) = 0 /\ SizeOf(s) = Offset(s, 3 + 1)
      /\ Offset(s, 1 + 1) = Offset(s, 1) + s[1].bytes
      /\ Offset(s, 2 + 1) = Offset(s, 2) + s[2].bytes
      /\ Offset(s, 3 + 1) = Offset(s, 3) + s[3].bytes
  BY <1>2, OffsetSteps
<1> QED
  BY <1>1, <1>3 DEF s

\* ... of IpHeader ...
LEMMA IpOffsets ==
    /\ Offset(IpHeader, 1) = 0 /\ Offset(IpHeader, 2) = 1
    /\ Offset(IpHeader, 3) = 2 /\ Offset(IpHeader, 4) = 4
    /\ Offset(IpHeader, 5) = 6 /\ Offset(IpHeader, 6) = 8
    /\ Offset(IpHeader, 7) = 9 /\ Offset(IpHeader, 8) = 10
    /\ Offset(IpHeader, 9) = 12 /\ Offset(IpHeader, 10) = 16
    /\ SizeOf(IpHeader) = 20
<1> DEFINE s == IpHeader
<1>1. /\ DOMAIN s = 1..10 /\ s[1].bytes = 1 /\ s[2].bytes = 1
      /\ s[3].bytes = 2 /\ s[4].bytes = 2 /\ s[5].bytes = 2
      /\ s[6].bytes = 1 /\ s[7].bytes = 1 /\ s[8].bytes = 2
      /\ s[9].bytes = 4 /\ s[10].bytes = 4
  BY DEF IpHeader, U8, U16, U32
<1> HIDE DEF s
<1>2. Members(s, 10)
  <2>1. \A i \in 1..10 : \/ i = 1 \/ i = 2 \/ i = 3 \/ i = 4 \/ i = 5
                        \/ i = 6 \/ i = 7 \/ i = 8 \/ i = 9 \/ i = 10
    OBVIOUS
  <2> QED
    BY <1>1, <2>1 DEF Members
<1>3. /\ Offset(s, 1) = 0 /\ SizeOf(s) = Offset(s, 10 + 1)
      /\ Offset(s, 1 + 1) = Offset(s, 1) + s[1].bytes
      /\ Offset(s, 2 + 1) = Offset(s, 2) + s[2].bytes
      /\ Offset(s, 3 + 1) = Offset(s, 3) + s[3].bytes
      /\ Offset(s, 4 + 1) = Offset(s, 4) + s[4].bytes
      /\ Offset(s, 5 + 1) = Offset(s, 5) + s[5].bytes
      /\ Offset(s, 6 + 1) = Offset(s, 6) + s[6].bytes
      /\ Offset(s, 7 + 1) = Offset(s, 7) + s[7].bytes
      /\ Offset(s, 8 + 1) = Offset(s, 8) + s[8].bytes
      /\ Offset(s, 9 + 1) = Offset(s, 9) + s[9].bytes
      /\ Offset(s, 10 + 1) = Offset(s, 10) + s[10].bytes
  BY <1>2, OffsetSteps
<1> QED
  BY <1>1, <1>3 DEF s

\* ... of TcpHeader ...
LEMMA TcpOffsets ==
    /\ Offset(TcpHeader, 1) = 0 /\ Offset(TcpHeader, 2) = 2
    /\ Offset(TcpHeader, 3) = 4 /\ Offset(TcpHeader, 4) = 8
    /\ Offset(TcpHeader, 5) = 12 /\ Offset(TcpHeader, 6) = 13
    /\ Offset(TcpHeader, 7) = 14 /\ Offset(TcpHeader, 8) = 16
    /\ Offset(TcpHeader, 9) = 18
<1> DEFINE s == TcpHeader
<1>1. /\ DOMAIN s = 1..9 /\ s[1].bytes = 2 /\ s[2].bytes = 2
      /\ s[3].bytes = 4 /\ s[4].bytes = 4 /\ s[5].bytes = 1
      /\ s[6].bytes = 1 /\ s[7].bytes = 2 /\ s[8].bytes = 2
      /\ s[9].bytes = 2
  BY DEF TcpHeader, U8, U16, U32
<1> HIDE DEF s
<1>2. Members(s, 9)
  <2>1. \A i \in 1..9 : \/ i = 1 \/ i = 2 \/ i = 3 \/ i = 4 \/ i = 5
                        \/ i = 6 \/ i = 7 \/ i = 8 \/ i = 9
    OBVIOUS
  <2> QED
    BY <1>1, <2>1 DEF Members
<1>3. /\ Offset(s, 1) = 0 /\ SizeOf(s) = Offset(s, 9 + 1)
      /\ Offset(s, 1 + 1) = Offset(s, 1) + s[1].bytes
      /\ Offset(s, 2 + 1) = Offset(s, 2) + s[2].bytes
      /\ Offset(s, 3 + 1) = Offset(s, 3) + s[3].bytes
      /\ Offset(s, 4 + 1) = Offset(s, 4) + s[4].bytes
      /\ Offset(s, 5 + 1) = Offset(s, 5) + s[5].bytes
      /\ Offset(s, 6 + 1) = Offset(s, 6) + s[6].bytes
      /\ Offset(s, 7 + 1) = Offset(s, 7) + s[7].bytes
      /\ Offset(s, 8 + 1) = Offset(s, 8) + s[8].bytes
      /\ Offset(s, 9 + 1) = Offset(s, 9) + s[9].bytes
  BY <1>2, OffsetSteps
<1> QED
  BY <1>1, <1>3 DEF s

\* ... and of UdpHeader.
LEMMA UdpOffsets ==
    /\ Offset(UdpHeader, 1) = 0 /\ Offset(UdpHeader, 2) = 2
    /\ Offset(UdpHeader, 3) = 4 /\ Offset(UdpHeader, 4) = 6
<1> DEFINE s == UdpHeader
<1>1. /\ DOMAIN s = 1..4 /\ s[1].bytes = 2 /\ s[2].bytes = 2
      /\ s[3].bytes = 2 /\ s[4].bytes = 2
  BY DEF UdpHeader, U16
<1> HIDE DEF s
<1>2. Members(s, 4)
  <2>1. \A i \in 1..4 : i = 1 \/ i = 2 \/ i = 3 \/ i = 4
    OBVIOUS
  <2> QED
    BY <1>1, <2>1 DEF Members
<1>3. /\ Offset(s, 1) = 0 /\ SizeOf(s) = Offset(s, 4 + 1)
      /\ Offset(s, 1 + 1) = Offset(s, 1) + s[1].bytes
      /\ Offset(s, 2 + 1) = Offset(s, 2) + s[2].bytes
      /\ Offset(s, 3 + 1) = Offset(s, 3) + s[3].bytes
      /\ Offset(s, 4 + 1) = Offset(s, 4) + s[4].bytes
  BY <1>2, OffsetSteps
<1> QED
  BY <1>1, <1>3 DEF s

\* Every member of the structures covers its field.
LEMMA NoneMisplaced ==
    ASSUME NEW protocol \in {TCP, UDP}
    PROVE  Misplaced(protocol) = {}
<1>1. Covered(EthernetHeader) \subseteq Ethernet
  <2>1. DOMAIN EthernetHeader = 1..3
    BY DEF EthernetHeader
  <2>2. \A i \in 1..3 :
          <<EthernetHeader[i].name, Offset(EthernetHeader, i), EthernetHeader[i].bytes>>
            \in Ethernet
    BY EthernetOffsets DEF EthernetHeader, Ethernet, Mac, U16
  <2> QED
    BY <2>1, <2>2 DEF Covered
<1>2. Covered(IpHeader) \subseteq Ipv4
  <2>1. DOMAIN IpHeader = 1..10
    BY DEF IpHeader
  <2>2. \A i \in 1..10 :
          <<IpHeader[i].name, Offset(IpHeader, i), IpHeader[i].bytes>> \in Ipv4
    BY IpOffsets DEF IpHeader, Ipv4, U8, U16, U32
  <2> QED
    BY <2>1, <2>2 DEF Covered
<1>3. Covered(TcpHeader) \subseteq TcpFields
  <2>1. DOMAIN TcpHeader = 1..9
    BY DEF TcpHeader
  <2>2. \A i \in 1..9 :
          <<TcpHeader[i].name, Offset(TcpHeader, i), TcpHeader[i].bytes>> \in TcpFields
    BY TcpOffsets DEF TcpHeader, TcpFields, U8, U16, U32
  <2> QED
    BY <2>1, <2>2 DEF Covered
<1>4. Covered(UdpHeader) \subseteq UdpFields
  <2>1. DOMAIN UdpHeader = 1..4
    BY DEF UdpHeader
  <2>2. \A i \in 1..4 :
          <<UdpHeader[i].name, Offset(UdpHeader, i), UdpHeader[i].bytes>> \in UdpFields
    BY UdpOffsets DEF UdpHeader, UdpFields, U16
  <2> QED
    BY <2>1, <2>2 DEF Covered
<1>5. \A k \in 1..3 : Covered(Headers(protocol)[k]) \ Placed(protocol)[k] = {}
  <2>1. CASE protocol = TCP
    <3>1. Headers(protocol) = <<EthernetHeader, IpHeader, TcpHeader>>
      BY <2>1 DEF Headers, Transport
    <3>2. Placed(protocol) = <<Ethernet, Ipv4, TcpFields>>
      BY <2>1 DEF Placed
    <3> QED
      BY <1>1, <1>2, <1>3, <3>1, <3>2
  <2>2. CASE protocol = UDP
    <3>1. Headers(protocol) = <<EthernetHeader, IpHeader, UdpHeader>>
      BY <2>2 DEF Headers, Transport, TCP, UDP
    <3>2. Placed(protocol) = <<Ethernet, Ipv4, UdpFields>>
      BY <2>2 DEF Placed, TCP, UDP
    <3> QED
      BY <1>1, <1>2, <1>4, <3>1, <3>2
  <2> QED
    BY <2>1, <2>2
<1> QED
  BY <1>5 DEF Misplaced

\* What one flag adds to the byte.
FlagAdds(flags, i) == IF FlagBits[i] \in flags THEN 2 ^ (i - 1) ELSE 0

\* The byte of the flags, bit by bit.
LEMMA FlagByteIs ==
    ASSUME NEW flags
    PROVE  FlagByte(flags) =
             FlagAdds(flags, 1) + FlagAdds(flags, 2) + FlagAdds(flags, 3)
               + FlagAdds(flags, 4) + FlagAdds(flags, 5) + FlagAdds(flags, 6)
<1> DEFINE f == FlagValues
           R(n) == {i \in 1..n : FlagBits[i] \in flags}
<1>1. /\ DOMAIN FlagBits = 1..6 /\ DOMAIN f = 1..6
      /\ \A i \in 1..6 : f[i] = 2 ^ (i - 1)
  BY DEF FlagValues, FlagBits
<1>2. \A i \in 1..6 : f[i] \in Nat
  BY <1>1
<1> HIDE DEF f
<1>3. \A n \in 0..6 : IsFiniteSet(R(n)) /\ \A i \in R(n) : i \in 1..6 /\ i <= n
  <2>1. \A n \in 0..6 : IsFiniteSet(1..n) /\ R(n) \in SUBSET (1..n)
    BY FS_Interval
  <2> HIDE DEF R
  <2> QED
    BY <2>1, FS_Subset
<1>4. ASSUME NEW n \in 0..5
      PROVE  Sum(f, R(n + 1)) = Sum(f, R(n)) + FlagAdds(flags, n + 1)
  <2>1. IsFiniteSet(R(n)) /\ (\A i \in R(n) : f[i] \in Nat) /\ n + 1 \notin R(n)
    <3> HIDE DEF R
    <3> QED
      BY <1>2, <1>3
  <2>2. Sum(f, R(n)) \in Nat
    BY <2>1, SumType
  <2>3. CASE FlagBits[n + 1] \in flags
    <3>1. R(n + 1) = R(n) \cup {n + 1}
      BY <2>3
    <3>2. f[n + 1] = 2 ^ ((n + 1) - 1) /\ f[n + 1] \in Nat
      <4>1. n + 1 \in 1..6
        OBVIOUS
      <4> HIDE DEF R
      <4> QED
        BY <1>1, <1>2, <4>1
    <3>3. \A i \in R(n) \cup {n + 1} : f[i] \in Nat
      BY <2>1, <3>2
    <3> HIDE DEF R
    <3>4. Sum(f, R(n) \cup {n + 1}) = Sum(f, R(n)) + f[n + 1]
      BY <2>1, <3>3, SumWith
    <3> QED
      BY <2>3, <3>1, <3>2, <3>4 DEF FlagAdds
  <2>4. CASE FlagBits[n + 1] \notin flags
    <3>1. R(n + 1) = R(n)
      BY <2>4
    <3>2. FlagAdds(flags, n + 1) = 0
      BY <2>4 DEF FlagAdds
    <3> HIDE DEF R
    <3> QED
      BY <2>2, <3>1, <3>2
  <2> QED
    BY <2>3, <2>4
<1>5. Sum(f, R(0)) = 0
  <2>1. R(0) = {}
    OBVIOUS
  <2> QED
    BY <2>1, SumEmpty
<1>6. FlagByte(flags) = Sum(f, R(6))
  <2>1. R(6) = {i \in DOMAIN FlagBits : FlagBits[i] \in flags}
    BY <1>1
  <2>2. IsFiniteSet(R(6)) /\ \A i \in R(6) : f[i] \in Nat
    BY <1>2, <1>3
  <2> HIDE DEF R
  <2> QED
    BY <2>1, <2>2, SumOnSet DEF FlagByte, f
<1> HIDE DEF R
<1>7. /\ Sum(f, R(0 + 1)) = Sum(f, R(0)) + FlagAdds(flags, 0 + 1)
      /\ Sum(f, R(1 + 1)) = Sum(f, R(1)) + FlagAdds(flags, 1 + 1)
      /\ Sum(f, R(2 + 1)) = Sum(f, R(2)) + FlagAdds(flags, 2 + 1)
      /\ Sum(f, R(3 + 1)) = Sum(f, R(3)) + FlagAdds(flags, 3 + 1)
      /\ Sum(f, R(4 + 1)) = Sum(f, R(4)) + FlagAdds(flags, 4 + 1)
      /\ Sum(f, R(5 + 1)) = Sum(f, R(5)) + FlagAdds(flags, 5 + 1)
  BY <1>4
<1>8. FlagAdds(flags, 1) \in Nat
  BY DEF FlagAdds
<1> QED
  BY <1>5, <1>6, <1>7, <1>8

\* The code sees the flags that were raised.
LEMMA FlagsSeen ==
    ASSUME NEW flags \in SUBSET DOMAIN TcpFlags
    PROVE  FlagsIn(FlagByte(flags)) = flags
<1> DEFINE b(name) == IF name \in flags THEN 1 ELSE 0
           byte == b("FIN") + 2 * b("SYN") + 4 * b("RST") + 8 * b("PSH")
                     + 16 * b("ACK") + 32 * b("URG")
<1>1. FlagByte(flags) = byte
  <2>1. /\ FlagAdds(flags, 1) = b("FIN") /\ FlagAdds(flags, 2) = 2 * b("SYN")
        /\ FlagAdds(flags, 3) = 4 * b("RST") /\ FlagAdds(flags, 4) = 8 * b("PSH")
        /\ FlagAdds(flags, 5) = 16 * b("ACK") /\ FlagAdds(flags, 6) = 32 * b("URG")
    BY DEF FlagAdds, FlagBits
  <2> QED
    BY <2>1, FlagByteIs
<1>2. \A u, v, w, x, y, z \in {0, 1} :
        LET n == u + 2 * v + 4 * w + 8 * x + 16 * y + 32 * z
        IN  /\ (n \div 1) % 2 = u /\ (n \div 2) % 2 = v /\ (n \div 4) % 2 = w
            /\ (n \div 8) % 2 = x /\ (n \div 16) % 2 = y /\ (n \div 32) % 2 = z
  OBVIOUS
<1>3. \A name : b(name) \in {0, 1} /\ (b(name) = 1 <=> name \in flags)
  OBVIOUS
<1> HIDE DEF b
<1>4. /\ (byte \div 1) % 2 = b("FIN") /\ (byte \div 2) % 2 = b("SYN")
      /\ (byte \div 4) % 2 = b("RST") /\ (byte \div 8) % 2 = b("PSH")
      /\ (byte \div 16) % 2 = b("ACK") /\ (byte \div 32) % 2 = b("URG")
  BY <1>2, <1>3
<1>5. /\ DOMAIN TcpFlags = {"FIN", "SYN", "RST", "PSH", "ACK", "URG"}
      /\ TcpFlags["FIN"] = 1 /\ TcpFlags["SYN"] = 2 /\ TcpFlags["RST"] = 4
      /\ TcpFlags["PSH"] = 8 /\ TcpFlags["ACK"] = 16 /\ TcpFlags["URG"] = 32
  BY DEF TcpFlags
<1> HIDE DEF byte
<1>6. \A name \in DOMAIN TcpFlags :
        (byte \div TcpFlags[name]) % 2 = 1 <=> name \in flags
  BY <1>3, <1>4, <1>5
<1> QED
  BY <1>1, <1>6 DEF FlagsIn

\* The callbacks are told the fields and the flags that the sender wrote: each
\* member of the packed structures lies on the field it is named for, and the
\* flags are told apart.
THEOREM FieldsAreRight == Spec => []MembersCoverFields
<1>1. ASSUME CaptureAssumption, Basics
      PROVE  MembersCoverFields
  <2> SUFFICES ASSUME at = "callback"
               PROVE  info.misplaced = {} /\ info.flags = log[info.of].flags
    BY DEF MembersCoverFields
  <2>1. info = InfoOf(Len(log)) /\ Len(log) > 0
    BY <1>1 DEF Basics, WorksOnLast
  <2>2. log[Len(log)] \in Packets
    BY <1>1, <2>1 DEF Basics, Types
  <2>3. /\ log[Len(log)].protocol \in {TCP, UDP}
        /\ log[Len(log)].flags \in SUBSET DOMAIN TcpFlags
    BY <1>1, <2>2 DEF CaptureAssumption
  <2> QED
    BY <2>1, <2>3, NoneMisplaced, FlagsSeen DEF InfoOf
<1> QED
  BY <1>1, BasicsInvariant, CaptureAssumption, PTL

-----------------------------------------------------------------------------
(* The statistics.  Between two fields of a job they are of no instant; what *)
(* they will be when the running job has ended always is.                  *)

\* A job has every field to do, and one less after each.
LEMMA LeftFields ==
    /\ Left(1) = Fields /\ Left(6) = {}
    /\ \A n \in 1..5 : /\ Left(n + 1) = Left(n) \ {CaptureStatistics[n]}
                       /\ CaptureStatistics[n] \in Left(n)
<1>1. \A k \in 1..5, l \in 1..5 : CaptureStatistics[k] = CaptureStatistics[l] => k = l
  BY DEF CaptureStatistics
<1>2. Left(1) = Fields
  BY DEF Left, Fields, ToSet, CaptureStatistics
<1>3. Left(6) = {}
  BY DEF Left
<1>4. ASSUME NEW n \in 1..5
      PROVE  /\ Left(n + 1) = Left(n) \ {CaptureStatistics[n]}
             /\ CaptureStatistics[n] \in Left(n)
  <2>1. n..5 = (n + 1 .. 5) \cup {n} /\ n \notin (n + 1)..5
    OBVIOUS
  <2>2. \A k \in (n + 1)..5 : k \in 1..5 /\ k # n
    OBVIOUS
  <2>3. \A k \in (n + 1)..5 : CaptureStatistics[k] # CaptureStatistics[n]
    BY <1>1, <2>2
  <2> QED
    BY <2>1, <2>3 DEF Left
<1> QED
  BY <1>2, <1>3, <1>4

\* A thread that ends has nothing left to do.
LEMMA NoneLeft ==
    ASSUME Basics, NEW t \in Threads, Done(t)
    PROVE  Left(job[t].next) = {}
<1>1. job[t] \in Jobs
  BY IdleJob DEF Done, Basics, Types
<1>2. job[t].next = 6
  BY <1>1, FieldsAre DEF Done, Jobs
<1> QED
  BY <1>2, LeftFields

\* What the step of a job does to what is left to do.
LEMMA OneLess ==
    ASSUME CaptureAssumption, Basics, NEW t \in Threads,
           NEW what \in {"count", "get", "reset"}, Advance(t, what),
           \/ job' = [job EXCEPT ![t].next = @ + 1]
           \/ job' = [job EXCEPT ![t].next = @ + 1,
                                 ![t].report[Field(t)] = statistics_[Field(t)]]
    PROVE  /\ Left(job'[t].next) = Left(job[t].next) \ {Field(t)}
           /\ Field(t) \in Left(job[t].next) /\ Field(t) \in Fields
<1>1. job[t].next \in 1..5 /\ Field(t) \in Fields
  BY AdvanceTypes DEF Basics
<1>2. job'[t].next = job[t].next + 1
  BY Advanced
<1> QED
  BY <1>1, <1>2, LeftFields DEF Field

\* The capture thread begins to count: its packet will be in every field.
LEMMA SettledByProcess ==
    ASSUME CaptureAssumption, Basics, ProcessPacket, NEW field \in Fields
    PROVE  Settled(field)' = Settled(field) + Adds(Frame, field)
<1>1. /\ stats_mutex_ = Nobody /\ stats_mutex_' = Capturer
      /\ job'[Capturer].does = "count" /\ job'[Capturer].next = 1
  BY Began, NobodyIsNoThread DEF ProcessPacket
<1>2. statistics_' = statistics_ /\ Frame' = Frame
  BY DEF ProcessPacket, elsewhere, Frame
<1> QED
  BY <1>1, <1>2, LeftFields, NobodyIsNoThread DEF Settled

\* A reader begins to reset: no packet will be in any field.
LEMMA SettledByReset ==
    ASSUME CaptureAssumption, Basics, NEW r \in Readers, ResetStatistics(r),
           NEW field \in Fields
    PROVE  Settled(field)' = 0
<1>1. r \in Threads
  BY DEF Threads
<1>2. /\ stats_mutex_ = Nobody /\ stats_mutex_' = r
      /\ job'[r].does = "reset" /\ job'[r].next = 1
  BY <1>1, Began DEF ResetStatistics
<1> QED
  BY <1>1, <1>2, LeftFields, NobodyIsNoThread DEF Settled

\* No other step changes what the fields will be.
LEMMA SettledStays ==
    ASSUME CaptureAssumption, Basics, [Next]_vars, NEW field \in Fields,
           ~ ProcessPacket, \A r \in Readers : ~ ResetStatistics(r)
    PROVE  Settled(field)' = Settled(field)
<1> USE NobodyIsNoThread
<1>1. stats_mutex_ \in Threads \cup {Nobody}
  BY DEF Basics, Types
<1>2. ASSUME statistics_' = statistics_, job' = job, stats_mutex_' = stats_mutex_,
             log' = log
      PROVE  Settled(field)' = Settled(field)
  BY <1>2 DEF Settled, Frame
<1>3. ASSUME NEW p \in Packets, Capture(p)
      PROVE  Settled(field)' = Settled(field)
  <2>1. job[Capturer] = Idle
    BY <1>3 DEF Capture, Goes, Basics, MutexHeld
  <2>2. stats_mutex_ # Nobody => job[stats_mutex_].does # "count"
    BY <1>1, <2>1 DEF Basics, MutexHeld, Threads, Idle
  <2>3. statistics_' = statistics_ /\ job' = job /\ stats_mutex_' = stats_mutex_
    BY <1>3 DEF Capture, counting
  <2> QED
    BY <2>2, <2>3 DEF Settled
<1>4. CASE AnalyzePacket \/ Callback
  BY <1>2, <1>4 DEF AnalyzePacket, Callback, counting
<1>5. ASSUME NEW r \in Readers, GetStatistics(r)
      PROVE  Settled(field)' = Settled(field)
  <2>1. r \in Threads
    BY DEF Threads
  <2>2. /\ stats_mutex_ = Nobody /\ stats_mutex_' = r
        /\ job'[r].does = "get" /\ statistics_' = statistics_
    BY <1>5, <2>1, Began DEF GetStatistics
  <2> QED
    BY <2>1, <2>2 DEF Settled
<1>6. CASE Count
  <2>1. /\ stats_mutex_ = Capturer /\ stats_mutex_' = Capturer
        /\ job[Capturer].does = "count" /\ job'[Capturer].does = "count"
    BY <1>6, Advanced DEF Count
  <2>2. /\ Left(job'[Capturer].next) = Left(job[Capturer].next) \ {Field(Capturer)}
        /\ Field(Capturer) \in Left(job[Capturer].next)
        /\ Field(Capturer) \in Fields
    BY <1>6, OneLess DEF Count
  <2>3. Frame' = Frame
    BY <1>6 DEF Count, Advance, elsewhere, Frame
  <2>4. statistics_' = [statistics_ EXCEPT
           ![Field(Capturer)] = @ + Adds(Frame, Field(Capturer))]
    BY <1>6 DEF Count
  <2>5. CASE field = Field(Capturer)
    <3>1. statistics_'[field] = statistics_[field] + Adds(Frame, field)
      BY <2>2, <2>4, <2>5 DEF Basics, Types
    <3> QED
      BY <2>1, <2>2, <2>5, <3>1 DEF Settled
  <2>6. CASE field # Field(Capturer)
    <3>1. statistics_'[field] = statistics_[field]
      BY <2>4, <2>6 DEF Basics, Types
    <3>2. field \in Left(job'[Capturer].next) <=> field \in Left(job[Capturer].next)
      BY <2>2, <2>6
    <3> QED
      BY <2>1, <2>3, <3>1, <3>2 DEF Settled
  <2> QED
    BY <2>5, <2>6
<1>7. ASSUME NEW r \in Readers, Get(r)
      PROVE  Settled(field)' = Settled(field)
  <2>1. r \in Threads
    BY DEF Threads
  <2>2. /\ stats_mutex_ = r /\ stats_mutex_' = r /\ statistics_' = statistics_
        /\ job[r].does = "get" /\ job'[r].does = "get"
    BY <1>7, <2>1, Advanced DEF Get
  <2> QED
    BY <2>1, <2>2 DEF Settled
<1>8. ASSUME NEW r \in Readers, Reset(r)
      PROVE  Settled(field)' = Settled(field)
  <2>1. r \in Threads
    BY DEF Threads
  <2>2. /\ stats_mutex_ = r /\ stats_mutex_' = r
        /\ job[r].does = "reset" /\ job'[r].does = "reset"
    BY <1>8, <2>1, Advanced DEF Reset
  <2>3. /\ Left(job'[r].next) = Left(job[r].next) \ {Field(r)}
        /\ Field(r) \in Left(job[r].next)
    BY <1>8, <2>1, OneLess DEF Reset
  <2>4. statistics_' = [statistics_ EXCEPT ![Field(r)] = 0]
    BY <1>8 DEF Reset
  <2>5. CASE field = Field(r)
    <3>1. statistics_'[field] = 0
      BY <2>4, <2>5 DEF Basics, Types
    <3> QED
      BY <2>1, <2>2, <2>3, <2>5, <3>1 DEF Settled
  <2>6. CASE field # Field(r)
    <3>1. statistics_'[field] = statistics_[field]
      BY <2>4, <2>6 DEF Basics, Types
    <3>2. field \in Left(job'[r].next) <=> field \in Left(job[r].next)
      BY <2>3, <2>6
    <3> QED
      BY <2>1, <2>2, <3>1, <3>2 DEF Settled
  <2> QED
    BY <2>5, <2>6
<1>9. ASSUME NEW t \in Threads, End(t)
      PROVE  Settled(field)' = Settled(field)
  <2>1. stats_mutex_ = t /\ stats_mutex_' = Nobody /\ statistics_' = statistics_
    BY <1>9, Ended DEF End
  <2>2. Left(job[t].next) = {}
    BY <1>9, NoneLeft DEF End
  <2> QED
    BY <2>1, <2>2 DEF Settled
<1>10. CASE UNCHANGED vars
  BY <1>2, <1>10 DEF vars, counting
<1> QED
  BY <1>3, <1>4, <1>5, <1>6, <1>7, <1>8, <1>9, <1>10 DEF Next

\* What a field will hold is a natural.
LEMMA SettledType ==
    ASSUME CaptureAssumption, Basics, NEW field \in Fields
    PROVE  Settled(field) \in Nat
<1>1. statistics_[field] \in Nat
  BY DEF Basics, Types
<1>2. ASSUME stats_mutex_ # Nobody, job[stats_mutex_].does = "count"
      PROVE  Adds(Frame, field) \in Nat
  <2>1. stats_mutex_ \in Threads
    BY <1>2 DEF Basics, Types
  <2>2. stats_mutex_ = Capturer /\ at = "count"
    BY <1>2, <2>1 DEF Basics, MutexHeld, Threads, Idle
  <2>3. Frame \in Packets
    BY <2>2 DEF Basics, WorksOnLast, Types, Frame
  <2> QED
    BY <2>3, AddsType
<1> QED
  BY <1>1, <1>2 DEF Settled

-----------------------------------------------------------------------------
(* The statistics implement AtomicStatistics.                              *)

\* What the atomic statistics are in a state.
CountsNow == [field \in Fields |-> Settled(field)]

ReportsNow == [r \in Readers |-> Told(r)]

\* A thread that does not read is told nothing.
LEMMA NotTold ==
    ASSUME NEW R \in SUBSET Readers,
           \A r \in R : job[r].does # "get" /\ job'[r].does # "get"
    PROVE  \A r \in R : Told(r)' = Told(r)
BY DEF Told

\* What a thread is told stays with its job and the fields.
LEMMA ToldStays ==
    ASSUME statistics_' = statistics_, job' = job
    PROVE  ReportsNow' = ReportsNow
BY DEF ReportsNow, Told

\* A step that begins no count and no reset leaves the counts alone.
LEMMA CountsStay ==
    ASSUME CaptureAssumption, Basics, [Next]_vars,
           ~ ProcessPacket, \A r \in Readers : ~ ResetStatistics(r)
    PROVE  CountsNow' = CountsNow
<1>1. \A field \in Fields : Settled(field)' = Settled(field)
  BY SettledStays
<1> QED
  BY <1>1 DEF CountsNow

\* A captured packet is still to be counted.
LEMMA CaptureMaps ==
    ASSUME CaptureAssumption, Basics, NEW p \in Packets, Capture(p)
    PROVE  Statistics!Capture(p)
<1>1. CountsNow' = CountsNow
  <2>1. ~ ProcessPacket /\ \A r \in Readers : ~ ResetStatistics(r)
    BY DEF Capture, Goes, ProcessPacket, ResetStatistics, elsewhere, Basics, Types
  <2>2. [Next]_vars
    BY DEF Next
  <2> QED
    BY <2>1, <2>2, CountsStay
<1>2. ReportsNow' = ReportsNow
  BY ToldStays DEF Capture, counting
<1>3. CountBegun /\ CountBegun' = FALSE
  BY DEF Capture, Goes, CountBegun, counting, Basics, MutexHeld
<1> QED
  BY <1>1, <1>2, <1>3 DEF Statistics!Capture, Capture, CountsNow, ReportsNow

\* A packet is counted at the step that begins to count it.
LEMMA ProcessMaps ==
    ASSUME CaptureAssumption, Basics, ProcessPacket
    PROVE  Statistics!Count
<1>1. \A field \in Fields : Settled(field)' = Settled(field) + Adds(Frame, field)
  BY SettledByProcess
<1>2. CountsNow' = [field \in Fields |-> CountsNow[field] + Adds(log[Len(log)], field)]
  BY <1>1 DEF CountsNow, Frame
<1>3. \A u \in Threads : job[u] = Idle
  BY Began, NobodyIsNoThread DEF ProcessPacket
<1>4. /\ \A u \in Threads \ {Capturer} : job'[u] = job[u]
      /\ job'[Capturer] # Idle
  BY Began, NobodyIsNoThread DEF ProcessPacket
<1>5. ReportsNow' = ReportsNow
  <2>1. \A r \in Readers : job[r].does # "get" /\ job'[r].does # "get"
    BY <1>3, <1>4, NobodyIsNoThread DEF Idle, Threads
  <2> QED
    BY <2>1, NotTold DEF ReportsNow
<1>6. CountBegun = FALSE /\ CountBegun' = TRUE
  BY <1>3, <1>4, NobodyIsNoThread DEF CountBegun, ProcessPacket
<1>7. log' = log
  BY DEF ProcessPacket, elsewhere
<1> QED
  BY <1>2, <1>5, <1>6, <1>7 DEF Statistics!Count, CountsNow, ReportsNow

\* The statistics are read at the step that begins to read them.
LEMMA GetMaps ==
    ASSUME CaptureAssumption, Basics, NEW r \in Readers, GetStatistics(r)
    PROVE  Statistics!Get(r)
<1>1. r \in Threads /\ Capturer \in Threads /\ r # Capturer
  BY NobodyIsNoThread DEF Threads
<1>2. /\ stats_mutex_ = Nobody /\ \A u \in Threads : job[u] = Idle
      /\ \A u \in Threads \ {r} : job'[u] = job[u]
      /\ job'[r].does = "get" /\ job'[r].next = 1
  BY <1>1, Began DEF GetStatistics
<1>3. CountsNow' = CountsNow
  <2>1. ~ ProcessPacket
    BY <1>1, <1>2, Began DEF ProcessPacket, GetStatistics
  <2>2. ASSUME NEW u \in Readers, ResetStatistics(u) PROVE FALSE
    <3>1. u \in Threads
      BY DEF Threads
    <3>2. job'[u] # Idle /\ job'[u].does = "reset"
      BY <2>2, <3>1, Began DEF ResetStatistics
    <3> QED
      BY <1>2, <3>1, <3>2
  <2>3. [Next]_vars
    BY DEF Next
  <2> QED
    BY <2>1, <2>2, <2>3, CountsStay
<1>4. Told(r) = Idle
  BY <1>1, <1>2 DEF Told, Idle
<1>5. Told(r)' = CountsNow
  <2>1. Told(r)' = [field \in Fields |-> statistics_[field]]
    <3>1. statistics_' = statistics_
      BY DEF GetStatistics
    <3> QED
      BY <1>2, <3>1, LeftFields DEF Told
  <2> QED
    BY <1>2, <2>1 DEF CountsNow, Settled
<1>6. \A u \in Readers \ {r} : Told(u)' = Told(u)
  <2>1. \A u \in Readers \ {r} : job[u].does # "get" /\ job'[u].does # "get"
    BY <1>2 DEF Idle, Threads
  <2> QED
    BY <2>1, NotTold
<1>7. CountBegun' = CountBegun /\ log' = log
  BY <1>1, <1>2 DEF CountBegun, GetStatistics, elsewhere
<1>8. ReportsNow[r] = Idle /\ ReportsNow' = [ReportsNow EXCEPT ![r] = CountsNow]
  BY <1>4, <1>5, <1>6 DEF ReportsNow
<1> QED
  BY <1>3, <1>7, <1>8 DEF Statistics!Get, CountsNow, ReportsNow

\* The statistics are reset at the step that begins to reset them.
LEMMA ResetMaps ==
    ASSUME CaptureAssumption, Basics, NEW r \in Readers, ResetStatistics(r)
    PROVE  Statistics!Reset
<1>1. r \in Threads /\ Capturer \in Threads /\ r # Capturer
  BY NobodyIsNoThread DEF Threads
<1>2. /\ \A u \in Threads : job[u] = Idle
      /\ \A u \in Threads \ {r} : job'[u] = job[u]
      /\ job'[r].does = "reset"
  BY <1>1, Began DEF ResetStatistics
<1>3. CountsNow' = Statistics!Zeros
  <2>1. \A field \in Fields : Settled(field)' = 0
    BY SettledByReset
  <2> QED
    BY <2>1 DEF CountsNow, Statistics!Zeros
<1>4. ReportsNow' = ReportsNow
  <2>1. \A u \in Readers : job[u].does # "get" /\ job'[u].does # "get"
    BY <1>2 DEF Idle, Threads
  <2> QED
    BY <2>1, NotTold DEF ReportsNow
<1>5. CountBegun' = CountBegun /\ log' = log
  BY <1>1, <1>2 DEF CountBegun, ResetStatistics, elsewhere
<1> QED
  BY <1>3, <1>4, <1>5 DEF Statistics!Reset, CountsNow, ReportsNow

\* A thread that has done with its job returns what it was told, if it read.
LEMMA EndMaps ==
    ASSUME CaptureAssumption, Basics, NEW t \in Threads, End(t)
    PROVE  \/ t \in Readers /\ Statistics!Return(t)
           \/ UNCHANGED <<log, CountBegun, CountsNow, ReportsNow>>
<1>1. /\ job[t] # Idle /\ \A u \in Threads : job'[u] = Idle
      /\ stats_mutex_' = Nobody
  BY Ended
<1>2. \A u \in Threads \ {t} : job[u] = Idle
  BY <1>1, Alone
<1>3. CountsNow' = CountsNow
  <2>1. ~ ProcessPacket /\ \A r \in Readers : ~ ResetStatistics(r)
    BY <1>1, Began, NobodyIsNoThread DEF ProcessPacket, ResetStatistics, Threads
  <2>2. [Next]_vars
    BY DEF Next
  <2> QED
    BY <2>1, <2>2, CountsStay
<1>4. CountBegun' = CountBegun /\ log' = log
  <2>1. CASE t = Capturer
    BY <1>1, <2>1 DEF End, CountBegun, elsewhere
  <2>2. CASE t # Capturer
    BY <1>1, <1>2, <2>2, NobodyIsNoThread DEF End, CountBegun, elsewhere
  <2> QED
    BY <2>1, <2>2
<1>5. \A u \in Readers \ {t} : Told(u)' = Told(u)
  <2>1. \A u \in Readers \ {t} : job[u].does # "get" /\ job'[u].does # "get"
    BY <1>1, <1>2 DEF Idle, Threads
  <2> QED
    BY <2>1, NotTold
<1>6. CASE t \in Readers /\ job[t].does = "get"
  <2>1. Told(t)' = Idle
    BY <1>1 DEF Told, Idle
  <2>2. Told(t) # Idle
    <3>1. DOMAIN Told(t) = Fields /\ DOMAIN Idle = {"does"}
      BY <1>6 DEF Told, Idle
    <3> QED
      BY <3>1, FieldsAre
  <2>3. ReportsNow[t] # Idle
    BY <1>6, <2>2 DEF ReportsNow
  <2>4. ReportsNow' = [ReportsNow EXCEPT ![t] = Idle]
    <3>1. \A u \in Readers : Told(u)' = IF u = t THEN Idle ELSE Told(u)
      BY <1>5, <2>1
    <3> QED
      BY <3>1 DEF ReportsNow
  <2> QED
    BY <1>3, <1>4, <1>6, <2>3, <2>4 DEF Statistics!Return, CountsNow, ReportsNow
<1>7. CASE ~(t \in Readers /\ job[t].does = "get")
  <2>1. \A u \in Readers : Told(u)' = Told(u)
    BY <1>1, <1>5, <1>7 DEF Told, Idle
  <2>2. ReportsNow' = ReportsNow
    BY <2>1 DEF ReportsNow
  <2> QED
    BY <1>3, <1>4, <2>2
<1> QED
  BY <1>6, <1>7

\* To write or copy a field is no step of the atomic statistics.
LEMMA FieldStutters ==
    ASSUME CaptureAssumption, Basics,
           Count \/ \E r \in Readers : Get(r) \/ Reset(r)
    PROVE  UNCHANGED <<log, CountBegun, CountsNow, ReportsNow>>
<1> USE NobodyIsNoThread
<1>1. PICK t \in Threads, what \in {"count", "get", "reset"} :
        /\ Advance(t, what)
        /\ \/ /\ what # "get" /\ job' = [job EXCEPT ![t].next = @ + 1]
           \/ /\ what = "get" /\ Get(t) /\ t \in Readers
              /\ job' = [job EXCEPT ![t].next = @ + 1,
                                    ![t].report[Field(t)] = statistics_[Field(t)]]
  BY DEF Count, Get, Reset, Threads
<1>2. /\ job[t].does = what /\ job[t] # Idle
      /\ \A u \in Threads \ {t} : job'[u] = job[u]
      /\ job'[t] # Idle /\ job'[t].does = what
  BY <1>1, Advanced
<1>3. \A u \in Threads \ {t} : job[u] = Idle
  BY <1>2, Alone
<1>4. log' = log /\ at' = at
  BY <1>1 DEF Advance, elsewhere
<1>5. CountBegun' = CountBegun
  BY <1>2, <1>4 DEF CountBegun
<1>6. CountsNow' = CountsNow
  <2>1. ~ ProcessPacket /\ \A r \in Readers : ~ ResetStatistics(r)
    BY <1>1, <1>2, Began DEF ProcessPacket, ResetStatistics, Threads
  <2>2. [Next]_vars
    BY DEF Next
  <2> QED
    BY <2>1, <2>2, CountsStay
<1>7. \A u \in Readers \ {t} : Told(u)' = Told(u)
  <2>1. \A u \in Readers \ {t} : job[u].does # "get" /\ job'[u].does # "get"
    BY <1>2, <1>3 DEF Idle, Threads
  <2> QED
    BY <2>1, NotTold
<1>8. t \in Readers => Told(t)' = Told(t)
  <2>1. CASE what # "get"
    BY <1>2, <2>1 DEF Told
  <2>2. CASE what = "get"
    <3>1. statistics_' = statistics_
      BY <1>1, <2>2 DEF Get
    <3>2. /\ Left(job'[t].next) = Left(job[t].next) \ {Field(t)}
          /\ Field(t) \in Left(job[t].next) /\ Field(t) \in Fields
      BY <1>1, OneLess
    <3>3. job[t] \in Jobs
      BY <1>1, AdvanceTypes DEF Basics
    <3>4. job'[t].report = [job[t].report EXCEPT ![Field(t)] = statistics_[Field(t)]]
      BY <1>1, <2>2, <3>3 DEF Basics, Types, Jobs
    <3>5. job[t].report \in [Fields -> Nat]
      BY <3>3 DEF Jobs
    <3> QED
      BY <1>2, <2>2, <3>1, <3>2, <3>4, <3>5 DEF Told
  <2> QED
    BY <2>1, <2>2
<1>9. ReportsNow' = ReportsNow
  BY <1>7, <1>8 DEF ReportsNow
<1> QED
  BY <1>4, <1>5, <1>6, <1>9

\* The other steps do nothing with the statistics.
LEMMA OtherStutters ==
    ASSUME CaptureAssumption, Basics,
           AnalyzePacket \/ Callback \/ UNCHANGED vars
    PROVE  UNCHANGED <<log, CountBegun, CountsNow, ReportsNow>>
<1>1. UNCHANGED counting /\ log' = log
  BY DEF AnalyzePacket, Callback, vars
<1>2. ReportsNow' = ReportsNow
  BY <1>1, ToldStays DEF counting
<1>3. CountsNow' = CountsNow
  BY <1>1 DEF counting, CountsNow, Settled, Frame
<1>4. CountBegun' = CountBegun
  BY <1>1 DEF CountBegun, AnalyzePacket, Callback,
              counting, vars, Goes, Basics, MutexHeld
<1> QED
  BY <1>1, <1>2, <1>3, <1>4

\* The statistics implement the atomic ones: to count a packet, to reset and to
\* read all five fields each take effect at one instant, for any number of
\* readers, and every packet is counted once.
THEOREM StatisticsImplementAtomic == Spec => StatisticsAreAtomic
<1>1. ASSUME CaptureAssumption, Init
      PROVE  Statistics!Init
  <2>1. \A field \in Fields : Settled(field) = 0
    BY <1>1 DEF Init, Settled, Zero, Fields
  <2>2. \A r \in Readers : Told(r) = Idle
    BY <1>1 DEF Init, Told, Idle, Threads
  <2>3. CountBegun = TRUE /\ log = <<>>
    BY <1>1 DEF Init, CountBegun
  <2> QED
    BY <2>1, <2>2, <2>3 DEF Statistics!Init, Statistics!Zeros
<1>2. ASSUME CaptureAssumption, Basics, [Next]_vars
      PROVE  [Statistics!Next]_(Statistics!vars)
  <2> USE <1>2
  <2>1. ASSUME NEW p \in Packets, Capture(p)
        PROVE  Statistics!Next
    BY <2>1, CaptureMaps DEF Statistics!Next
  <2>2. CASE ProcessPacket
    BY <2>2, ProcessMaps DEF Statistics!Next
  <2>3. ASSUME NEW r \in Readers, GetStatistics(r)
        PROVE  Statistics!Next
    BY <2>3, GetMaps DEF Statistics!Next
  <2>4. ASSUME NEW r \in Readers, ResetStatistics(r)
        PROVE  Statistics!Next
    BY <2>4, ResetMaps DEF Statistics!Next
  <2>5. ASSUME UNCHANGED <<log, CountBegun, CountsNow, ReportsNow>>
        PROVE  UNCHANGED Statistics!vars
    BY <2>5 DEF Statistics!vars, CountsNow, ReportsNow
  <2>6. ASSUME NEW t \in Threads, End(t)
        PROVE  [Statistics!Next]_(Statistics!vars)
    BY <2>5, <2>6, EndMaps DEF Statistics!Next
  <2>7. CASE Count \/ \E r \in Readers : Get(r) \/ Reset(r)
    BY <2>5, <2>7, FieldStutters
  <2>8. CASE AnalyzePacket \/ Callback \/ UNCHANGED vars
    BY <2>5, <2>8, OtherStutters
  <2> QED
    BY <2>1, <2>2, <2>3, <2>4, <2>6, <2>7, <2>8 DEF Next
<1>3. Spec => Statistics!Spec
  BY <1>1, <1>2, BasicsInvariant, CaptureAssumption, PTL DEF Spec, Statistics!Spec
<1> QED
  BY <1>3 DEF StatisticsAreAtomic

-----------------------------------------------------------------------------
(* What is counted is what was captured since the last reset.              *)

\* What the packets since the last reset add to a field.
Due(field) == Sum([i \in since |-> Adds(log[i], field)], since)

\* Every field will be what is due, once the running job has ended.
NoneMissed == \A field \in Fields : Settled(field) = Due(field)

\* The packets since the last reset are finitely many, and add naturals.
LEMMA SinceFinite ==
    ASSUME CaptureAssumption, Basics
    PROVE  /\ IsFiniteSet(since)
           /\ \A i \in since : log[i] \in Packets
           /\ \A i \in since, field \in Fields : Adds(log[i], field) \in Nat
<1>1. IsFiniteSet(1..Len(log)) /\ since \in SUBSET (1..Len(log))
  BY FS_Interval DEF Basics, Types
<1>2. IsFiniteSet(since)
  BY <1>1, FS_Subset
<1>3. \A i \in since : log[i] \in Packets
  BY <1>1 DEF Basics, Types
<1> QED
  BY <1>2, <1>3, AddsType

\* A packet that is counted becomes due, a reset takes all that were due, and no
\* other step changes either side.
LEMMA NoneMissedCorrect ==
    ASSUME CaptureAssumption, Basics, NoneMissed, [Next]_vars
    PROVE  NoneMissed'
<1> SUFFICES ASSUME NEW field \in Fields
             PROVE  Settled(field)' = Due(field)'
  BY DEF NoneMissed
<1> DEFINE f == [i \in since |-> Adds(log[i], field)]
<1>1. /\ IsFiniteSet(since)
      /\ \A i \in since : f[i] \in Nat
  BY SinceFinite
<1>2. CASE ProcessPacket
  <2> DEFINE k == Len(log)
             e == [i \in since \cup {k} |-> Adds(log[i], field)]
  <2>1. since' = since \cup {k} /\ log' = log /\ k \notin since
    <3>1. job[Capturer] = Idle /\ at = "count"
      BY <1>2 DEF ProcessPacket, Begin
    <3> QED
      BY <1>2, <3>1 DEF ProcessPacket, elsewhere, Basics, NotYetCounted
  <2>2. Frame \in Packets
    BY <1>2 DEF ProcessPacket, Basics, WorksOnLast, Types, Frame
  <2>3. e[k] = Adds(Frame, field) /\ e[k] \in Nat
    BY <2>2, AddsType DEF Frame
  <2>4. \A i \in since : e[i] = f[i]
    OBVIOUS
  <2>5. Due(field)' = Sum(e, since \cup {k})
    BY <2>1 DEF Due
  <2>6. Sum(e, since \cup {k}) = Sum(e, since) + e[k]
    <3>1. \A i \in since \cup {k} : e[i] \in Nat
      BY <1>1, <2>3, <2>4
    <3> HIDE DEF e, f, k
    <3> QED
      BY <1>1, <2>1, <3>1, SumWith
  <2>7. Sum(e, since) = Sum(f, since)
    <3>1. SameOn(since, f, e)
      BY <1>1, <2>4 DEF SameOn
    <3> HIDE DEF e, f, k
    <3> QED
      BY <1>1, <3>1, SumSame
  <2>8. Settled(field)' = Settled(field) + Adds(Frame, field)
    BY <1>2, SettledByProcess
  <2>9. Settled(field) = Sum(f, since)
    BY DEF NoneMissed, Due
  <2> HIDE DEF e, f, k
  <2> QED
    BY <2>3, <2>5, <2>6, <2>7, <2>8, <2>9
<1>3. ASSUME NEW r \in Readers, ResetStatistics(r)
      PROVE  Settled(field)' = Due(field)'
  <2>1. since' = {}
    BY <1>3 DEF ResetStatistics
  <2>2. Due(field)' = 0
    BY <2>1, SumEmpty DEF Due
  <2> QED
    BY <1>3, <2>2, SettledByReset
<1>4. CASE ~ ProcessPacket /\ \A r \in Readers : ~ ResetStatistics(r)
  <2>1. since' = since
    BY <1>4
    DEF Next, vars, Capture, AnalyzePacket,
        Callback, GetStatistics, Count, Get, Reset, End, Advance, counting
  <2>2. \A i \in since : log'[i] = log[i]
    <3>1. CASE \E p \in Packets : Capture(p)
      BY <3>1 DEF Capture, Basics, Types
    <3>2. CASE ~ \E p \in Packets : Capture(p)
      BY <1>4, <3>2
      DEF Next, vars, AnalyzePacket, Callback,
          GetStatistics, Count, Get, Reset, End, Advance, elsewhere
    <3> QED
      BY <3>1, <3>2
  <2> DEFINE e == [i \in since |-> Adds(log'[i], field)]
  <2>3. SameOn(since, f, e)
    BY <1>1, <2>2 DEF SameOn
  <2>4. Sum(f, since) = Sum(e, since)
    <3> HIDE DEF e, f
    <3> QED
      BY <1>1, <2>3, SumSame
  <2>5. Due(field)' = Due(field)
    BY <2>1, <2>4 DEF Due
  <2>6. Settled(field)' = Settled(field)
    BY <1>4, SettledStays
  <2> QED
    BY <2>5, <2>6 DEF NoneMissed
<1> QED
  BY <1>2, <1>3, <1>4

\* With the mutex free, no packet is counted half before a reset and half after.
THEOREM CountsAreSinceReset == Spec => []CountedSinceReset
<1> DEFINE I == Basics /\ NoneMissed
<1>1. ASSUME CaptureAssumption, Init
      PROVE  I
  <2>1. Basics
    BY <1>1, BasicsInit
  <2>2. \A field \in Fields : Settled(field) = 0
    BY <1>1 DEF Init, Settled, Zero, Fields
  <2>3. \A field \in Fields : Due(field) = 0
    BY <1>1, SumEmpty DEF Init, Due
  <2> QED
    BY <2>1, <2>2, <2>3 DEF NoneMissed
<1>2. ASSUME CaptureAssumption, I, [Next]_vars
      PROVE  I'
  BY <1>2, BasicsCorrect, NoneMissedCorrect
<1>3. ASSUME CaptureAssumption, I
      PROVE  CountedSinceReset
  <2> SUFFICES ASSUME stats_mutex_ = Nobody, NEW field \in DOMAIN statistics_
               PROVE  statistics_[field] =
                        MapThenSumSet(LAMBDA i : Adds(log[i], field), since)
    BY DEF CountedSinceReset
  <2>1. field \in Fields
    BY <1>3 DEF Basics, Types
  <2>2. statistics_[field] = Due(field)
    BY <1>3, <2>1 DEF NoneMissed, Settled
  <2>3. IsFiniteSet(since) /\ \A i \in since : Adds(log[i], field) \in Nat
    BY <1>3, <2>1, SinceFinite
  <2>4. MapThenSumSet(LAMBDA i : Adds(log[i], field), since)
          = Sum([i \in since |-> Adds(log[i], field)], since)
    BY <2>3, AddedSum
  <2> QED
    BY <2>2, <2>4 DEF Due
<1> HIDE DEF I
<1> QED
  BY <1>1, <1>2, <1>3, CaptureAssumption, PTL DEF Spec

-----------------------------------------------------------------------------
(* The counters of the callbacks, which wrap.                              *)

\* m is n but for so many times d.
ButFor(m, n, d) == \E q \in Int : m = n + q * d

\* A number is itself.
LEMMA ButForNone ==
    ASSUME NEW d \in Nat \ {0}, NEW n \in Int
    PROVE  ButFor(n, n, d)
<1>1. n = n + 0 * d
  OBVIOUS
<1> QED
  BY <1>1 DEF ButFor

\* What is left of a number that wraps.
LEMMA Division ==
    ASSUME NEW d \in Nat \ {0}, NEW n \in Int, NEW left, left = n % d
    PROVE  left \in Nat /\ left < d /\ ButFor(n, left, d)
<1>1. n = (n % d) + (n \div d) * d /\ n \div d \in Int /\ n % d \in Nat /\ n % d < d
  OBVIOUS
<1> QED
  BY <1>1 DEF ButFor

\* The difference of two such numbers leaves nothing.
LEMMA NothingLeft ==
    ASSUME NEW d \in Nat \ {0}, NEW m \in Int, NEW n \in Int, ButFor(m, n, d)
    PROVE  (m - n) % d = 0
<1>1. PICK q \in Int : m = n + q * d
  BY DEF ButFor
<1> DEFINE r == q * d
<1>2. r \in Int /\ r % d = 0 /\ m = n + r
  BY <1>1
<1> HIDE DEF r
<1>3. m - n = r
  BY <1>2
<1> QED
  BY <1>2, <1>3

\* Whole wraps of a total are whole wraps of a connection's counter.
LEMMA ButForSquare ==
    ASSUME NEW d \in Nat \ {0}, NEW square, square = d * d,
           NEW m \in Int, NEW n \in Int, ButFor(m, n, square)
    PROVE  ButFor(m, n, d)
<1>1. PICK q \in Int : m = n + q * (d * d)
  BY DEF ButFor
<1>2. q * (d * d) = (q * d) * d /\ q * d \in Int
  OBVIOUS
<1> QED
  BY <1>1, <1>2 DEF ButFor

\* Such numbers below d are equal.
LEMMA SameBelow ==
    ASSUME NEW d \in Nat \ {0}, NEW m \in Nat, NEW n \in Nat, m < d, n < d,
           ButFor(m, n, d)
    PROVE  m = n
<1>1. PICK q \in Int : m = n + q * d
  BY DEF ButFor
<1>2. (n + q * d) % d = n
  OBVIOUS
<1>3. m % d = m
  OBVIOUS
<1> QED
  BY <1>1, <1>2, <1>3

\* A counter takes n more, and may wrap: it still tells the sum but for wraps.
LEMMA WrapAgain ==
    ASSUME NEW d \in Nat \ {0}, NEW sum \in Nat, NEW counter \in Nat, NEW n \in Nat,
           ButFor(sum, counter, d), NEW next, next = (counter + n) % d,
           NEW more, more = sum + n
    PROVE  next \in Nat /\ next < d /\ ButFor(more, next, d)
<1>1. PICK p \in Int : sum = counter + p * d
  BY DEF ButFor
<1> DEFINE new == counter + n
<1>2. new \in Int /\ next = new % d
  OBVIOUS
<1>3. next \in Nat /\ next < d /\ ButFor(new, next, d)
  <2> HIDE DEF new
  <2> QED
    BY <1>2, Division
<1>4. PICK q \in Int : counter + n = next + q * d
  BY <1>3 DEF ButFor
<1> DEFINE x == p * d
           y == q * d
<1>5. x \in Int /\ y \in Int /\ (p + q) * d = x + y /\ p + q \in Int
  OBVIOUS
<1>6. more = next + (x + y)
  <2>1. sum = counter + x /\ counter + n = next + y
    BY <1>1, <1>4
  <2> HIDE DEF x, y
  <2> QED
    BY <2>1, <1>3, <1>5
<1>7. more = next + (p + q) * d
  BY <1>5, <1>6
<1> QED
  BY <1>3, <1>5, <1>7 DEF ButFor

\* A total and one of the counters that make it up take n more, and may wrap.
LEMMA BothWrap ==
    ASSUME NEW d \in Nat \ {0}, NEW total \in Nat, NEW total2 \in Nat,
           NEW counter \in Nat, NEW counter2 \in Nat, NEW rest \in Nat, NEW n \in Nat,
           ButFor(total, counter + rest, d),
           ButFor(total + n, total2, d), ButFor(counter + n, counter2, d)
    PROVE  ButFor(total2, counter2 + rest, d)
<1>1. PICK p \in Int : total = (counter + rest) + p * d
  BY DEF ButFor
<1>2. PICK q \in Int : total + n = total2 + q * d
  BY DEF ButFor
<1>3. PICK r \in Int : counter + n = counter2 + r * d
  BY DEF ButFor
<1> DEFINE x == p * d
           y == q * d
           z == r * d
<1>4. /\ x \in Int /\ y \in Int /\ z \in Int
      /\ (p + r - q) * d = x + z - y /\ p + r - q \in Int
  OBVIOUS
<1>5. total2 = (counter2 + rest) + (x + z - y)
  <2>1. /\ total = (counter + rest) + x /\ total + n = total2 + y
        /\ counter + n = counter2 + z
    BY <1>1, <1>2, <1>3
  <2> HIDE DEF x, y, z
  <2> QED
    BY <2>1, <1>4
<1>6. total2 = (counter2 + rest) + (p + r - q) * d
  BY <1>4, <1>5
<1> QED
  BY <1>4, <1>6 DEF ButFor

\* Where a connection's counter wraps, and where a total does.
W == 2 ^ CounterBits

Limit == W * W

\* The counters wrap at these.
LEMMA Widths ==
    ASSUME CaptureAssumption
    PROVE  /\ W \in Nat \ {0} /\ Limit \in Nat \ {0} /\ Limit = W * W
           /\ 2 ^ (2 * CounterBits) = Limit
           /\ \A n : Counter(n) = n % W /\ Total(n) = n % (Limit)
<1>1. \A a \in Nat \ {0} : a * a \in Nat \ {0}
  OBVIOUS
<1> QED
  BY <1>1 DEF CaptureAssumption, W, Limit, Counter, Total

-----------------------------------------------------------------------------

\* The packets from these clients that went through the callbacks ...
Passed(clients) ==
    {i \in 1..Len(log) : /\ log[i].result = "SUCCESS"
                         /\ log[i].client \in clients
                         /\ i = Len(log) => at = "wait"}

\* ... and their sizes.
Sizes(clients) == [i \in Passed(clients) |-> log[i].size]

\* The packets that passed are finitely many, and their sizes naturals.
LEMMA PassedFinite ==
    ASSUME CaptureAssumption, Basics, NEW clients
    PROVE  /\ IsFiniteSet(Passed(clients))
           /\ \A i \in Passed(clients) : log[i].size \in Nat
           /\ \A i \in Passed(clients) :
                Sizes(clients)[i] = log[i].size /\ Sizes(clients)[i] \in Nat
<1>1. IsFiniteSet(1..Len(log)) /\ Passed(clients) \in SUBSET (1..Len(log))
  BY FS_Interval DEF Basics, Types, Passed
<1>2. IsFiniteSet(Passed(clients))
  BY <1>1, FS_Subset
<1>3. \A i \in Passed(clients) : log[i].size \in Nat
  BY <1>1, PacketsAre DEF Basics, Types
<1> QED
  BY <1>2, <1>3 DEF Sizes

\* The bytes of these packets.
Passing(clients) == Sum(Sizes(clients), Passed(clients))

\* The model's sum of bytes is that of these sizes.
LEMMA BytesPassed ==
    ASSUME CaptureAssumption, Basics, NEW clients
    PROVE  /\ Bytes(clients) = Passing(clients)
           /\ Passing(clients) \in Nat
<1> DEFINE S == Passed(clients)
           f == Sizes(clients)
<1>1. IsFiniteSet(S) /\ (\A i \in S : log[i].size \in Nat) /\ \A i \in S : f[i] \in Nat
  BY PassedFinite
<1>2. Bytes(clients) = MapThenSumSet(LAMBDA i : log[i].size, S)
  BY DEF Bytes, Passed
<1>3. MapThenSumSet(LAMBDA i : log[i].size, S) = Sum([i \in S |-> log[i].size], S)
  <2> HIDE DEF S, f
  <2> QED
    BY <1>1, SizeSum
<1>4. Sum(f, S) \in Nat
  <2> HIDE DEF S, f
  <2> QED
    BY <1>1, SumType
<1> QED
  BY <1>2, <1>3, <1>4 DEF Sizes, Passing

\* No step but the callbacks' takes a packet through them.
LEMMA PassedStays ==
    ASSUME CaptureAssumption, Basics, [Next]_vars, ~ Callback, NEW clients
    PROVE  /\ Passed(clients)' = Passed(clients)
           /\ \A i \in Passed(clients) : log'[i] = log[i]
<1>1. ASSUME log' = log, at' = at
      PROVE  /\ Passed(clients)' = Passed(clients)
             /\ \A i \in Passed(clients) : log'[i] = log[i]
  BY <1>1 DEF Passed
<1>2. ASSUME NEW p \in Packets, Capture(p)
      PROVE  /\ Passed(clients)' = Passed(clients)
             /\ \A i \in Passed(clients) : log'[i] = log[i]
  <2>1. /\ Len(log') = Len(log) + 1 /\ Len(log) \in Nat
        /\ \A i \in 1..Len(log) : log'[i] = log[i]
        /\ at = "wait" /\ at' = "analyze"
    BY <1>2 DEF Capture, Goes, Basics, Types
  <2>2. \A i : i \in Passed(clients)' <=> i \in Passed(clients)
    <3>1. \A i \in 1..Len(log') : i = Len(log') \/ i \in 1..Len(log)
      BY <2>1
    <3>2. \A i \in 1..Len(log) : i # Len(log') /\ i \in 1..Len(log')
      BY <2>1
    <3> QED
      BY <2>1, <3>1, <3>2 DEF Passed
  <2> QED
    BY <2>1, <2>2 DEF Passed
<1>3. CASE AnalyzePacket
  <2>1. log' = log /\ at # "wait" /\ at' # "wait"
    BY <1>3 DEF AnalyzePacket, Goes
  <2> QED
    BY <2>1 DEF Passed
<1>4. ASSUME NEW t \in Threads, End(t)
      PROVE  /\ Passed(clients)' = Passed(clients)
             /\ \A i \in Passed(clients) : log'[i] = log[i]
  <2>1. log' = log
    BY <1>4 DEF End, elsewhere
  <2>2. CASE t # Capturer
    BY <1>1, <1>4, <2>1, <2>2 DEF End
  <2>3. CASE t = Capturer
    <3>1. at = "count"
      BY <1>4, <2>3, Ended DEF Basics, MutexHeld
    <3>2. \/ at' = "callback"
          \/ at' = "wait" /\ log[Len(log)].result # "SUCCESS"
      BY <1>4, <2>3 DEF End, Frame
    <3> QED
      BY <2>1, <3>1, <3>2 DEF Passed
  <2> QED
    BY <2>2, <2>3
<1> QED
  BY <1>1, <1>2, <1>3, <1>4
  DEF Next, vars, ProcessPacket, Count,
      GetStatistics, ResetStatistics, Get, Reset, Advance, elsewhere

\* So no step but theirs changes the bytes.
LEMMA PassingStays ==
    ASSUME CaptureAssumption, Basics, [Next]_vars, ~ Callback, NEW clients
    PROVE  Passing(clients)' = Passing(clients)
<1> DEFINE S == Passed(clients)
           f == Sizes(clients)
           e == [i \in S |-> log'[i].size]
<1>1. Passing(clients)' = Sum(e, S)
  BY PassedStays DEF Passing, Sizes
<1>2. SameOn(S, f, e) /\ IsFiniteSet(S)
  BY PassedStays, PassedFinite DEF SameOn, Sizes
<1>3. Sum(f, S) = Sum(e, S)
  <2> HIDE DEF S, f, e
  <2> QED
    BY <1>2, SumSame
<1> QED
  BY <1>1, <1>3 DEF Passing

\* The callbacks take the packet they are told of to its client's.
LEMMA PassingByCallback ==
    ASSUME CaptureAssumption, Basics, Callback, NEW clients
    PROVE  /\ info.client \in Clients /\ info.size \in Nat
           /\ info.client \notin clients => Passing(clients)' = Passing(clients)
           /\ info.client \in clients =>
                Passing(clients)' = Passing(clients) + info.size
<1> DEFINE k == Len(log)
           S == Passed(clients)
           f == Sizes(clients)
           e == [i \in S \cup {k} |-> log[i].size]
<1>1. /\ at = "callback" /\ at' = "wait" /\ log' = log
      /\ k > 0 /\ k \in 1..Len(log) /\ log[k] \in Packets
      /\ log[k].result = "SUCCESS"
      /\ info.client = log[k].client /\ info.size = log[k].size
  BY DEF Callback, Goes, Basics, WorksOnLast, Types, Frame, InfoOf
<1>2. info.client \in Clients /\ info.size \in Nat
  BY <1>1, PacketsAre
<1>3. k \notin S
  BY <1>1 DEF Passed
<1>4. ASSUME info.client \notin clients
      PROVE  Passing(clients)' = Passing(clients)
  <2>1. Passed(clients)' = S
    BY <1>1, <1>4 DEF Passed
  <2> QED
    BY <1>1, <2>1 DEF Passing, Sizes
<1>5. ASSUME info.client \in clients
      PROVE  Passing(clients)' = Passing(clients) + info.size
  <2>1. Passed(clients)' = S \cup {k}
    BY <1>1, <1>5 DEF Passed
  <2>2. Passing(clients)' = Sum(e, S \cup {k})
    BY <1>1, <2>1 DEF Passing, Sizes
  <2>3. /\ IsFiniteSet(S) /\ SameOn(S, f, e)
        /\ \A i \in S \cup {k} : e[i] \in Nat
    BY <1>1, <1>2, PassedFinite DEF SameOn, Sizes
  <2>4. Sum(e, S \cup {k}) = Sum(e, S) + e[k] /\ Sum(f, S) = Sum(e, S)
    <3> HIDE DEF k, S, f, e
    <3> QED
      BY <1>3, <2>3, SumWith, SumSame
  <2>5. e[k] = info.size
    BY <1>1
  <2> HIDE DEF e
  <2> QED
    BY <2>2, <2>4, <2>5 DEF Passing
<1> QED
  BY <1>2, <1>4, <1>5

-----------------------------------------------------------------------------

\* What the counters leave out is so many wraps of theirs.
Wraps ==
    /\ \A c \in Clients : ButFor(Passing({c}), connections[c], W)
    /\ totals < Limit /\ ButFor(Passing(Clients), totals, Limit)
    /\ ButFor(totals, Sum(connections, Clients), W)

\* The callbacks add a packet to its connection, to the total and to the bytes;
\* where a counter wraps, it leaves out one more wrap.
LEMMA WrapsCorrect ==
    ASSUME CaptureAssumption, Basics, Wraps, [Next]_vars
    PROVE  Wraps'
<1> USE DEF W, Limit
<1>1. CASE ~ Callback
  <2>1. connections' = connections /\ totals' = totals
    BY <1>1
    DEF Next, vars, Capture, AnalyzePacket,
        ProcessPacket, Count, GetStatistics, ResetStatistics, Get, Reset, End,
        Advance, elsewhere, traffic
  <2>2. \A clients : Passing(clients)' = Passing(clients)
    BY <1>1, PassingStays
  <2> QED
    BY <2>1, <2>2 DEF Wraps
<1> HIDE DEF W, Limit
<1>2. CASE Callback
  <2>1. PICK c \in Clients, n \in Nat : c = info.client /\ n = info.size
    BY <1>2, PassingByCallback
  <2> DEFINE more == connections'[c]
  <2>2. /\ W \in Nat \ {0} /\ Limit \in Nat \ {0}
        /\ connections \in [Clients -> Nat] /\ totals \in Nat
        /\ connections[c] \in Nat
    BY <2>1, Widths DEF Basics, Types
  <2>3. /\ connections' = [connections EXCEPT ![c] = (connections[c] + n) % W]
        /\ totals' = (totals + n) % Limit
        /\ more = (connections[c] + n) % W
    BY <1>2, <2>1, <2>2, Widths DEF Callback
  <2>4. /\ more \in Nat /\ ButFor(Passing({c})', more, W)
        /\ totals' \in Nat /\ totals' < Limit
        /\ ButFor(Passing(Clients)', totals', Limit)
    <3>1. /\ Passing({c})' = Passing({c}) + n /\ Passing({c}) \in Nat
          /\ Passing(Clients)' = Passing(Clients) + n /\ Passing(Clients) \in Nat
      <4>1. info.client \in {c} /\ info.client \in Clients
        BY <2>1
      <4>2. /\ Passing({c})' = Passing({c}) + info.size
            /\ Passing(Clients)' = Passing(Clients) + info.size
        BY <1>2, <4>1, PassingByCallback
      <4> QED
        BY <2>1, <4>2, BytesPassed
    <3>2. /\ ButFor(Passing({c}), connections[c], W)
          /\ ButFor(Passing(Clients), totals, Limit)
      BY <2>1 DEF Wraps
    <3> HIDE DEF more
    <3>3. more \in Nat /\ ButFor(Passing({c})', more, W)
      <4> DEFINE before == Passing({c})
                 after == Passing({c})'
      <4>1. before \in Nat /\ after = before + n /\ ButFor(before, connections[c], W)
        BY <3>1, <3>2
      <4> HIDE DEF before, after
      <4>2. more \in Nat /\ ButFor(after, more, W)
        BY <2>2, <2>3, <4>1, WrapAgain
      <4> QED
        BY <4>2 DEF after
    <3>4. totals' \in Nat /\ totals' < Limit /\ ButFor(Passing(Clients)', totals', Limit)
      BY <2>1, <2>2, <2>3, <3>1, <3>2, WrapAgain
    <3> QED
      BY <3>3, <3>4
  <2>5. \A d \in Clients : ButFor(Passing({d})', connections'[d], W)
    <3> SUFFICES ASSUME NEW d \in Clients
                 PROVE  ButFor(Passing({d})', connections'[d], W)
      OBVIOUS
    <3>1. CASE d = c
      BY <2>4, <3>1
    <3>2. CASE d # c
      <4>1. Passing({d})' = Passing({d})
        BY <1>2, <2>1, <3>2, PassingByCallback
      <4>2. connections'[d] = connections[d]
        BY <2>2, <2>3, <3>2
      <4> QED
        BY <4>1, <4>2 DEF Wraps
    <3> QED
      BY <3>1, <3>2
  <2>6. ButFor(totals', Sum(connections', Clients), W)
    <3> DEFINE rest == Sum(connections, Clients \ {c})
    <3>1. /\ IsFiniteSet(Clients) /\ IsFiniteSet(Clients \ {c})
          /\ \A d \in Clients : connections[d] \in Nat /\ connections'[d] \in Nat
      <4>1. connections' \in [Clients -> Nat]
        BY <2>2, <2>3, <2>4
      <4> QED
        BY <2>2, <4>1, FS_RemoveElement DEF CaptureAssumption
    <3>2. Sum(connections, Clients) = connections[c] + rest
      BY <2>1, <3>1, SumWithout
    <3>3. Sum(connections', Clients) = more + Sum(connections', Clients \ {c})
      BY <2>1, <3>1, SumWithout
    <3>4. Sum(connections', Clients \ {c}) = rest
      <4>1. SameOn(Clients \ {c}, connections, connections')
        BY <2>2, <2>3, <3>1 DEF SameOn
      <4> QED
        BY <3>1, <4>1, SumSame
    <3>5. rest \in Nat
      BY <2>1, <3>1, SumType
    <3>6. ButFor(totals, connections[c] + rest, W)
      BY <3>2 DEF Wraps
    <3> DEFINE new == totals + n
               newer == connections[c] + n
    <3>7. new \in Nat /\ newer \in Nat /\ totals' = new % Limit /\ more = newer % W
      BY <2>1, <2>2, <2>3
    <3>8. ButFor(new, totals', W)
      <4> HIDE DEF new
      <4>1. ButFor(new, totals', Limit)
        BY <2>2, <3>7, Division
      <4>2. Limit = W * W
        BY Widths
      <4>3. new \in Int /\ totals' \in Int /\ W \in Nat \ {0}
        BY <2>2, <2>4, <3>7
      <4> HIDE DEF more, rest, newer
      <4> QED
        BY <4>1, <4>2, <4>3, ButForSquare
    <3>9. ButFor(newer, more, W)
      <4> HIDE DEF newer, more
      <4> QED
        BY <2>2, <3>7, Division
    <3>10. ButFor(totals', more + rest, W)
      <4> HIDE DEF more, rest
      <4> QED
        BY <2>1, <2>2, <2>4, <3>5, <3>6, <3>8, <3>9, BothWrap
    <3> QED
      BY <3>3, <3>4, <3>10
  <2>7. W' = W /\ Limit' = Limit
    BY DEF W, Limit
  <2> QED
    BY <2>4, <2>5, <2>6, <2>7 DEF Wraps
<1> QED
  BY <1>1, <1>2

\* At first all counters are 0.
LEMMA WrapsInit ==
    ASSUME CaptureAssumption, Init
    PROVE  Wraps
<1>1. W \in Nat \ {0} /\ Limit \in Nat \ {0} /\ 0 < Limit
  <2>1. \A a \in Nat \ {0} : 0 < a
    OBVIOUS
  <2> QED
    BY <2>1, Widths
<1>2. \A clients : Passing(clients) = 0
  <2>1. \A clients : Passed(clients) = {}
    BY DEF Init, Passed
  <2> QED
    BY <2>1, SumEmpty DEF Passing
<1>3. Sum(connections, Clients) = 0
  <2> DEFINE C == {T \in SUBSET Clients : Sum(connections, T) # 0}
  <2> SUFFICES ASSUME C # {} PROVE FALSE
    OBVIOUS
  <2>1. PICK T \in C : \A U \in SUBSET T : U # T => U \notin C
    <3>1. C \in SUBSET SUBSET Clients /\ IsFiniteSet(Clients)
      BY DEF CaptureAssumption
    <3> HIDE DEF C
    <3> QED
      BY <3>1, SmallestSet
  <2>2. T # {} /\ IsFiniteSet(T)
    BY <2>1, SumEmpty, FS_Subset DEF CaptureAssumption
  <2>3. PICK c \in T : TRUE
    BY <2>2
  <2>4. \A d \in T : connections[d] = 0
    BY <2>1 DEF Init
  <2>5. Sum(connections, T) = connections[c] + Sum(connections, T \ {c})
    BY <2>2, <2>4, SumWithout
  <2>6. Sum(connections, T \ {c}) = 0
    BY <2>1, <2>3
  <2> QED
    BY <2>1, <2>4, <2>5, <2>6
<1>4. ButFor(0, 0, W) /\ ButFor(0, 0, Limit)
  BY <1>1, ButForNone
<1> QED
  BY <1>1, <1>2, <1>3, <1>4 DEF Wraps, Init

\* A connection's counter and its total never differ by anything but whole wraps
\* of the counter.
THEOREM CountersKeepUp == Spec => []CountersAgree
<1> DEFINE I == Basics /\ Wraps
<1>1. ASSUME CaptureAssumption, Init
      PROVE  I
  BY <1>1, BasicsInit, WrapsInit
<1>2. ASSUME CaptureAssumption, I, [Next]_vars
      PROVE  I'
  BY <1>2, BasicsCorrect, WrapsCorrect
<1>3. ASSUME CaptureAssumption, I
      PROVE  CountersAgree
  <2>1. /\ W \in Nat \ {0} /\ Limit \in Nat \ {0}
        /\ connections \in [Clients -> Nat] /\ totals \in Nat
        /\ IsFiniteSet(Clients)
    BY <1>3, Widths DEF Basics, Types, CaptureAssumption
  <2>2. \A c \in Clients : (Bytes({c}) - connections[c]) % W = 0
    <3> SUFFICES ASSUME NEW c \in Clients
                 PROVE  (Bytes({c}) - connections[c]) % W = 0
      OBVIOUS
    <3>1. /\ Bytes({c}) \in Int /\ connections[c] \in Int
          /\ ButFor(Bytes({c}), connections[c], W)
      BY <1>3, <2>1, BytesPassed DEF Wraps
    <3> QED
      BY <2>1, <3>1, NothingLeft
  <2>3. Bytes(Clients) < Limit => totals = Bytes(Clients)
    <3>1. /\ Bytes(Clients) \in Nat /\ totals < Limit
          /\ ButFor(Bytes(Clients), totals, Limit)
      BY <1>3, <2>1, BytesPassed DEF Wraps
    <3> QED
      BY <2>1, <3>1, SameBelow
  <2>4. FoldFunction(+, 0, connections) = Sum(connections, Clients)
    BY <2>1, FunctionSum
  <2>5. (totals - Sum(connections, Clients)) % W = 0
    <3>1. Sum(connections, Clients) \in Nat
      BY <2>1, SumType
    <3>2. ButFor(totals, Sum(connections, Clients), W)
      BY <1>3 DEF Wraps
    <3> DEFINE sum == Sum(connections, Clients)
    <3>3. totals \in Int /\ sum \in Int /\ ButFor(totals, sum, W)
      BY <2>1, <3>1, <3>2
    <3> HIDE DEF I, sum
    <3>4. (totals - sum) % W = 0
      BY <2>1, <3>3, NothingLeft
    <3> QED
      BY <3>4 DEF sum
  <2>6. 2 ^ CounterBits = W /\ 2 ^ (2 * CounterBits) = Limit
    BY <1>3, Widths DEF W
  <2> QED
    BY <2>2, <2>3, <2>4, <2>5, <2>6 DEF CountersAgree
<1> HIDE DEF I
<1> QED
  BY <1>1, <1>2, <1>3, CaptureAssumption, PTL DEF Spec

=============================================================================

----------------------------- MODULE SumTheorems -----------------------------
(***************************************************************************)
(* Sums over finite sets, as SumFunctionOnSet of the module Functions      *)
(* defines them: one element at a time, in an order that CHOOSE picks.     *)
(* The order does not matter.                                              *)
(*                                                                         *)
(* No prover instantiates the operator parameter of the library's          *)
(* induction theorems; the inductions are done by smallest counterexamples.*)
(***************************************************************************)
EXTENDS Integers, FiniteSets, Functions, FiniteSetTheorems, TLAPS

(* Every set of subsets of a finite set has a smallest member.              *)
LEMMA SmallestMember ==
  ASSUME NEW D, IsFiniteSet(D), NEW F \in SUBSET (SUBSET D), F # {}
  PROVE  \E A \in F : \A B \in F : B \subseteq A => B = A
<1>1. \A A \in F : A \in FiniteSubsetsOf(D)
  BY FS_Subset DEF FiniteSubsetsOf
<1>2. PICK A \in F : \A B \in F : <<B, A>> \notin StrictSubsetOrdering(D)
  BY <1>1, FS_StrictSubsetOrderingWellFounded, WFMin
<1>3. ASSUME NEW B \in F, B \subseteq A PROVE B = A
  BY <1>2, <1>3 DEF StrictSubsetOrdering
<1> QED
  BY <1>3

Chosen(S) == CHOOSE x \in S : TRUE

(* g sums f over every subset of S, in the order of CHOOSE. *)
IsSum(g, f, S) ==
  g = [T \in SUBSET S |-> IF T = {} THEN 0 ELSE f[Chosen(T)] + g[T \ {Chosen(T)}]]
Sums(g, f, S) ==
  \A T \in SUBSET S : g[T] = IF T = {} THEN 0 ELSE f[Chosen(T)] + g[T \ {Chosen(T)}]

LEMMA SumsAgree ==
  ASSUME NEW D, IsFiniteSet(D), NEW S \in SUBSET D, NEW R \in SUBSET D,
         NEW f, NEW g, NEW h, Sums(g, f, S), Sums(h, f, R),
         NEW T, T \subseteq S, T \subseteq R
  PROVE  g[T] = h[T]
<1> DEFINE F == {A \in SUBSET D : A \subseteq S /\ A \subseteq R /\ g[A] # h[A]}
<1> SUFFICES ASSUME F # {} PROVE FALSE
  OBVIOUS
<1>1. PICK A \in F : \A B \in F : B \subseteq A => B = A
  <2>1. F \in SUBSET (SUBSET D)
    OBVIOUS
  <2> HIDE DEF F
  <2> QED
    BY <2>1, SmallestMember
<1>2. /\ g[A] = IF A = {} THEN 0 ELSE f[Chosen(A)] + g[A \ {Chosen(A)}]
      /\ h[A] = IF A = {} THEN 0 ELSE f[Chosen(A)] + h[A \ {Chosen(A)}]
  BY <1>1 DEF Sums
<1>3. A # {}
  BY <1>1, <1>2
<1>4. Chosen(A) \in A
  BY <1>3 DEF Chosen
<1>5. g[A \ {Chosen(A)}] = h[A \ {Chosen(A)}]
  BY <1>1, <1>4
<1> QED
  BY <1>1, <1>2, <1>5

(* The recursive equation has a solution. *)
LEMMA SumsExist ==
  ASSUME NEW D, IsFiniteSet(D), NEW f, NEW S \in SUBSET D
  PROVE  \E g : IsSum(g, f, S)
<1> DEFINE F == {A \in SUBSET D : ~\E g : IsSum(g, f, A)}
<1> SUFFICES ASSUME F # {} PROVE FALSE
  OBVIOUS
<1>1. PICK A \in F : \A B \in F : B \subseteq A => B = A
  <2>1. F \in SUBSET (SUBSET D)
    OBVIOUS
  <2> HIDE DEF F
  <2> QED
    BY <2>1, SmallestMember
<1> DEFINE G(B) == CHOOSE g : IsSum(g, f, B)
           H(B) == G(B)[B]
           sum == [T \in SUBSET A |-> IF T = {} THEN 0 ELSE f[Chosen(T)] + H(T \ {Chosen(T)})]
<1>2. ASSUME NEW B \in SUBSET A, B # A PROVE Sums(G(B), f, B)
  <2>1. \E g : IsSum(g, f, B)
    BY <1>1, <1>2
  <2>2. IsSum(G(B), f, B)
    BY <2>1
  <2> HIDE DEF G
  <2> QED
    BY <2>2 DEF Sums, IsSum
<1>3. ASSUME NEW T \in SUBSET A, T # {} PROVE Chosen(T) \in T
  BY <1>3 DEF Chosen
<1>4. ASSUME NEW T \in SUBSET A, T # A PROVE sum[T] = H(T)
  <2>1. Sums(G(T), f, T)
    BY <1>2, <1>4
  <2>2. CASE T = {}
    <3>1. G(T)[T] = 0
      BY <2>1, <2>2 DEF Sums
    <3> QED
      BY <2>2, <3>1
  <2>3. CASE T # {}
    <3>1. Chosen(T) \in T
      BY <1>3, <2>3
    <3> DEFINE U == T \ {Chosen(T)}
    <3>2. U \in SUBSET A /\ U # A /\ U \subseteq T
      BY <3>1
    <3>3. Sums(G(U), f, U)
      BY <1>2, <3>2
    <3>4. G(T)[U] = G(U)[U]
      <4>1. T \in SUBSET D /\ U \in SUBSET D
        BY <1>1, <3>2
      <4> HIDE DEF G, U, F
      <4> QED
        BY <2>1, <3>2, <3>3, <4>1, SumsAgree
    <3>5. G(T)[T] = f[Chosen(T)] + G(T)[U]
      <4> HIDE DEF G
      <4> QED
        BY <2>1, <2>3 DEF Sums
    <3>6. sum[T] = f[Chosen(T)] + H(U)
      BY <2>3
    <3> QED
      BY <3>4, <3>5, <3>6
  <2> QED
    BY <2>2, <2>3
<1>5. ASSUME NEW T \in SUBSET A
      PROVE  sum[T] = IF T = {} THEN 0 ELSE f[Chosen(T)] + sum[T \ {Chosen(T)}]
  <2>1. CASE T = {}
    BY <2>1
  <2>2. CASE T # {}
    <3>1. Chosen(T) \in T
      BY <1>3, <2>2
    <3> DEFINE U == T \ {Chosen(T)}
    <3>2. U \in SUBSET A /\ U # A
      BY <3>1
    <3>3. sum[U] = H(U)
      BY <1>4, <3>2
    <3>4. sum[T] = f[Chosen(T)] + H(U)
      BY <2>2
    <3> HIDE DEF sum, H, U
    <3>5. sum[T] = f[Chosen(T)] + sum[U]
      BY <3>3, <3>4
    <3> QED
      BY <2>2, <3>5 DEF U
  <2> QED
    BY <2>1, <2>2
<1>6. sum = [T \in SUBSET A |-> sum[T]]
  <2> HIDE DEF H
  <2> QED
    OBVIOUS
<1>7. IsSum(sum, f, A)
  <2> HIDE DEF sum
  <2> QED
    BY <1>5, <1>6 DEF IsSum
<1> QED
  <2> HIDE DEF sum
  <2> QED
    BY <1>1, <1>7

LEMMA SumIsASum ==
  ASSUME NEW D, IsFiniteSet(D), NEW f, NEW S \in SUBSET D
  PROVE  \E g : Sums(g, f, S) /\ SumFunctionOnSet(f, S) = g[S]
<1> DEFINE g == CHOOSE g : g = [T \in SUBSET S |->
                     IF T = {} THEN 0 ELSE f[CHOOSE x \in T : TRUE] + g[T \ {CHOOSE x \in T : TRUE}]]
<1>1. SumFunctionOnSet(f, S) = g[S]
  BY Zenon DEF SumFunctionOnSet, FoldFunctionOnSet, MapThenFoldSet
<1>2. IsSum(g, f, S)
  <2>1. \E h : IsSum(h, f, S)
    BY SumsExist
  <2>2. g = CHOOSE h : IsSum(h, f, S)
    BY Zenon DEF IsSum, Chosen
  <2> HIDE DEF g
  <2> QED
    BY <2>1, <2>2, Zenon
<1> HIDE DEF g
<1>3. Sums(g, f, S)
  BY <1>2 DEF Sums, IsSum
<1> QED
  BY <1>1, <1>3

(* What SumFunctionOnSet says, one element at a time. *)
LEMMA SumStep ==
  ASSUME NEW D, IsFiniteSet(D), NEW f, NEW S \in SUBSET D
  PROVE  SumFunctionOnSet(f, S) =
           IF S = {} THEN 0 ELSE f[Chosen(S)] + SumFunctionOnSet(f, S \ {Chosen(S)})
<1>1. PICK g : Sums(g, f, S) /\ SumFunctionOnSet(f, S) = g[S]
  BY SumIsASum
<1>2. PICK T \in SUBSET D : T = S \ {Chosen(S)} /\ T \subseteq S
  OBVIOUS
<1>3. PICK h : Sums(h, f, T) /\ SumFunctionOnSet(f, T) = h[T]
  BY SumIsASum
<1>4. g[T] = h[T]
  BY <1>1, <1>2, <1>3, SumsAgree
<1> QED
  BY <1>1, <1>2, <1>3, <1>4 DEF Sums

LEMMA SumEmpty ==
  ASSUME NEW f
  PROVE  SumFunctionOnSet(f, {}) = 0
<1>1. IsFiniteSet({}) /\ {} \in SUBSET {}
  BY FS_EmptySet
<1> QED
  BY <1>1, SumStep

LEMMA SumType ==
  ASSUME NEW D, IsFiniteSet(D), NEW f \in [D -> Int], NEW S \in SUBSET D
  PROVE  SumFunctionOnSet(f, S) \in Int
<1> DEFINE F == {A \in SUBSET D : SumFunctionOnSet(f, A) \notin Int}
<1> SUFFICES ASSUME F # {} PROVE FALSE
  OBVIOUS
<1>1. PICK A \in F : \A B \in F : B \subseteq A => B = A
  <2>1. F \in SUBSET (SUBSET D)
    OBVIOUS
  <2> HIDE DEF F
  <2> QED
    BY <2>1, SmallestMember
<1>2. CASE A = {}
  BY <1>1, <1>2, SumEmpty
<1>3. CASE A # {}
  <2>1. Chosen(A) \in A
    BY <1>3 DEF Chosen
  <2>2. SumFunctionOnSet(f, A \ {Chosen(A)}) \in Int
    BY <1>1, <2>1
  <2>3. f[Chosen(A)] \in Int
    BY <1>1, <2>1
  <2>4. SumFunctionOnSet(f, A) = f[Chosen(A)] + SumFunctionOnSet(f, A \ {Chosen(A)})
    BY <1>1, <1>3, SumStep
  <2> QED
    BY <1>1, <2>2, <2>3, <2>4
<1> QED
  BY <1>2, <1>3

(* The order in which the elements are added does not matter. *)
LEMMA SumInsert ==
  ASSUME NEW D, IsFiniteSet(D), NEW f \in [D -> Int], NEW S \in SUBSET D, NEW a \in D, a \notin S
  PROVE  SumFunctionOnSet(f, S \cup {a}) = f[a] + SumFunctionOnSet(f, S)
<1> DEFINE Sum(A) == SumFunctionOnSet(f, A)
           F == {A \in SUBSET D : \E b \in D \ A : Sum(A \cup {b}) # f[b] + Sum(A)}
<1> SUFFICES ASSUME F # {} PROVE FALSE
  OBVIOUS
<1>1. PICK A \in F : \A B \in F : B \subseteq A => B = A
  <2>1. F \in SUBSET (SUBSET D)
    OBVIOUS
  <2> HIDE DEF F
  <2> QED
    BY <2>1, SmallestMember
<1>2. PICK b \in D \ A : Sum(A \cup {b}) # f[b] + Sum(A)
  BY <1>1
<1>3. PICK c : c = Chosen(A \cup {b})
  OBVIOUS
<1>4. c \in A \cup {b} /\ Sum(A \cup {b}) = f[c] + Sum((A \cup {b}) \ {c})
  <2>1. c \in A \cup {b}
    BY <1>3 DEF Chosen
  <2>2. A \cup {b} \in SUBSET D /\ A \cup {b} # {}
    BY <1>1, <1>2
  <2> HIDE DEF F
  <2>3. SumFunctionOnSet(f, A \cup {b}) = f[c] + SumFunctionOnSet(f, (A \cup {b}) \ {c})
    BY <1>3, <2>2, SumStep
  <2> QED
    BY <2>1, <2>3
<1>5. CASE c = b
  <2>1. (A \cup {b}) \ {c} = A
    BY <1>2, <1>5
  <2> QED
    BY <1>2, <1>4, <1>5, <2>1
<1>6. CASE c # b
  <2> DEFINE B == A \ {c}
  <2>1. B \in SUBSET D /\ B \subseteq A /\ B # A /\ c \in D \ B /\ b \in D \ B
    BY <1>1, <1>2, <1>4, <1>6
  <2>2. B \notin F
    <3> HIDE DEF B, F
    <3> QED
      BY <1>1, <2>1
  <2>3. (A \cup {b}) \ {c} = B \cup {b} /\ B \cup {c} = A
    BY <1>2, <1>4, <1>6
  <2> HIDE DEF B
  <2>4. Sum(B \cup {b}) = f[b] + Sum(B) /\ Sum(B \cup {c}) = f[c] + Sum(B)
    BY <2>1, <2>2
  <2>5. Sum(B) \in Int /\ f[b] \in Int /\ f[c] \in Int
    BY <2>1, SumType
  <2> HIDE DEF F, Sum
  <2>6. Sum(A \cup {b}) = f[c] + (f[b] + Sum(B)) /\ Sum(A) = f[c] + Sum(B)
    BY <1>4, <2>3, <2>4
  <2> QED
    BY <1>2, <2>5, <2>6
<1> QED
  BY <1>4, <1>5, <1>6

LEMMA SumOne ==
  ASSUME NEW D, IsFiniteSet(D), NEW f \in [D -> Int], NEW a \in D
  PROVE  SumFunctionOnSet(f, {a}) = f[a]
<1>1. {} \cup {a} = {a} /\ {} \in SUBSET D /\ a \notin {} /\ f[a] \in Int
  OBVIOUS
<1>2. SumFunctionOnSet(f, {} \cup {a}) = f[a] + SumFunctionOnSet(f, {})
  BY <1>1, SumInsert
<1> QED
  BY <1>1, <1>2, SumEmpty

(* The sum over two sets that have nothing in common. *)
LEMMA SumUnion ==
  ASSUME NEW D, IsFiniteSet(D), NEW f \in [D -> Int], NEW S \in SUBSET D, NEW R \in SUBSET D,
         S \cap R = {}
  PROVE  SumFunctionOnSet(f, S \cup R) = SumFunctionOnSet(f, S) + SumFunctionOnSet(f, R)
<1> DEFINE Sum(A) == SumFunctionOnSet(f, A)
           F == {A \in SUBSET D : S \cap A = {} /\ Sum(S \cup A) # Sum(S) + Sum(A)}
<1> SUFFICES ASSUME F # {} PROVE FALSE
  OBVIOUS
<1>1. PICK A \in F : \A B \in F : B \subseteq A => B = A
  <2>1. F \in SUBSET (SUBSET D)
    OBVIOUS
  <2> HIDE DEF F
  <2> QED
    BY <2>1, SmallestMember
<1>2. Sum(S) \in Int
  BY SumType
<1>3. CASE A = {}
  <2>1. Sum({}) = 0 /\ S \cup A = S
    BY <1>3, SumEmpty
  <2> HIDE DEF Sum
  <2> QED
    BY <1>1, <1>2, <1>3, <2>1
<1>4. CASE A # {}
  <2>1. PICK a \in A : TRUE
    BY <1>4
  <2> DEFINE B == A \ {a}
  <2>2. /\ B \in SUBSET D /\ B \subseteq A /\ B # A /\ S \cap B = {} /\ a \in D /\ a \notin B
        /\ S \cup B \in SUBSET D /\ a \notin S \cup B
        /\ B \cup {a} = A /\ (S \cup B) \cup {a} = S \cup A
    BY <1>1, <2>1
  <2> HIDE DEF B
  <2>3. B \notin F
    <3> HIDE DEF F
    <3> QED
      BY <1>1, <2>2
  <2>4. Sum(S \cup B) = Sum(S) + Sum(B)
    BY <2>2, <2>3
  <2> HIDE DEF F
  <2>5. Sum(B \cup {a}) = f[a] + Sum(B)
    BY <2>2, SumInsert
  <2>6. Sum((S \cup B) \cup {a}) = f[a] + Sum(S \cup B)
    BY <2>2, SumInsert
  <2>7. Sum(B) \in Int /\ f[a] \in Int
    BY <2>2, SumType
  <2>8. Sum(S \cup A) # Sum(S) + Sum(A)
    BY <1>1 DEF F
  <2> HIDE DEF Sum
  <2>9. Sum(A) = f[a] + Sum(B) /\ Sum(S \cup A) = f[a] + (Sum(S) + Sum(B))
    BY <2>2, <2>4, <2>5, <2>6
  <2> QED
    BY <1>2, <2>7, <2>8, <2>9
<1> QED
  BY <1>3, <1>4

(* The sum depends on the summands alone. *)
LEMMA SumSame ==
  ASSUME NEW S, IsFiniteSet(S), NEW f, NEW g, \A x \in S : f[x] = g[x]
  PROVE  SumFunctionOnSet(f, S) = SumFunctionOnSet(g, S)
<1> DEFINE F == {A \in SUBSET S : SumFunctionOnSet(f, A) # SumFunctionOnSet(g, A)}
<1> SUFFICES ASSUME F # {} PROVE FALSE
  OBVIOUS
<1>1. PICK A \in F : \A B \in F : B \subseteq A => B = A
  <2>1. F \in SUBSET (SUBSET S)
    OBVIOUS
  <2> HIDE DEF F
  <2> QED
    BY <2>1, SmallestMember
<1>2. A # {}
  BY <1>1, SumEmpty
<1>3. Chosen(A) \in A
  BY <1>2 DEF Chosen
<1>4. /\ SumFunctionOnSet(f, A) = f[Chosen(A)] + SumFunctionOnSet(f, A \ {Chosen(A)})
      /\ SumFunctionOnSet(g, A) = g[Chosen(A)] + SumFunctionOnSet(g, A \ {Chosen(A)})
  <2>1. A \in SUBSET S
    BY <1>1
  <2> QED
    BY <1>2, <2>1, SumStep
<1>5. SumFunctionOnSet(f, A \ {Chosen(A)}) = SumFunctionOnSet(g, A \ {Chosen(A)})
  BY <1>1, <1>3
<1>6. f[Chosen(A)] = g[Chosen(A)]
  BY <1>1, <1>3
<1> QED
  BY <1>1, <1>4, <1>5, <1>6
=============================================================================

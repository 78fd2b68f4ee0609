----------------------------- MODULE DataLemmas -----------------------------
(***************************************************************************)
(* What the proofs about sums, sequences and whole numbers rest on, stated *)
(* of no component's variables.                                            *)
(*                                                                         *)
(* The library defines a sum as a fold, a recursive function of the        *)
(* subsets.  That the recursion has a solution is proved by induction on   *)
(* their cardinality.  The induction is over a set (the cardinalities, or  *)
(* the subsets, for which the claim holds), so that each lemma is a plain  *)
(* first-order fact: a set of subsets with the empty one, and with every   *)
(* subset all of whose parts one element smaller are in it, holds them all.*)
(***************************************************************************)
EXTENDS Integers, Sequences, FiniteSets, Functions, FiniteSetsExt, FiniteSetTheorems,
        FunctionTheorems, SequenceTheorems, WellFoundedInduction, TLAPS

-----------------------------------------------------------------------------
(* Induction over finite sets, and sums                                     *)

\* A nonempty set of naturals has a least element.
LEMMA LeastElement ==
  ASSUME NEW T \in SUBSET Nat, T # {}
  PROVE  \E x \in T : \A y \in T : x <= y
<1>1. \E x \in T : \A y \in T : ~(<<y, x>> \in OpToRel(<, Nat))
  BY NatLessThanWellFounded, WFMin, Zenon
<1>2. ASSUME NEW x \in T, NEW y \in T, y < x
      PROVE  <<y, x>> \in OpToRel(<, Nat)
  BY <1>2 DEF OpToRel
<1>3. \E x \in T : \A y \in T : ~(y < x)
  BY <1>1, <1>2, Zenon
<1> QED
  BY <1>3

\* A set of naturals with zero and the successor of each of its elements is all of Nat.
LEMMA SetInduction ==
  ASSUME NEW S \in SUBSET Nat, 0 \in S, \A n \in S : n + 1 \in S
  PROVE  S = Nat
<1> SUFFICES ASSUME Nat \ S # {} PROVE FALSE
  OBVIOUS
<1>1. PICK x \in Nat \ S : \A y \in Nat \ S : x <= y
  BY LeastElement
<1>2. x # 0 /\ x - 1 \in Nat /\ x - 1 + 1 = x
  BY <1>1
<1>3. x - 1 \in S
  BY <1>1, <1>2
<1> QED
  BY <1>1, <1>2, <1>3

\* The element the library's fold takes first.
Chosen(s) == CHOOSE x \in s : TRUE

\* The fold of a set from that of a smaller one.
SumStep(f, g, s) == IF s = {} THEN 0 ELSE f[Chosen(s)] + g[s \ {Chosen(s)}]

\* The recursive function behind SumFunctionOnSet.
SumIter(f, T) == CHOOSE g : g = [s \in SUBSET T |-> SumStep(f, g, s)]

\* The subsets of at most n elements.
UpTo(T, n) == {s \in SUBSET T : Cardinality(s) <= n}

\* A nonempty set has the element chosen from it.
LEMMA ChosenIsIn ==
  ASSUME NEW s, s # {}
  PROVE  Chosen(s) \in s
BY DEF Chosen

\* The library's fold for a sum is that recursive function.
LEMMA SumDef ==
  ASSUME NEW f, NEW T
  PROVE  SumFunctionOnSet(f, T) = SumIter(f, T)[T]
BY DEF SumFunctionOnSet, FoldFunctionOnSet, MapThenFoldSet, SumIter, SumStep, Chosen

\* A family of subsets of a finite set that has the empty one, and each subset all of whose
\* parts one element smaller it has, has the whole set.
LEMMA FiniteInduction ==
  ASSUME NEW T, IsFiniteSet(T), NEW G \in SUBSET SUBSET T, {} \in G,
         \A s \in SUBSET T : (s # {} /\ \A x \in s : s \ {x} \in G) => s \in G
  PROVE  T \in G
<1> DEFINE S == {n \in Nat : \A s \in SUBSET T : Cardinality(s) = n => s \in G}
<1>0. \A s \in SUBSET T : IsFiniteSet(s) /\ Cardinality(s) \in Nat
  BY FS_Subset, FS_CardinalityType
<1>1. 0 \in S
  <2> SUFFICES ASSUME NEW s \in SUBSET T, Cardinality(s) = 0 PROVE s \in G
    OBVIOUS
  <2> QED  BY <1>0, FS_EmptySet
<1>2. ASSUME NEW n \in S PROVE n + 1 \in S
  <2> SUFFICES ASSUME NEW s \in SUBSET T, Cardinality(s) = n + 1 PROVE s \in G
    OBVIOUS
  <2>1. s # {}
    BY FS_EmptySet
  <2>2. ASSUME NEW x \in s PROVE s \ {x} \in G
    <3>1. Cardinality(s \ {x}) = n
      BY <1>0, FS_RemoveElement
    <3> QED  BY <3>1, <1>2
  <2> QED  BY <2>1, <2>2
<1>3. S = Nat
  <2> HIDE DEF S
  <2>1. S \in SUBSET Nat  BY DEF S
  <2> QED  BY <1>1, <1>2, <2>1, SetInduction
<1> QED
  BY <1>0, <1>3

\* The recursion has a solution: one for the subsets of at most n elements extends to n + 1.
LEMMA SumIterExists ==
  ASSUME NEW f, NEW T, IsFiniteSet(T)
  PROVE  \E g : g = [s \in SUBSET T |-> SumStep(f, g, s)]
<1> DEFINE S == {n \in Nat : \E g : g = [s \in UpTo(T, n) |-> SumStep(f, g, s)]}
<1>0. \A s \in SUBSET T : IsFiniteSet(s) /\ Cardinality(s) \in Nat
  BY FS_Subset, FS_CardinalityType
<1>1. 0 \in S
  <2> DEFINE g == [s \in UpTo(T, 0) |-> 0]
  <2>1. \A s \in UpTo(T, 0) : s = {}
    BY <1>0, FS_EmptySet DEF UpTo
  <2>2. g = [s \in UpTo(T, 0) |-> SumStep(f, g, s)]
    BY <2>1 DEF SumStep
  <2> QED  BY <2>2
<1>2. ASSUME NEW n \in S PROVE n + 1 \in S
  <2>1. PICK g : g = [s \in UpTo(T, n) |-> SumStep(f, g, s)]
    OBVIOUS
  <2> DEFINE h == [s \in UpTo(T, n + 1) |-> SumStep(f, g, s)]
  <2>2. ASSUME NEW s \in UpTo(T, n) PROVE h[s] = g[s]
    <3>1. s \in UpTo(T, n + 1)
      BY <1>0 DEF UpTo
    <3> QED  BY <2>1, <3>1
  <2>3. ASSUME NEW s \in UpTo(T, n + 1) PROVE SumStep(f, h, s) = SumStep(f, g, s)
    <3>1. CASE s = {}
      BY <3>1 DEF SumStep
    <3>2. CASE s # {}
      <4>1. Chosen(s) \in s
        BY <3>2, ChosenIsIn
      <4>2. s \ {Chosen(s)} \in SUBSET T /\ Cardinality(s \ {Chosen(s)}) = Cardinality(s) - 1
        BY <4>1, <1>0, FS_RemoveElement DEF UpTo
      <4>3. s \ {Chosen(s)} \in UpTo(T, n)
        BY <4>2, <1>0 DEF UpTo
      <4> HIDE DEF h
      <4> QED  BY <4>3, <2>2, <3>2 DEF SumStep
    <3> QED  BY <3>1, <3>2
  <2>4. h = [s \in UpTo(T, n + 1) |-> SumStep(f, h, s)]
    BY <2>3
  <2>5. \E k : k = [s \in UpTo(T, n + 1) |-> SumStep(f, k, s)]
    <3> HIDE DEF h
    <3> QED  BY <2>4
  <2>6. n + 1 \in Nat
    OBVIOUS
  <2> QED  BY <2>5, <2>6
<1>3. S = Nat
  <2> HIDE DEF S
  <2>1. S \in SUBSET Nat  BY DEF S
  <2> QED  BY <1>1, <1>2, <2>1, SetInduction
<1>4. UpTo(T, Cardinality(T)) = SUBSET T
  BY <1>0, FS_Subset, FS_CardinalityType DEF UpTo
<1>5. Cardinality(T) \in S
  BY <1>3, <1>0
<1> QED
  BY <1>4, <1>5

\* So the recursive function satisfies its equation.
LEMMA SumIterEquation ==
  ASSUME NEW f, NEW T, IsFiniteSet(T), NEW s \in SUBSET T
  PROVE  SumIter(f, T)[s] = SumStep(f, SumIter(f, T), s)
<1>1. SumIter(f, T) = [t \in SUBSET T |-> SumStep(f, SumIter(f, T), t)]
  BY SumIterExists DEF SumIter
<1> QED
  BY <1>1

\* The fold of a set depends only on the values at its elements.
LEMMA SumIterAgree ==
  ASSUME NEW f, NEW h, NEW T, IsFiniteSet(T), NEW U, IsFiniteSet(U), U \subseteq T,
         \A x \in U : f[x] = h[x]
  PROVE  SumIter(f, T)[U] = SumIter(h, U)[U]
<1> DEFINE G == {s \in SUBSET U : SumIter(f, T)[s] = SumIter(h, U)[s]}
<1>1. {} \in G
  BY SumIterEquation DEF SumStep
<1>2. ASSUME NEW s \in SUBSET U, s # {}, \A x \in s : s \ {x} \in G
      PROVE  s \in G
  <2>1. Chosen(s) \in s
    BY <1>2, ChosenIsIn
  <2>2. s \ {Chosen(s)} \in G
    BY <1>2, <2>1
  <2>3. SumIter(f, T)[s] = SumStep(f, SumIter(f, T), s)
    BY SumIterEquation
  <2>4. SumIter(h, U)[s] = SumStep(h, SumIter(h, U), s)
    BY SumIterEquation
  <2> QED  BY <1>2, <2>1, <2>2, <2>3, <2>4 DEF SumStep
<1>3. U \in G
  <2> HIDE DEF G
  <2>1. G \in SUBSET SUBSET U  BY DEF G
  <2> QED  BY <2>1, <1>1, <1>2, FiniteInduction
<1> QED
  BY <1>3

\* A sum depends only on the values at its elements.
LEMMA SumAgree ==
  ASSUME NEW f, NEW h, NEW T, IsFiniteSet(T), \A x \in T : f[x] = h[x]
  PROVE  SumFunctionOnSet(f, T) = SumFunctionOnSet(h, T)
BY SumDef, SumIterAgree

\* The empty sum.
LEMMA SumEmpty ==
  ASSUME NEW f
  PROVE  SumFunctionOnSet(f, {}) = 0
<1>1. IsFiniteSet({})
  BY FS_EmptySet
<1> QED
  BY <1>1, SumDef, SumIterEquation DEF SumStep

\* A sum of integers is an integer.
LEMMA SumType ==
  ASSUME NEW f, NEW T, IsFiniteSet(T), \A x \in T : f[x] \in Int
  PROVE  SumFunctionOnSet(f, T) \in Int
<1> DEFINE G == {s \in SUBSET T : SumIter(f, T)[s] \in Int}
<1>1. {} \in G
  BY SumIterEquation DEF SumStep
<1>2. ASSUME NEW s \in SUBSET T, s # {}, \A x \in s : s \ {x} \in G
      PROVE  s \in G
  <2>1. Chosen(s) \in s
    BY <1>2, ChosenIsIn
  <2>2. s \ {Chosen(s)} \in G
    BY <1>2, <2>1
  <2>3. SumIter(f, T)[s] = SumStep(f, SumIter(f, T), s)
    BY SumIterEquation
  <2> QED  BY <1>2, <2>1, <2>2, <2>3 DEF SumStep
<1>3. T \in G
  <2> HIDE DEF G
  <2>1. G \in SUBSET SUBSET T  BY DEF G
  <2> QED  BY <2>1, <1>1, <1>2, FiniteInduction
<1> QED
  BY <1>3, SumDef

\* So is the fold of every subset.
LEMMA SumIterType ==
  ASSUME NEW f, NEW T, IsFiniteSet(T), \A x \in T : f[x] \in Int, NEW s \in SUBSET T
  PROVE  SumIter(f, T)[s] \in Int
<1>1. IsFiniteSet(s)
  BY FS_Subset
<1>2. SumIter(f, T)[s] = SumIter(f, s)[s]
  BY <1>1, SumIterAgree
<1> QED
  BY <1>1, <1>2, SumType, SumDef

\* The order in which the fold takes the elements does not change a sum.
LEMMA SumIterAnyOrder ==
  ASSUME NEW f, NEW T, IsFiniteSet(T), \A x \in T : f[x] \in Int
  PROVE  \A x \in T : SumIter(f, T)[T] = f[x] + SumIter(f, T)[T \ {x}]
<1> DEFINE G == {s \in SUBSET T : \A x \in s : SumIter(f, T)[s] = f[x] + SumIter(f, T)[s \ {x}]}
<1>1. {} \in G
  OBVIOUS
<1>2. ASSUME NEW s \in SUBSET T, s # {}, \A x \in s : s \ {x} \in G
      PROVE  s \in G
  <2> SUFFICES ASSUME NEW x \in s
               PROVE  SumIter(f, T)[s] = f[x] + SumIter(f, T)[s \ {x}]
    OBVIOUS
  <2> HIDE DEF G
  <2> DEFINE c == Chosen(s)
  <2>1. c \in s
    BY ChosenIsIn
  <2>2. SumIter(f, T)[s] = f[c] + SumIter(f, T)[s \ {c}]
    <3>1. SumIter(f, T)[s] = SumStep(f, SumIter(f, T), s)
      BY SumIterEquation
    <3> QED  BY <3>1 DEF SumStep
  <2>3. CASE x = c
    BY <2>2, <2>3
  <2>4. CASE x # c
    <3> HIDE DEF c
    <3>1. SumIter(f, T)[s \ {c}] = f[x] + SumIter(f, T)[(s \ {c}) \ {x}]
      BY <1>2, <2>1, <2>4 DEF G
    <3>2. SumIter(f, T)[s \ {x}] = f[c] + SumIter(f, T)[(s \ {x}) \ {c}]
      BY <1>2, <2>1, <2>4 DEF G
    <3> DEFINE k == SumIter(f, T)[(s \ {x}) \ {c}]
               m == SumIter(f, T)[s \ {c}]
               l == SumIter(f, T)[s \ {x}]
    <3>3. k \in Int /\ f[x] \in Int /\ f[c] \in Int
      BY <2>1, SumIterType
    <3>4. (s \ {c}) \ {x} = (s \ {x}) \ {c}
      OBVIOUS
    <3>5. m = f[x] + k
      BY <3>1, <3>4
    <3>6. l = f[c] + k
      BY <3>2
    <3>7. SumIter(f, T)[s] = f[c] + m
      BY <2>2
    <3> HIDE DEF k, m, l
    <3>8. f[c] + m = f[x] + l
      BY <3>3, <3>5, <3>6
    <3>9. SumIter(f, T)[s] = f[x] + l
      BY <3>7, <3>8
    <3> QED  BY <3>9 DEF l
  <2> QED  BY <2>3, <2>4
<1>3. T \in G
  <2> HIDE DEF G
  <2>1. G \in SUBSET SUBSET T  BY DEF G
  <2> QED  BY <2>1, <1>1, <1>2, FiniteInduction
<1> QED
  BY <1>3

\* One element contributes its value.
LEMMA SumRemove ==
  ASSUME NEW f, NEW T, IsFiniteSet(T), \A x \in T : f[x] \in Int, NEW x \in T
  PROVE  SumFunctionOnSet(f, T) = f[x] + SumFunctionOnSet(f, T \ {x})
<1>1. IsFiniteSet(T \ {x})
  BY FS_Subset
<1>2. SumIter(f, T)[T \ {x}] = SumIter(f, T \ {x})[T \ {x}]
  BY <1>1, SumIterAgree
<1> QED
  BY <1>2, SumDef, SumIterAnyOrder

\* A value changed at one element changes the sum by the difference.
LEMMA SumChange ==
  ASSUME NEW f, NEW h, NEW T, IsFiniteSet(T), NEW x \in T,
         \A y \in T : f[y] \in Int, h[x] \in Int, \A y \in T \ {x} : h[y] = f[y]
  PROVE  SumFunctionOnSet(h, T) = SumFunctionOnSet(f, T) + (h[x] - f[x])
<1>1. IsFiniteSet(T \ {x})
  BY FS_Subset
<1>2. SumFunctionOnSet(f, T \ {x}) = SumFunctionOnSet(h, T \ {x})
  BY <1>1, SumAgree
<1>3. SumFunctionOnSet(f, T) = f[x] + SumFunctionOnSet(f, T \ {x})
  BY SumRemove
<1>4. SumFunctionOnSet(h, T) = h[x] + SumFunctionOnSet(h, T \ {x})
  <2>1. \A y \in T : h[y] \in Int  OBVIOUS
  <2> QED  BY <2>1, SumRemove
<1>5. SumFunctionOnSet(f, T \ {x}) \in Int
  BY <1>1, SumType
<1> QED
  BY <1>2, <1>3, <1>4, <1>5

\* A new element adds its value.
LEMMA SumInsert ==
  ASSUME NEW f, NEW T, IsFiniteSet(T), NEW x, x \notin T, \A y \in T \cup {x} : f[y] \in Int
  PROVE  SumFunctionOnSet(f, T \cup {x}) = f[x] + SumFunctionOnSet(f, T)
<1>1. IsFiniteSet(T \cup {x}) /\ (T \cup {x}) \ {x} = T
  BY FS_AddElement
<1> QED
  BY <1>1, SumRemove

\* The sum of a sum is the sum of the sums.
LEMMA SumAdd ==
  ASSUME NEW f, NEW g, NEW h, NEW T, IsFiniteSet(T),
         \A x \in T : f[x] \in Int /\ g[x] \in Int /\ h[x] = f[x] + g[x]
  PROVE  SumFunctionOnSet(h, T) = SumFunctionOnSet(f, T) + SumFunctionOnSet(g, T)
<1> DEFINE G == {s \in SUBSET T :
                   SumFunctionOnSet(h, s) = SumFunctionOnSet(f, s) + SumFunctionOnSet(g, s)}
<1>1. {} \in G
  BY SumEmpty
<1>2. ASSUME NEW s \in SUBSET T, s # {}, \A x \in s : s \ {x} \in G
      PROVE  s \in G
  <2>1. PICK x \in s : TRUE
    BY <1>2
  <2>2. IsFiniteSet(s) /\ IsFiniteSet(s \ {x})
    BY FS_Subset
  <2>3. \A y \in s : f[y] \in Int /\ g[y] \in Int /\ h[y] \in Int
    OBVIOUS
  <2>4. /\ SumFunctionOnSet(f, s) = f[x] + SumFunctionOnSet(f, s \ {x})
        /\ SumFunctionOnSet(g, s) = g[x] + SumFunctionOnSet(g, s \ {x})
        /\ SumFunctionOnSet(h, s) = h[x] + SumFunctionOnSet(h, s \ {x})
    BY <2>2, <2>3, SumRemove
  <2>5. /\ SumFunctionOnSet(f, s \ {x}) \in Int /\ SumFunctionOnSet(g, s \ {x}) \in Int
    BY <2>2, <2>3, SumType
  <2>6. SumFunctionOnSet(h, s \ {x}) =
          SumFunctionOnSet(f, s \ {x}) + SumFunctionOnSet(g, s \ {x})
    BY <1>2, <2>1
  <2> QED  BY <2>3, <2>4, <2>5, <2>6
<1>3. T \in G
  <2> HIDE DEF G
  <2>1. G \in SUBSET SUBSET T  BY DEF G
  <2> QED  BY <2>1, <1>1, <1>2, FiniteInduction
<1> QED BY <1>3

\* Values that cancel one by one cancel in their sums.
LEMMA SumCancel ==
  ASSUME NEW f, NEW g, NEW T, IsFiniteSet(T),
         \A x \in T : f[x] \in Int /\ g[x] \in Int /\ f[x] + g[x] = 0
  PROVE  SumFunctionOnSet(f, T) = -SumFunctionOnSet(g, T)
<1> DEFINE zero == [x \in T |-> 0]
<1>1. SumFunctionOnSet(zero, T) = SumFunctionOnSet(zero, T) + SumFunctionOnSet(zero, T)
  <2>1. \A x \in T : zero[x] \in Int /\ zero[x] = zero[x] + zero[x]
    OBVIOUS
  <2> HIDE DEF zero
  <2> QED  BY <2>1, SumAdd
<1>2. SumFunctionOnSet(zero, T) = SumFunctionOnSet(f, T) + SumFunctionOnSet(g, T)
  <2>1. \A x \in T : zero[x] = f[x] + g[x]
    OBVIOUS
  <2> HIDE DEF zero
  <2> QED  BY <2>1, SumAdd
<1>3. /\ SumFunctionOnSet(zero, T) \in Int
      /\ SumFunctionOnSet(f, T) \in Int /\ SumFunctionOnSet(g, T) \in Int
  BY SumType
<1> DEFINE none == SumFunctionOnSet(zero, T)
           left == SumFunctionOnSet(f, T)
           right == SumFunctionOnSet(g, T)
<1>4. none \in Int /\ left \in Int /\ right \in Int /\ none = none + none /\ none = left + right
  BY <1>1, <1>2, <1>3
<1>5. left = -right
  <2> HIDE DEF none, left, right
  <2> QED  BY <1>4
<1> QED BY <1>5

\* The sum over two sets apart.
LEMMA SumUnion ==
  ASSUME NEW f, NEW U, NEW T, IsFiniteSet(U), IsFiniteSet(T), U \cap T = {},
         \A x \in U \cup T : f[x] \in Int
  PROVE  SumFunctionOnSet(f, U \cup T) = SumFunctionOnSet(f, U) + SumFunctionOnSet(f, T)
<1> DEFINE G == {s \in SUBSET T :
                   SumFunctionOnSet(f, U \cup s) = SumFunctionOnSet(f, U) + SumFunctionOnSet(f, s)}
<1>0. SumFunctionOnSet(f, U) \in Int
  BY SumType
<1>1. {} \in G
  <2>1. U \cup {} = U
    OBVIOUS
  <2> QED  BY <1>0, <2>1, SumEmpty
<1>2. ASSUME NEW s \in SUBSET T, s # {}, \A x \in s : s \ {x} \in G
      PROVE  s \in G
  <2>1. PICK x \in s : TRUE
    BY <1>2
  <2>2. IsFiniteSet(s) /\ IsFiniteSet(s \ {x}) /\ IsFiniteSet(U \cup s)
    BY FS_Subset, FS_Union
  <2>3. \A y \in U \cup s : f[y] \in Int
    OBVIOUS
  <2>4. (U \cup s) \ {x} = U \cup (s \ {x})
    BY <2>1
  <2>5. /\ SumFunctionOnSet(f, s) = f[x] + SumFunctionOnSet(f, s \ {x})
        /\ SumFunctionOnSet(f, U \cup s) = f[x] + SumFunctionOnSet(f, (U \cup s) \ {x})
    BY <2>2, <2>3, SumRemove
  <2>6. SumFunctionOnSet(f, s \ {x}) \in Int
    BY <2>2, <2>3, SumType
  <2>7. SumFunctionOnSet(f, U \cup (s \ {x})) =
          SumFunctionOnSet(f, U) + SumFunctionOnSet(f, s \ {x})
    BY <1>2, <2>1
  <2>8. f[x] \in Int
    BY <2>1, <2>3
  <2>9. SumFunctionOnSet(f, U \cup s) = SumFunctionOnSet(f, U) + SumFunctionOnSet(f, s)
    <3>1. SumFunctionOnSet(f, (U \cup s) \ {x}) = SumFunctionOnSet(f, U \cup (s \ {x}))
      BY <2>4
    <3>2. SumFunctionOnSet(f, U \cup s) =
            f[x] + (SumFunctionOnSet(f, U) + SumFunctionOnSet(f, s \ {x}))
      BY <2>5, <2>7, <3>1
    <3> QED  BY <1>0, <2>5, <2>6, <2>8, <3>2
  <2> QED  BY <2>9
<1>3. T \in G
  <2> HIDE DEF G
  <2>1. G \in SUBSET SUBSET T  BY DEF G
  <2> QED  BY <2>1, <1>1, <1>2, FiniteInduction
<1> QED BY <1>3

\* A sum whose parts have a bound.
LEMMA SumBound ==
  ASSUME NEW f, NEW T, IsFiniteSet(T), \A x \in T : f[x] \in Int, NEW c \in Int,
         \A x \in T : f[x] <= c
  PROVE  SumFunctionOnSet(f, T) <= c * Cardinality(T)
<1> DEFINE G == {s \in SUBSET T : SumFunctionOnSet(f, s) <= c * Cardinality(s)}
<1>0. \A s \in SUBSET T : /\ IsFiniteSet(s) /\ Cardinality(s) \in Nat
                          /\ SumFunctionOnSet(f, s) \in Int
  BY FS_Subset, FS_CardinalityType, SumType
<1>1. {} \in G
  <2>1. SumFunctionOnSet(f, {}) = 0 /\ Cardinality({}) = 0
    BY SumEmpty, FS_EmptySet
  <2> QED  BY <2>1
<1>2. ASSUME NEW s \in SUBSET T, s # {}, \A x \in s : s \ {x} \in G
      PROVE  s \in G
  <2>1. PICK x \in s : TRUE
    BY <1>2
  <2>2. SumFunctionOnSet(f, s) = f[x] + SumFunctionOnSet(f, s \ {x})
    BY <1>0, <2>1, SumRemove
  <2>3. Cardinality(s \ {x}) = Cardinality(s) - 1
    BY <1>0, <2>1, FS_RemoveElement
  <2>4. SumFunctionOnSet(f, s \ {x}) <= c * Cardinality(s \ {x})
    BY <1>2, <2>1
  <2> DEFINE n == Cardinality(s)
             a == SumFunctionOnSet(f, s \ {x})
             b == SumFunctionOnSet(f, s)
             y == f[x]
  <2>5. n \in Nat /\ a \in Int /\ b \in Int /\ y \in Int /\ y <= c
    BY <1>0, <2>1
  <2>6. b = y + a /\ a <= c * (n - 1)
    BY <2>2, <2>3, <2>4
  <2>7. b <= c * n
    <3> HIDE DEF n, a, b, y
    <3>1. c * (n - 1) = c * n - c /\ c * n \in Int
      BY <2>5
    <3> QED  BY <2>5, <2>6, <3>1
  <2> QED  BY <2>7
<1>3. T \in G
  <2>1. G \in SUBSET SUBSET T
    OBVIOUS
  <2>2. \A s \in SUBSET T : (s # {} /\ \A x \in s : s \ {x} \in G) => s \in G
    BY <1>2
  <2> HIDE DEF G
  <2> QED  BY <1>1, <2>1, <2>2, FiniteInduction
<1> QED BY <1>3

\* A sum over fewer elements, and of smaller parts, is no larger.
LEMMA SumLess ==
  ASSUME NEW f, NEW h, NEW T, IsFiniteSet(T), NEW U \in SUBSET T, \A x \in T : h[x] \in Nat,
         \A x \in U : f[x] \in Int /\ f[x] <= h[x]
  PROVE  /\ SumFunctionOnSet(f, U) \in Int /\ SumFunctionOnSet(h, T) \in Nat
         /\ SumFunctionOnSet(f, U) <= SumFunctionOnSet(h, T)
<1> DEFINE G == {s \in SUBSET T : /\ SumFunctionOnSet(h, s) \in Nat
                                  /\ SumFunctionOnSet(f, s \cap U) <= SumFunctionOnSet(h, s)}
<1>0. \A s \in SUBSET T : /\ IsFiniteSet(s) /\ IsFiniteSet(s \cap U)
                          /\ SumFunctionOnSet(f, s \cap U) \in Int
  <2> SUFFICES ASSUME NEW s \in SUBSET T
               PROVE  /\ IsFiniteSet(s) /\ IsFiniteSet(s \cap U)
                      /\ SumFunctionOnSet(f, s \cap U) \in Int
    OBVIOUS
  <2>1. IsFiniteSet(s) /\ IsFiniteSet(s \cap U)
    BY FS_Subset
  <2> QED  BY <2>1, SumType
<1>1. {} \in G
  <2>1. {} \cap U = {} /\ SumFunctionOnSet(f, {}) = 0 /\ SumFunctionOnSet(h, {}) = 0
    BY SumEmpty
  <2> QED  BY <2>1
<1>2. ASSUME NEW s \in SUBSET T, s # {}, \A x \in s : s \ {x} \in G
      PROVE  s \in G
  <2>1. PICK x \in s : TRUE
    BY <1>2
  <2>2. SumFunctionOnSet(h, s) = h[x] + SumFunctionOnSet(h, s \ {x})
    <3>1. IsFiniteSet(s)
      BY <1>0
    <3>2. \A y \in s : h[y] \in Int
      OBVIOUS
    <3> QED  BY <2>1, <3>1, <3>2, SumRemove
  <2>3. /\ SumFunctionOnSet(h, s \ {x}) \in Nat
        /\ SumFunctionOnSet(f, (s \ {x}) \cap U) <= SumFunctionOnSet(h, s \ {x})
    BY <1>2, <2>1
  <2>4. SumFunctionOnSet(f, (s \ {x}) \cap U) \in Int
    BY <1>0
  <2>5. h[x] \in Nat
    BY <2>1
  <2>6. CASE x \in U
    <3>1. (s \cap U) \ {x} = (s \ {x}) \cap U /\ x \in s \cap U
      BY <2>1, <2>6
    <3>2. SumFunctionOnSet(f, s \cap U) = f[x] + SumFunctionOnSet(f, (s \cap U) \ {x})
      BY <1>0, <3>1, SumRemove
    <3> DEFINE a == SumFunctionOnSet(f, (s \ {x}) \cap U)
               b == SumFunctionOnSet(h, s \ {x})
    <3>3. SumFunctionOnSet(f, s \cap U) = f[x] + a /\ SumFunctionOnSet(h, s) = h[x] + b
      BY <2>2, <3>1, <3>2
    <3>4. f[x] \in Int /\ f[x] <= h[x] /\ a \in Int /\ b \in Nat /\ a <= b
      BY <2>3, <2>4, <2>6
    <3> HIDE DEF a, b
    <3> QED  BY <2>5, <3>3, <3>4
  <2>7. CASE x \notin U
    <3>1. s \cap U = (s \ {x}) \cap U
      BY <2>7
    <3> DEFINE a == SumFunctionOnSet(f, (s \ {x}) \cap U)
               b == SumFunctionOnSet(h, s \ {x})
    <3>2. SumFunctionOnSet(f, s \cap U) = a /\ SumFunctionOnSet(h, s) = h[x] + b
      BY <2>2, <3>1
    <3>3. a \in Int /\ b \in Nat /\ a <= b
      BY <2>3, <2>4
    <3> HIDE DEF a, b
    <3> QED  BY <2>5, <3>2, <3>3
  <2> QED  BY <2>6, <2>7
<1>3. T \in G
  <2>1. G \in SUBSET SUBSET T
    OBVIOUS
  <2>2. \A s \in SUBSET T : (s # {} /\ \A x \in s : s \ {x} \in G) => s \in G
    BY <1>2
  <2> HIDE DEF G
  <2> QED  BY <1>1, <2>1, <2>2, FiniteInduction
<1>4. SumFunctionOnSet(f, T \cap U) = SumFunctionOnSet(f, U)
  <2>1. T \cap U = U
    OBVIOUS
  <2> QED  BY <2>1
<1>5. SumFunctionOnSet(f, T \cap U) \in Int
  BY <1>0
<1>6. /\ SumFunctionOnSet(h, T) \in Nat
      /\ SumFunctionOnSet(f, T \cap U) <= SumFunctionOnSet(h, T)
  BY <1>3
<1> QED BY <1>4, <1>5, <1>6

-----------------------------------------------------------------------------
(* Extremes, sequences, products and parts                                  *)

\* What the library's extremes of a pair of integers are.
LEMMA PairBounds ==
  ASSUME NEW a \in Int, NEW b \in Int
  PROVE  /\ Max({a, b}) = IF a >= b THEN a ELSE b
         /\ Min({a, b}) = IF a <= b THEN a ELSE b
<1>1. ASSUME NEW x \in {a, b}, \A y \in {a, b} : x >= y PROVE x = IF a >= b THEN a ELSE b
  BY <1>1
<1>2. \E x \in {a, b} : \A y \in {a, b} : x >= y
  OBVIOUS
<1>3. ASSUME NEW x \in {a, b}, \A y \in {a, b} : x <= y PROVE x = IF a <= b THEN a ELSE b
  BY <1>3
<1>4. \E x \in {a, b} : \A y \in {a, b} : x <= y
  OBVIOUS
<1>5. Max({a, b}) = IF a >= b THEN a ELSE b
  BY <1>1, <1>2 DEF Max
<1>6. Min({a, b}) = IF a <= b THEN a ELSE b
  BY <1>3, <1>4 DEF Min
<1> QED BY <1>5, <1>6

\* A member that bounds its set is its extreme.
LEMMA ExtremeIs ==
  ASSUME NEW T \in SUBSET Int, NEW m \in T
  PROVE  /\ (\A x \in T : x <= m) => Max(T) = m
         /\ (\A x \in T : m <= x) => Min(T) = m
<1>1. ASSUME \A x \in T : x <= m PROVE Max(T) = m
  <2>1. m \in T /\ \A y \in T : m >= y
    BY <1>1
  <2>2. Max(T) \in T /\ \A y \in T : Max(T) >= y
    BY <2>1 DEF Max
  <2>3. Max(T) \in Int /\ m \in Int /\ Max(T) >= m /\ m >= Max(T)
    BY <2>1, <2>2
  <2> QED  BY <2>3
<1>2. ASSUME \A x \in T : m <= x PROVE Min(T) = m
  <2>1. Min(T) \in T /\ \A y \in T : Min(T) <= y
    BY <1>2 DEF Min
  <2>2. Min(T) \in Int /\ m \in Int /\ Min(T) <= m /\ m <= Min(T)
    BY <1>2, <2>1
  <2> QED  BY <2>2
<1> QED BY <1>1, <1>2

\* A nonempty set of natural numbers has its least one.
LEMMA MinIn ==
  ASSUME NEW T \in SUBSET Nat, T # {}
  PROVE  Min(T) \in T /\ \A x \in T : Min(T) <= x
<1>1. \E x \in T : \A y \in T : x <= y
  BY LeastElement
<1> QED BY <1>1 DEF Min

\* A finite one that is not empty has its greatest one.
LEMMA MaxIn ==
  ASSUME NEW T \in SUBSET Nat, IsFiniteSet(T), T # {}
  PROVE  Max(T) \in T /\ \A x \in T : x <= Max(T)
<1> DEFINE G == {s \in SUBSET T : s = {} \/ \E x \in s : \A y \in s : y <= x}
<1>1. {} \in G
  OBVIOUS
<1>2. ASSUME NEW s \in SUBSET T, s # {}, \A x \in s : s \ {x} \in G
      PROVE  s \in G
  <2>1. PICK a \in s : TRUE
    BY <1>2
  <2>2. CASE s \ {a} = {}
    <3>1. \A y \in s : y = a
      BY <2>2
    <3>2. a \in Nat /\ a <= a
      BY <2>1
    <3> QED  BY <2>1, <3>1, <3>2
  <2>3. CASE s \ {a} # {}
    <3>1. PICK b \in s \ {a} : \A y \in s \ {a} : y <= b
      BY <1>2, <2>1, <2>3
    <3>2. a \in Nat /\ b \in Nat /\ \A y \in s : y \in Nat
      BY <2>1, <3>1
    <3>3. CASE a <= b
      BY <3>1, <3>2, <3>3
    <3>4. CASE b <= a
      <4>1. \A y \in s : y <= a
        BY <3>1, <3>2, <3>4
      <4> QED  BY <2>1, <4>1
    <3> QED  BY <3>2, <3>3, <3>4
  <2> QED  BY <2>2, <2>3
<1>3. T \in G
  <2>1. G \in SUBSET SUBSET T
    OBVIOUS
  <2>2. \A s \in SUBSET T : (s # {} /\ \A x \in s : s \ {x} \in G) => s \in G
    BY <1>2
  <2> HIDE DEF G
  <2> QED  BY <1>1, <2>1, <2>2, FiniteInduction
<1>4. \E x \in T : \A y \in T : x >= y
  <2>1. PICK x \in T : \A y \in T : y <= x
    BY <1>3
  <2>2. \A y \in T : x \in Nat /\ y \in Nat /\ x >= y
    BY <2>1
  <2> QED  BY <2>2
<1>5. Max(T) \in T /\ \A y \in T : Max(T) >= y
  BY <1>4 DEF Max
<1>6. \A y \in T : y \in Nat /\ Max(T) \in Nat
  BY <1>5
<1> QED BY <1>5, <1>6

\* What is in a sequence, and that it is there once.
In(s) == {s[i] : i \in 1..Len(s)}
Once(s) == \A i, j \in 1..Len(s) : s[i] = s[j] => i = j

\* What Append leaves.
LEMMA AppendedIn ==
  ASSUME NEW S, NEW s \in Seq(S), NEW e \in S
  PROVE  /\ Append(s, e) \in Seq(S) /\ In(Append(s, e)) = In(s) \cup {e}
         /\ Len(Append(s, e)) = Len(s) + 1 /\ Len(s) \in Nat
         /\ Once(s) /\ e \notin In(s) => Once(Append(s, e))
<1> DEFINE t == Append(s, e)
<1>1. /\ t \in Seq(S) /\ Len(t) = Len(s) + 1 /\ Len(s) \in Nat /\ t[Len(s) + 1] = e
      /\ \A i \in 1..Len(s) : t[i] = s[i]
  OBVIOUS
<1> HIDE DEF t
<1>2. 1..Len(t) = 1..Len(s) \cup {Len(s) + 1}
  BY <1>1
<1>3. In(t) = In(s) \cup {e}
  BY <1>1, <1>2 DEF In
<1>4. ASSUME Once(s), e \notin In(s) PROVE Once(t)
  <2> SUFFICES ASSUME NEW i \in 1..Len(t), NEW j \in 1..Len(t), t[i] = t[j]
               PROVE  i = j
    BY DEF Once
  <2>1. CASE i \in 1..Len(s) /\ j \in 1..Len(s)
    BY <1>1, <1>4, <2>1 DEF Once
  <2>2. CASE i = Len(s) + 1 /\ j = Len(s) + 1
    BY <2>2
  <2>3. CASE i \in 1..Len(s) /\ j = Len(s) + 1
    BY <1>1, <1>4, <2>3 DEF In
  <2>4. CASE j \in 1..Len(s) /\ i = Len(s) + 1
    BY <1>1, <1>4, <2>4 DEF In
  <2> QED  BY <1>2, <2>1, <2>2, <2>3, <2>4
<1> QED BY <1>1, <1>3, <1>4 DEF t

\* What is left after an element of a sequence without repetitions is taken out.
LEMMA TakenOut ==
  ASSUME NEW S, NEW s \in Seq(S), NEW k \in 1..Len(s), NEW t \in Seq(S), Once(s),
         Len(t) = Len(s) - 1,
         \A j \in 1..Len(s) - 1 : t[j] = IF j < k THEN s[j] ELSE s[j + 1]
  PROVE  In(t) = In(s) \ {s[k]} /\ Once(t)
<1>0. Len(s) \in Nat
  OBVIOUS
<1>1. \A j \in 1..Len(s) - 1 : \E i \in 1..Len(s) : i # k /\ t[j] = s[i]
  BY <1>0
<1>2. In(t) \subseteq In(s) \ {s[k]}
  BY <1>1 DEF In, Once
<1>3. ASSUME NEW i \in 1..Len(s), s[i] # s[k] PROVE s[i] \in In(t)
  <2>1. CASE i < k
    <3>1. i \in 1..Len(s) - 1 /\ t[i] = s[i]
      BY <1>0, <2>1
    <3> QED  BY <3>1 DEF In
  <2>2. CASE i > k
    <3>1. i - 1 \in 1..Len(s) - 1 /\ ~(i - 1 < k) /\ (i - 1) + 1 = i
      BY <1>0, <2>2
    <3>2. t[i - 1] = s[i]
      BY <3>1
    <3> QED  BY <3>1, <3>2 DEF In
  <2> QED  BY <1>0, <1>3, <2>1, <2>2
<1>4. Once(t)
  <2> SUFFICES ASSUME NEW i \in 1..Len(s) - 1, NEW j \in 1..Len(s) - 1, t[i] = t[j]
               PROVE  i = j
    BY DEF Once
  <2> DEFINE p == IF i < k THEN i ELSE i + 1
             q == IF j < k THEN j ELSE j + 1
  <2>1. p \in 1..Len(s) /\ q \in 1..Len(s)
    BY <1>0
  <2>2. s[p] = s[q]
    OBVIOUS
  <2>3. p = q
    BY <2>1, <2>2 DEF Once
  <2> QED  BY <1>0, <2>3
<1> QED BY <1>2, <1>3, <1>4 DEF In

\* Without its first element a sequence that lists each element once has lost just that element.
LEMMA TailIn ==
  ASSUME NEW S, NEW s \in Seq(S), s # << >>, Once(s)
  PROVE  /\ Tail(s) \in Seq(S) /\ Head(s) \in In(s) /\ Head(s) \in S
         /\ Len(Tail(s)) = Len(s) - 1
         /\ In(Tail(s)) = In(s) \ {Head(s)} /\ Once(Tail(s))
<1>1. /\ Tail(s) \in Seq(S) /\ Head(s) = s[1] /\ Len(s) \in Nat /\ Len(s) > 0
      /\ Len(Tail(s)) = Len(s) - 1 /\ Head(s) \in S
      /\ \A j \in 1..Len(s) - 1 : Tail(s)[j] = s[j + 1]
  OBVIOUS
<1>2. 1 \in 1..Len(s) /\ \A j \in 1..Len(s) - 1 : Tail(s)[j] = IF j < 1 THEN s[j] ELSE s[j + 1]
  BY <1>1
<1>3. In(Tail(s)) = In(s) \ {s[1]} /\ Once(Tail(s))
  BY <1>1, <1>2, TakenOut
<1> QED BY <1>1, <1>2, <1>3 DEF In

\* What one sequence after another is.
LEMMA Joined ==
  ASSUME NEW S, NEW a \in Seq(S), NEW b \in Seq(S)
  PROVE  /\ a \o b \in Seq(S) /\ Len(a \o b) = Len(a) + Len(b)
         /\ \A j \in 1..Len(a) + Len(b) :
              (a \o b)[j] = IF j <= Len(a) THEN a[j] ELSE b[j - Len(a)]
OBVIOUS

\* What is left after the k-th element of a sequence is taken out.
LEMMA RemovedAt ==
  ASSUME NEW S, NEW s \in Seq(S), NEW k \in 1..Len(s), Once(s)
  PROVE  LET t == SubSeq(s, 1, k-1) \o SubSeq(s, k+1, Len(s))
         IN /\ t \in Seq(S) /\ Len(t) = Len(s) - 1
            /\ In(t) = In(s) \ {s[k]} /\ Once(t)
            /\ \A j \in 1..Len(s) - 1 : t[j] = IF j < k THEN s[j] ELSE s[j + 1]
<1> DEFINE a == SubSeq(s, 1, k-1)
           b == SubSeq(s, k+1, Len(s))
           t == a \o b
<1>1. Len(s) \in Nat /\ k - 1 \in Nat /\ k <= Len(s)
  OBVIOUS
<1>2. a \in Seq(S) /\ Len(a) = k - 1 /\ \A j \in 1..k - 1 : a[j] = s[j]
  BY <1>1
<1>3. b \in Seq(S) /\ Len(b) = Len(s) - k /\ \A j \in 1..Len(s) - k : b[j] = s[k + j]
  BY <1>1
<1> HIDE DEF a, b
<1>4. /\ t \in Seq(S) /\ Len(t) = Len(s) - 1
      /\ \A j \in 1..k - 1 : t[j] = a[j]
      /\ \A j \in k..Len(s) - 1 : t[j] = b[j - (k - 1)]
  <2>0. a \in Seq(S) /\ b \in Seq(S)
    BY <1>2, <1>3
  <2>1. /\ t \in Seq(S) /\ Len(t) = Len(a) + Len(b)
        /\ \A j \in 1..Len(a) + Len(b) : t[j] = IF j <= Len(a) THEN a[j] ELSE b[j - Len(a)]
    BY <2>0, Joined
  <2> HIDE DEF t
  <2>3. Len(t) = Len(s) - 1
    BY <1>1, <1>2, <1>3, <2>1
  <2>4. \A j \in 1..k - 1 : t[j] = a[j]
    BY SMTT(30), <1>1, <1>2, <1>3, <2>1
  <2>5. ASSUME NEW j \in k..Len(s) - 1 PROVE t[j] = b[j - (k - 1)]
    <3>1. j \in 1..Len(a) + Len(b) /\ ~(j <= Len(a)) /\ Len(a) = k - 1
      BY <1>1, <1>2, <1>3
    <3> QED  BY <2>1, <3>1
  <2> QED  BY <2>1, <2>3, <2>4, <2>5
<1> HIDE DEF t
<1>5. \A j \in 1..Len(s) - 1 : t[j] = IF j < k THEN s[j] ELSE s[j + 1]
  <2> SUFFICES ASSUME NEW j \in 1..Len(s) - 1
               PROVE  t[j] = IF j < k THEN s[j] ELSE s[j + 1]
    OBVIOUS
  <2>1. CASE j < k
    BY <1>1, <1>2, <1>4, <2>1
  <2>2. CASE ~(j < k)
    <3>1. j \in k..Len(s) - 1 /\ j - (k - 1) \in 1..Len(s) - k /\ k + (j - (k - 1)) = j + 1
      BY <1>1, <2>2
    <3> QED  BY <1>3, <1>4, <2>2, <3>1
  <2> QED  BY <2>1, <2>2
<1>6. In(t) = In(s) \ {s[k]} /\ Once(t)
  BY <1>4, <1>5, TakenOut
<1> QED BY <1>4, <1>5, <1>6 DEF t, a, b

\* Adding a sequence of one element is appending it.
LEMMA JoinedOne ==
  ASSUME NEW S, NEW s \in Seq(S), NEW e \in S
  PROVE  s \o <<e>> = Append(s, e)
OBVIOUS

\* The empty sequence adds nothing, on either side.
LEMMA JoinedNone ==
  ASSUME NEW S, NEW s \in Seq(S)
  PROVE  s \o << >> = s /\ << >> \o s = s
OBVIOUS

\* The first element of a sequence moves to the end of the one before it.
LEMMA Shifted ==
  ASSUME NEW S, NEW s \in Seq(S), NEW t \in Seq(S), t # << >>
  PROVE  Append(s, Head(t)) \o Tail(t) = s \o t
<1> DEFINE a == Append(s, Head(t))
           b == Tail(t)
<1>1. /\ a \in Seq(S) /\ Len(a) = Len(s) + 1 /\ a[Len(s) + 1] = t[1]
      /\ \A i \in 1..Len(s) : a[i] = s[i]
      /\ Len(s) \in Nat /\ Len(t) \in Nat
  OBVIOUS
<1>2. b \in Seq(S) /\ Len(b) = Len(t) - 1 /\ \A i \in 1..Len(t) - 1 : b[i] = t[i + 1]
  OBVIOUS
<1> HIDE DEF a, b
<1>3. /\ a \o b \in Seq(S) /\ Len(a \o b) = Len(s) + Len(t)
      /\ \A j \in 1..Len(s) + Len(t) :
           (a \o b)[j] = IF j <= Len(s) + 1 THEN a[j] ELSE b[j - (Len(s) + 1)]
  <2>1. Len(a) + Len(b) = Len(s) + Len(t)
    BY <1>1, <1>2
  <2> DEFINE u == a \o b
  <2>2. /\ u \in Seq(S) /\ Len(u) = Len(a) + Len(b)
        /\ \A j \in 1..Len(a) + Len(b) : u[j] = IF j <= Len(a) THEN a[j] ELSE b[j - Len(a)]
    BY <1>1, <1>2, Joined
  <2> HIDE DEF u
  <2>3. \A j \in 1..Len(s) + Len(t) : u[j] = IF j <= Len(s) + 1 THEN a[j] ELSE b[j - (Len(s) + 1)]
    BY <1>1, <2>1, <2>2
  <2>4. u \in Seq(S) /\ Len(u) = Len(s) + Len(t)
    BY <2>1, <2>2
  <2> QED  BY <2>3, <2>4 DEF u
<1>4. /\ s \o t \in Seq(S) /\ Len(s \o t) = Len(s) + Len(t)
      /\ \A j \in 1..Len(s) + Len(t) :
           (s \o t)[j] = IF j <= Len(s) THEN s[j] ELSE t[j - Len(s)]
  BY Joined
<1> DEFINE u == a \o b
           v == s \o t
<1> HIDE DEF u, v
<1>5. \A j \in 1..Len(s) + Len(t) : u[j] = v[j]
  <2> SUFFICES ASSUME NEW j \in 1..Len(s) + Len(t) PROVE u[j] = v[j]
    OBVIOUS
  <2>1. CASE j <= Len(s)
    BY <1>1, <1>3, <1>4, <2>1 DEF u, v
  <2>2. CASE j = Len(s) + 1
    BY <1>1, <1>3, <1>4, <2>2 DEF u, v
  <2>3. CASE j > Len(s) + 1
    <3>1. j - (Len(s) + 1) \in 1..Len(t) - 1 /\ (j - (Len(s) + 1)) + 1 = j - Len(s)
      BY <1>1, <2>3
    <3>2. u[j] = b[j - (Len(s) + 1)] /\ v[j] = t[j - Len(s)]
      BY <1>1, <1>3, <1>4, <2>3 DEF u, v
    <3> QED  BY <1>2, <3>1, <3>2
  <2> QED  BY <1>1, <2>1, <2>2, <2>3
<1>6. u \in Seq(S) /\ v \in Seq(S) /\ Len(u) = Len(v) /\ Len(u) = Len(s) + Len(t)
  BY <1>3, <1>4 DEF u, v
<1>7. u = v
  BY <1>5, <1>6, SeqEqual
<1> QED BY <1>7 DEF u, v, a, b

\* A whole number of units at a price is no more than the amount it makes.
LEMMA Units ==
  ASSUME NEW q \in Int, NEW p \in Nat \ {0}, NEW n \in Nat, q * p = n
  PROVE  q \in 0..n
<1>1. ASSUME q < 0 PROVE FALSE
  BY <1>1
<1>2. ASSUME q > n PROVE FALSE
  BY <1>2
<1> QED BY <1>1, <1>2

\* The arithmetic of quotes and values, apart from the model's terms.
LEMMA ProductType == ASSUME NEW a \in Int, NEW b \in Int PROVE a * b \in Int
OBVIOUS

\* A product of positive numbers is positive.
LEMMA ProductPositive ==
  ASSUME NEW a \in Nat \ {0}, NEW b \in Nat \ {0} PROVE a * b \in Nat \ {0}
OBVIOUS

\* The arithmetic of a mean of fractions.
LEMMA MeanStep ==
  ASSUME NEW num \in Int, NEW den \in Nat, NEW total \in Nat, NEW c \in Nat, NEW l \in Nat,
         num * (c - 1) = total * den
  PROVE  (num * (c - 1) + l * den) * c = (total + l) * (den * c)
<1>1. num * (c - 1) + l * den = (total + l) * den
  OBVIOUS
<1>2. (total + l) * den * c = (total + l) * (den * c)
  OBVIOUS
<1> QED BY <1>1, <1>2

\* A whole part of an amount, and all of them.
LEMMA WholeShares ==
  ASSUME NEW c \in Nat, NEW k \in Nat, k > 0
  PROVE  /\ c \div k \in Nat /\ (c \div k) * k <= c
         /\ k <= c => c \div k > 0
OBVIOUS

\* The larger of a value and a limit below its other limit.
LEMMA AtLeast ==
  ASSUME NEW lo \in Int, NEW hi \in Int, lo <= hi, NEW b \in Int, b <= hi
  PROVE  Max({lo, b}) \in lo..hi
<1>1. Max({lo, b}) = IF lo >= b THEN lo ELSE b
  BY PairBounds
<1> QED BY <1>1

\* A value between two limits.
LEMMA ClampedPart ==
  ASSUME NEW a \in Int, NEW b, b = Min({800, a}), NEW c, c = Max({200, b})
  PROVE  c \in 200..800
<1> DEFINE lo == 200
           hi == 800
<1>1. lo \in Int /\ hi \in Int /\ lo <= hi
  OBVIOUS
<1> HIDE DEF lo, hi
<1>2. Min({hi, a}) = IF hi <= a THEN hi ELSE a
  BY <1>1, PairBounds
<1>3. b = Min({hi, a}) /\ c = Max({lo, b})
  BY DEF lo, hi
<1>4. b \in Int /\ b <= hi
  BY <1>1, <1>2, <1>3
<1>5. c \in lo..hi
  BY <1>1, <1>3, <1>4, AtLeast
<1> QED BY <1>5 DEF lo, hi

\* A product grows with its factor.
LEMMA ProductGrows ==
  ASSUME NEW s \in Nat, NEW a \in Nat, NEW b \in Nat, a <= b
  PROVE  s * a \in Nat /\ s * b \in Nat /\ s * a <= s * b
<1>1. s * b = s * a + s * (b - a) /\ s * a \in Nat /\ s * b \in Nat
  OBVIOUS
<1>2. b - a \in Nat
  OBVIOUS
<1>3. s * (b - a) \in Nat
  BY <1>2
<1> QED BY <1>1, <1>3

\* A set of numbers up to n that has as many elements as they go has them all.
LEMMA AllRanks ==
  ASSUME NEW n \in Nat, NEW r \in [1..n -> 1..n], \A i, j \in 1..n : i # j => r[i] # r[j]
  PROVE  \A k \in 1..n : \E i \in 1..n : r[i] = k
<1>1. IsFiniteSet(1..n)
  BY FS_Interval
<1>2. r \in Injection(1..n, 1..n)
  BY Fun_IsInj
<1>3. r \in Surjection(1..n, 1..n)
  BY <1>1, <1>2, FS_Injection
<1> QED BY <1>3 DEF Surjection

\* Quotient and remainder.
LEMMA Divided ==
  ASSUME NEW a \in Nat, NEW d \in Nat \ {0}
  PROVE  /\ a \div d \in Nat /\ a % d \in 0..d - 1 /\ a = (d * (a \div d)) + (a % d)
OBVIOUS

\* Division by a positive number.
LEMMA Quotient ==
  ASSUME NEW t \in Nat, NEW n \in Nat \ {0}
  PROVE  /\ t \div n \in Nat
         /\ (t \div n) * n <= t /\ t < ((t \div n) + 1) * n
  OBVIOUS

\* A larger factor makes a larger product.
LEMMA Factors ==
  ASSUME NEW a \in Int, NEW b \in Int, NEW n \in Nat, a <= b
  PROVE  a * n <= b * n
<1>1. PICK d \in Nat : b = a + d
  <2> WITNESS b - a \in Nat
  <2> QED OBVIOUS
<1>2. d * n \in Nat
  OBVIOUS
<1>3. b * n = a * n + d * n
  BY <1>1
<1> QED BY <1>2, <1>3
=============================================================================

--------------------------------- MODULE Sums ---------------------------------
(***************************************************************************)
(* Sums over finite sets, and their greatest elements: what the folds that *)
(* the models use compute, for sets of any size.                           *)
(*                                                                         *)
(* MapThenSumSet is a recursive function chosen for each set anew.  The    *)
(* lemmas show that there is such a function, and one only; that a sum     *)
(* grows by what is added to the set, in whatever order; and that a        *)
(* nonempty finite set of integers has a greatest element.  Each argument  *)
(* looks at a smallest set for which the claim would be false.             *)
(***************************************************************************)
EXTENDS FiniteSetsExt, FiniteSetTheorems, TLAPS

\* The element that the fold takes from S.
Pick(S) == CHOOSE x \in S : TRUE

\* g gives every subset of S the sum of the weights w of its elements.
IsSum(g, w, S) ==
    g = [T \in SUBSET S |-> IF T = {} THEN 0 ELSE w[Pick(T)] + g[T \ {Pick(T)}]]

SumsOver(w, S) == CHOOSE g : IsSum(g, w, S)

\* The sum of the weights of the elements of S.
Sum(w, S) == SumsOver(w, S)[S]

-----------------------------------------------------------------------------

LEMMA PickIn == \A S : S # {} => Pick(S) \in S
  BY DEF Pick

\* Among sets of subsets of a finite set there is a smallest.
LEMMA Smallest ==
  ASSUME NEW S, IsFiniteSet(S), NEW B, B \subseteq SUBSET S, B # {}
  PROVE  \E T \in B : \A U \in B : U \subseteq T => U = T
<1>1. IsWellFoundedOn(StrictSubsetOrdering(S), SUBSET S)
  BY FS_StrictSubsetOrderingWellFounded, FS_FiniteSubsetsOfFinite
<1>2. PICK T \in B : \A U \in B : ~ (<<U, T>> \in StrictSubsetOrdering(S))
  BY <1>1, WFMin
<1>3. ASSUME NEW U \in B, U \subseteq T PROVE U = T
  <2>1. <<U, T>> \in (SUBSET S) \X (SUBSET S)
    OBVIOUS
  <2>2. <<U, T>>[1] = U /\ <<U, T>>[2] = T
    OBVIOUS
  <2>3. QED
    BY <1>2, <1>3, <2>1, <2>2 DEF StrictSubsetOrdering
<1>4. QED
  BY <1>3

LEMMA SumUnfold ==
  ASSUME NEW S, NEW w, NEW g, IsSum(g, w, S)
  PROVE  /\ g[{}] = 0
         /\ \A T \in SUBSET S : T # {} => g[T] = w[Pick(T)] + g[T \ {Pick(T)}]
<1>1. \A T \in SUBSET S : g[T] = IF T = {} THEN 0 ELSE w[Pick(T)] + g[T \ {Pick(T)}]
  BY DEF IsSum
<1>2. QED
  BY <1>1

LEMMA SumUnique ==
  ASSUME NEW S, IsFiniteSet(S), NEW R \in SUBSET S, NEW w, NEW g, NEW h,
         IsSum(g, w, S), IsSum(h, w, R)
  PROVE  \A T \in SUBSET R : g[T] = h[T]
<1> DEFINE B == {T \in SUBSET R : g[T] # h[T]}
<1> SUFFICES ASSUME B # {} PROVE FALSE
  OBVIOUS
<1>1. PICK T \in B : \A U \in B : U \subseteq T => U = T
  <2>1. B \subseteq SUBSET S
    OBVIOUS
  <2> HIDE DEF B
  <2>2. QED
    BY <2>1, Smallest
<1>2. T \in SUBSET R /\ T \in SUBSET S /\ g[T] # h[T]
  OBVIOUS
<1>3. T # {}
  BY <1>2, SumUnfold
<1>4. Pick(T) \in T
  BY <1>3, PickIn
<1>5. g[T \ {Pick(T)}] = h[T \ {Pick(T)}]
  <2>1. T \ {Pick(T)} \in SUBSET R /\ T \ {Pick(T)} \subseteq T /\ T \ {Pick(T)} # T
    BY <1>2, <1>4
  <2>2. T \ {Pick(T)} \notin B
    BY <1>1, <2>1
  <2>3. QED
    BY <2>1, <2>2
<1>6. g[T] = w[Pick(T)] + g[T \ {Pick(T)}] /\ h[T] = w[Pick(T)] + h[T \ {Pick(T)}]
  BY <1>2, <1>3, SumUnfold
<1>7. QED
  BY <1>2, <1>5, <1>6

LEMMA SumExists ==
  ASSUME NEW S, IsFiniteSet(S), NEW w
  PROVE  IsSum(SumsOver(w, S), w, S)
<1> DEFINE B == {T \in SUBSET S : ~ IsSum(SumsOver(w, T), w, T)}
<1> SUFFICES ASSUME B # {} PROVE FALSE
  OBVIOUS
<1>1. PICK T \in B : \A U \in B : U \subseteq T => U = T
  <2>1. B \subseteq SUBSET S
    OBVIOUS
  <2> HIDE DEF B
  <2>2. QED
    BY <2>1, Smallest
<1>2. /\ T \in SUBSET S /\ ~ IsSum(SumsOver(w, T), w, T)
      /\ \A U \in SUBSET T : U # T => IsSum(SumsOver(w, U), w, U)
  BY <1>1
<1> HIDE DEF B
<1> DEFINE f == [U \in SUBSET T |-> IF U = {} THEN 0 ELSE w[Pick(U)] + Sum(w, U \ {Pick(U)})]
<1>3. ASSUME NEW U \in SUBSET T, U # T PROVE f[U] = Sum(w, U)
  <2>1. IsSum(SumsOver(w, U), w, U)
    BY <1>2, <1>3
  <2>2. CASE U = {}
    BY <2>1, <2>2, SumUnfold DEF Sum
  <2>3. CASE U # {}
    <3>1. Sum(w, U) = w[Pick(U)] + SumsOver(w, U)[U \ {Pick(U)}]
      BY <2>1, <2>3, SumUnfold DEF Sum
    <3>2. IsSum(SumsOver(w, U \ {Pick(U)}), w, U \ {Pick(U)})
      <4>1. U \ {Pick(U)} \in SUBSET T /\ U \ {Pick(U)} # T
        BY <1>3, <2>3, PickIn
      <4>2. QED
        BY <1>2, <4>1
    <3>3. IsFiniteSet(U)
      BY <1>2, FS_Subset
    <3>4. SumsOver(w, U)[U \ {Pick(U)}] = Sum(w, U \ {Pick(U)})
      BY <2>1, <3>2, <3>3, SumUnique DEF Sum
    <3>5. QED
      BY <2>3, <3>1, <3>4
  <2>4. QED
    BY <2>2, <2>3
<1>4. IsSum(f, w, T)
  <2>1. ASSUME NEW U \in SUBSET T, U # {}
        PROVE  f[U] = w[Pick(U)] + f[U \ {Pick(U)}]
    <3>1. U \ {Pick(U)} \in SUBSET T /\ U \ {Pick(U)} # T
      BY <2>1, PickIn
    <3>2. f[U \ {Pick(U)}] = Sum(w, U \ {Pick(U)})
      BY <1>3, <3>1
    <3>3. f[U] = w[Pick(U)] + Sum(w, U \ {Pick(U)})
      BY <2>1
    <3>4. QED
      BY <3>2, <3>3
  <2>2. \A U \in SUBSET T : f[U] = IF U = {} THEN 0 ELSE w[Pick(U)] + f[U \ {Pick(U)}]
    BY <2>1
  <2>3. f = [U \in SUBSET T |-> f[U]]
    OBVIOUS
  <2> HIDE DEF f
  <2>4. QED
    BY <2>2, <2>3 DEF IsSum
<1> HIDE DEF f
<1>5. IsSum(SumsOver(w, T), w, T)
  BY <1>4 DEF SumsOver
<1>6. QED
  BY <1>2, <1>5

\* Sums of integers are integers, and sums of naturals are naturals.
LEMMA SumInt ==
  ASSUME NEW S, IsFiniteSet(S), NEW w, NEW N, N = Int \/ N = Nat, \A x \in S : w[x] \in N
  PROVE  \A T \in SUBSET S : SumsOver(w, S)[T] \in N
<1> DEFINE g == SumsOver(w, S)
           B == {T \in SUBSET S : g[T] \notin N}
<1> SUFFICES ASSUME B # {} PROVE FALSE
  OBVIOUS
<1>1. PICK T \in B : \A U \in B : U \subseteq T => U = T
  <2>1. B \subseteq SUBSET S
    OBVIOUS
  <2> HIDE DEF B
  <2>2. QED
    BY <2>1, Smallest
<1>2. T \in SUBSET S /\ g[T] \notin N
  OBVIOUS
<1>3. g[{}] = 0 /\ (T # {} => g[T] = w[Pick(T)] + g[T \ {Pick(T)}])
  BY <1>2, SumExists, SumUnfold
<1>4. T # {}
  <2>1. 0 \in N
    OBVIOUS
  <2> HIDE DEF g, B
  <2>2. QED
    BY <1>2, <1>3, <2>1
<1>5. Pick(T) \in T
  BY <1>4, PickIn
<1>6. T \ {Pick(T)} \in SUBSET S /\ T \ {Pick(T)} \subseteq T /\ T \ {Pick(T)} # T
  BY <1>2, <1>5
<1>7. g[T \ {Pick(T)}] \in N
  BY <1>1, <1>6
<1>8. w[Pick(T)] \in N
  BY <1>2, <1>5
<1> HIDE DEF g, B
<1>9. QED
  BY <1>2, <1>3, <1>4, <1>7, <1>8

\* The order in which a sum takes its elements does not matter.
LEMMA SumOrder ==
  ASSUME NEW S, IsFiniteSet(S), NEW w, \A x \in S : w[x] \in Int
  PROVE  \A T \in SUBSET S : \A x \in T : SumsOver(w, S)[T] = w[x] + SumsOver(w, S)[T \ {x}]
<1> DEFINE g == SumsOver(w, S)
           B == {T \in SUBSET S : \E x \in T : g[T] # w[x] + g[T \ {x}]}
<1> SUFFICES ASSUME B # {} PROVE FALSE
  OBVIOUS
<1>1. PICK T \in B : \A U \in B : U \subseteq T => U = T
  <2>1. B \subseteq SUBSET S
    OBVIOUS
  <2> HIDE DEF B
  <2>2. QED
    BY <2>1, Smallest
<1>2. PICK x \in T : g[T] # w[x] + g[T \ {x}]
  OBVIOUS
<1>3. T \in SUBSET S
  OBVIOUS
<1> DEFINE y == Pick(T)
<1>4. \A U \in SUBSET S : U # {} => g[U] = w[Pick(U)] + g[U \ {Pick(U)}]
  <2>1. IsSum(g, w, S)
    BY SumExists
  <2> HIDE DEF g
  <2>2. QED
    BY <2>1, SumUnfold
<1>5. y \in T /\ g[T] = w[y] + g[T \ {y}]
  BY <1>2, <1>3, <1>4, PickIn
<1>6. x # y
  BY <1>2, <1>5
<1>7. \A U \in SUBSET S : U \subseteq T /\ U # T => \A z \in U : g[U] = w[z] + g[U \ {z}]
  BY <1>1
<1> HIDE DEF y, B
<1>8. g[T \ {y}] = w[x] + g[(T \ {y}) \ {x}]
  BY <1>3, <1>5, <1>6, <1>7
<1>9. g[T \ {x}] = w[y] + g[(T \ {x}) \ {y}]
  BY <1>2, <1>3, <1>5, <1>6, <1>7
<1>10. (T \ {y}) \ {x} = (T \ {x}) \ {y}
  OBVIOUS
<1>11. g[(T \ {x}) \ {y}] \in Int /\ w[x] \in Int /\ w[y] \in Int
  BY <1>2, <1>3, <1>5, SumInt
<1> HIDE DEF g
<1>12. g[T] = w[y] + (w[x] + g[(T \ {x}) \ {y}])
  BY <1>5, <1>8, <1>10
<1>13. g[T] = w[x] + (w[y] + g[(T \ {x}) \ {y}])
  BY <1>11, <1>12
<1>14. QED
  BY <1>2, <1>9, <1>13

-----------------------------------------------------------------------------
(* What other modules use *)

LEMMA SumEmpty == \A w : Sum(w, {}) = 0
  BY SumExists, SumUnfold, FS_EmptySet DEF Sum

LEMMA SumType ==
  ASSUME NEW S, IsFiniteSet(S), NEW w
  PROVE  /\ (\A x \in S : w[x] \in Int) => Sum(w, S) \in Int
         /\ (\A x \in S : w[x] \in Nat) => Sum(w, S) \in Nat
  BY SumInt DEF Sum

LEMMA SumAdd ==
  ASSUME NEW S, IsFiniteSet(S), NEW e, e \notin S, NEW w, \A x \in S \cup {e} : w[x] \in Int
  PROVE  Sum(w, S \cup {e}) = Sum(w, S) + w[e]
<1> DEFINE R == S \cup {e}
<1>1. IsFiniteSet(R)
  BY FS_AddElement
<1>2. R \in SUBSET R /\ e \in R /\ R \ {e} = S /\ S \in SUBSET R
  OBVIOUS
<1>3. \A x \in R : w[x] \in Int
  OBVIOUS
<1> HIDE DEF R
<1>4. SumsOver(w, R)[R] = w[e] + SumsOver(w, R)[S]
  BY <1>1, <1>2, <1>3, SumOrder
<1>5. SumsOver(w, R)[S] = Sum(w, S)
  BY <1>1, <1>2, SumExists, SumUnique DEF Sum
<1>6. w[e] \in Int /\ SumsOver(w, R)[S] \in Int
  BY <1>1, <1>2, <1>3, SumInt
<1>7. QED
  BY <1>4, <1>5, <1>6 DEF Sum, R

\* The image of a finite set is finite.
LEMMA FiniteImage ==
  ASSUME NEW S, IsFiniteSet(S), NEW f
  PROVE  IsFiniteSet({f[x] : x \in S})
<1> DEFINE T == {f[x] : x \in S}
           g == [x \in S |-> f[x]]
<1>1. g \in Surjection(S, T)
  BY DEF Surjection
<1> HIDE DEF g
<1>2. QED
  BY <1>1, FS_Surjection

\* A nonempty finite set of integers has a greatest element, which is its Max.
LEMMA Greatest ==
  ASSUME NEW S, IsFiniteSet(S), S # {}, S \subseteq Int
  PROVE  Max(S) \in S /\ \A x \in S : x =< Max(S)
<1> DEFINE B == {T \in SUBSET S : T # {} /\ ~ \E m \in T : \A x \in T : x =< m}
<1>1. B = {}
  <2> SUFFICES ASSUME B # {} PROVE FALSE
    OBVIOUS
  <2>0. B \subseteq SUBSET S /\ B # {} /\ IsFiniteSet(S)
    OBVIOUS
  <2>1. PICK T \in B : \A U \in B : U \subseteq T => U = T
    <3> HIDE DEF B
    <3>2. QED
      BY ONLY <2>0, Smallest
  <2>2. PICK e \in T : TRUE
    <3>1. T # {}
      BY <2>1
    <3>2. QED
      BY <3>1
  <2>3. T \subseteq Int /\ T \in SUBSET S
    BY <2>1
  <2>4. CASE T \ {e} = {}
    <3>1. \A x \in T : x =< e
      BY <2>2, <2>3, <2>4
    <3>2. QED
      BY <2>2, <3>1
  <2>5. CASE T \ {e} # {}
    <3>1. PICK m \in T \ {e} : \A x \in T \ {e} : x =< m
      <4>1. \E m \in T \ {e} : \A x \in T \ {e} : x =< m
        <5>1. T \ {e} \notin B
          <6> HIDE DEF B
          <6>1. QED
            BY <2>1, <2>2
        <5>2. QED
          BY <2>3, <2>5, <5>1
      <4>2. QED
        BY <4>1
    <3>2. \A x \in T : x =< IF e =< m THEN m ELSE e
      <4>1. \A x \in T : x = e \/ x =< m
        BY <3>1
      <4>2. e \in Int /\ m \in Int
        BY <2>2, <2>3, <3>1
      <4>3. QED
        BY <2>3, <4>1, <4>2
    <3>3. QED
      BY <2>2, <3>1, <3>2
  <2>6. QED
    BY <2>4, <2>5
<1>2. \E m \in S : \A x \in S : m >= x
  <2>1. PICK m \in S : \A x \in S : x =< m
    BY <1>1
  <2>2. QED
    BY <2>1
<1>3. Max(S) \in S /\ \A x \in S : Max(S) >= x
  BY <1>2 DEF Max
<1>4. QED
  BY <1>3

\* Who is counted by another name counts the same.
LEMMA SumImage ==
  ASSUME NEW S, IsFiniteSet(S), NEW f, NEW v, NEW w,
         \A x, y \in S : f[x] = f[y] => x = y,
         \A x \in S : v[x] \in Int /\ w[f[x]] = v[x]
  PROVE  Sum(w, {f[x] : x \in S}) = Sum(v, S)
<1> DEFINE Im(T) == {f[x] : x \in T}
           B == {T \in SUBSET S : Sum(w, Im(T)) # Sum(v, T)}
<1>1. B = {}
  <2> SUFFICES ASSUME B # {} PROVE FALSE
    OBVIOUS
  <2>0. B \subseteq SUBSET S /\ B # {} /\ IsFiniteSet(S)
    OBVIOUS
  <2>1. PICK T \in B : \A U \in B : U \subseteq T => U = T
    <3> HIDE DEF B
    <3>1. QED
      BY ONLY <2>0, Smallest
  <2>2. T \in SUBSET S /\ Sum(w, Im(T)) # Sum(v, T)
    OBVIOUS
  <2>3. T # {}
    <3>1. Im({}) = {}
      OBVIOUS
    <3>2. QED
      BY <2>2, <3>1, SumEmpty
  <2>4. PICK x \in T : TRUE
    BY <2>3
  <2> DEFINE R == T \ {x}
  <2>5. R \in SUBSET S /\ R \subseteq T /\ R # T /\ x \in S /\ x \notin R /\ T = R \cup {x}
    BY <2>2, <2>4
  <2>6. Sum(w, Im(R)) = Sum(v, R)
    BY <2>1, <2>5
  <2>7. Im(T) = Im(R) \cup {f[x]} /\ f[x] \notin Im(R)
    BY <2>2, <2>5
  <2>8. IsFiniteSet(R)
    BY <2>5, FS_Subset
  <2>9. IsFiniteSet(Im(R))
    <3> HIDE DEF R
    <3>1. QED
      BY <2>8, FiniteImage
  <2>10. \A y \in Im(R) \cup {f[x]} : w[y] \in Int
    BY <2>2, <2>5
  <2>11. \A y \in R \cup {x} : v[y] \in Int
    BY <2>2, <2>5
  <2>12. w[f[x]] = v[x]
    BY <2>5
  <2> HIDE DEF B, Im, R
  <2>13. Sum(w, Im(R) \cup {f[x]}) = Sum(w, Im(R)) + w[f[x]]
    BY ONLY <2>7, <2>9, <2>10, SumAdd
  <2>14. Sum(v, R \cup {x}) = Sum(v, R) + v[x]
    BY ONLY <2>5, <2>8, <2>11, SumAdd
  <2>15. QED
    BY <2>2, <2>5, <2>6, <2>7, <2>12, <2>13, <2>14
<1>2. Sum(w, Im(S)) = Sum(v, S)
  BY <1>1
<1>3. QED
  BY <1>2
=============================================================================

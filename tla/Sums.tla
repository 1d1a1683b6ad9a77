-------------------------------- MODULE Sums --------------------------------
(***************************************************************************)
(* What SumFunction of the module Functions computes, for any finite set   *)
(* and any integers: the sum is well defined, does not depend on the order *)
(* in which the elements are taken, and changes by what one of them does.  *)
(*                                                                         *)
(* Induction is over sets: a set of subsets of S that holds T whenever it  *)
(* holds every smaller subset of T holds S, because there is no smallest   *)
(* exception.                                                              *)
(***************************************************************************)
EXTENDS Integers, FiniteSets, Functions, FiniteSetTheorems, WellFoundedInduction, TLAPS

\* A property of sets, given as the set G of those that have it, is inherited upwards.
LEMMA SetInduction ==
  ASSUME NEW S, IsFiniteSet(S), NEW G,
         \A T \in SUBSET S : (\A U \in SUBSET T : U # T => U \in G) => T \in G
  PROVE  S \in G
<1> SUFFICES ASSUME S \notin G PROVE FALSE
  OBVIOUS
<1> DEFINE R   == StrictSubsetOrdering(S)
           Bad == {T \in SUBSET S : T \notin G}
<1>1. IsWellFoundedOn(R, SUBSET S)
  <2>1. IsWellFoundedOn(R, FiniteSubsetsOf(S))
    BY FS_StrictSubsetOrderingWellFounded
  <2>2. FiniteSubsetsOf(S) = SUBSET S
    BY FS_FiniteSubsetsOfFinite
  <2> HIDE DEF R
  <2> QED  BY <2>1, <2>2
<1>2. Bad \subseteq SUBSET S /\ Bad # {}
  OBVIOUS
<1>3. PICK T \in Bad : \A U \in Bad : ~ (<<U, T>> \in R)
  <2> HIDE DEF R, Bad
  <2> QED  BY <1>1, <1>2, WFMin
<1>4. ASSUME NEW U \in SUBSET T, U # T PROVE U \in G
  BY <1>3, <1>4 DEF StrictSubsetOrdering
<1> QED  BY <1>3, <1>4

LEMMA SmallerIsFinite ==
  ASSUME NEW S, IsFiniteSet(S), NEW T \in SUBSET S
  PROVE  IsFiniteSet(T)
BY FS_Subset

-----------------------------------------------------------------------------
(* The recursion of the fold. *)

Chosen(s) == CHOOSE x \in s : TRUE

\* One unfolding of it, for all subsets of S at once.
IsSum(it, f, S) ==
  it = [s \in SUBSET S |-> IF s = {} THEN 0 ELSE f[Chosen(s)] + it[s \ {Chosen(s)}]]

Iter(f, S) == CHOOSE it : IsSum(it, f, S)

LEMMA SumIsChoice ==
  ASSUME NEW f, NEW S
  PROVE  SumFunctionOnSet(f, S) = Iter(f, S)[S]
BY DEF SumFunctionOnSet, FoldFunctionOnSet, MapThenFoldSet, Iter, IsSum, Chosen

LEMMA ChosenIn == ASSUME NEW s, s # {} PROVE Chosen(s) \in s
BY DEF Chosen

LEMMA SumsUnique ==
  ASSUME NEW S, IsFiniteSet(S), NEW f, NEW a, NEW b, IsSum(a, f, S), IsSum(b, f, S)
  PROVE  a = b
<1> DEFINE G == {s \in SUBSET S : a[s] = b[s]}
<1>1. ASSUME NEW s \in SUBSET S PROVE s \in G
  <2>1. IsFiniteSet(s)
    BY SmallerIsFinite
  <2>2. ASSUME NEW T \in SUBSET s, \A U \in SUBSET T : U # T => U \in G
        PROVE  T \in G
    <3>1. T \in SUBSET S
      OBVIOUS
    <3>2. CASE T = {}
      BY <3>1, <3>2 DEF IsSum
    <3>3. CASE T # {}
      <4>1. Chosen(T) \in T
        BY <3>3, ChosenIn
      <4>2. T \ {Chosen(T)} \in G
        BY <2>2, <4>1
      <4>3. /\ a[T] = f[Chosen(T)] + a[T \ {Chosen(T)}]
            /\ b[T] = f[Chosen(T)] + b[T \ {Chosen(T)}]
        BY <3>1, <3>3 DEF IsSum
      <4> QED  BY <3>1, <4>2, <4>3
    <3> QED  BY <3>2, <3>3
  <2> HIDE DEF G
  <2> QED  BY <2>1, <2>2, SetInduction
<1>2. /\ a = [s \in SUBSET S |-> a[s]]
      /\ b = [s \in SUBSET S |-> b[s]]
  BY DEF IsSum
<1> QED  BY <1>1, <1>2

LEMMA SumsRestrict ==
  ASSUME NEW S, NEW f, NEW a, IsSum(a, f, S), NEW T \in SUBSET S
  PROVE  IsSum([s \in SUBSET T |-> a[s]], f, T)
<1> DEFINE b == [s \in SUBSET T |-> a[s]]
<1>1. ASSUME NEW s \in SUBSET T
      PROVE  b[s] = IF s = {} THEN 0 ELSE f[Chosen(s)] + b[s \ {Chosen(s)}]
  <2>1. s \in SUBSET S /\ s \ {Chosen(s)} \in SUBSET T
    OBVIOUS
  <2>2. b[s] = a[s] /\ b[s \ {Chosen(s)}] = a[s \ {Chosen(s)}]
    BY <2>1
  <2>3. a[s] = IF s = {} THEN 0 ELSE f[Chosen(s)] + a[s \ {Chosen(s)}]
    BY <2>1 DEF IsSum
  <2> QED  BY <2>2, <2>3
<1>2. b = [s \in SUBSET T |-> b[s]]
  OBVIOUS
<1> HIDE DEF b
<1>3. b = [s \in SUBSET T |-> IF s = {} THEN 0 ELSE f[Chosen(s)] + b[s \ {Chosen(s)}]]
  BY <1>1, <1>2
<1>4. IsSum(b, f, T)
  BY <1>3 DEF IsSum
<1> QED  BY <1>4 DEF b

LEMMA SumsExist ==
  ASSUME NEW S, IsFiniteSet(S), NEW f
  PROVE  IsSum(Iter(f, S), f, S)
<1> DEFINE G == {T \in SUBSET S : \E it : IsSum(it, f, T)}
<1>1. ASSUME NEW T \in SUBSET S, \A U \in SUBSET T : U # T => U \in G
      PROVE  T \in G
  <2>0. IsFiniteSet(T)
    BY SmallerIsFinite
  <2>1. ASSUME NEW U \in SUBSET T, U # T
        PROVE  IsSum(Iter(f, U), f, U)
    BY <1>1, <2>1 DEF Iter
  <2> DEFINE low(U) == Iter(f, U)[U]
             it == [s \in SUBSET T |-> IF s = {} THEN 0 ELSE f[Chosen(s)] + low(s \ {Chosen(s)})]
  <2>2. ASSUME NEW U \in SUBSET T, U # T
        PROVE  it[U] = low(U)
    <3>1. Iter(f, U) = [s \in SUBSET U |-> IF s = {} THEN 0 ELSE f[Chosen(s)] + Iter(f, U)[s \ {Chosen(s)}]]
      BY <2>1, <2>2 DEF IsSum
    <3>2. CASE U = {}
      BY <3>1, <3>2
    <3>3. CASE U # {}
      <4> DEFINE W == U \ {Chosen(U)}
      <4>1. W \in SUBSET U /\ W \in SUBSET T /\ W # T /\ IsFiniteSet(W)
        BY <2>0, <2>2, SmallerIsFinite
      <4>2. IsSum(Iter(f, W), f, W)
        BY <2>1, <4>1
      <4>3. IsSum([s \in SUBSET W |-> Iter(f, U)[s]], f, W)
        <5>1. IsSum(Iter(f, U), f, U)
          BY <2>1, <2>2
        <5> HIDE DEF W
        <5> QED  BY <4>1, <5>1, SumsRestrict
      <4>4. Iter(f, W) = [s \in SUBSET W |-> Iter(f, U)[s]]
        <5> HIDE DEF W
        <5> QED  BY <4>1, <4>2, <4>3, SumsUnique
      <4>5. Iter(f, W)[W] = Iter(f, U)[W]
        BY <4>4
      <4>6. low(U) = f[Chosen(U)] + Iter(f, U)[W]
        BY <3>1, <3>3
      <4> QED  BY <3>3, <4>5, <4>6
    <3> QED  BY <3>2, <3>3
  <2>3. ASSUME NEW s \in SUBSET T, s # {}
        PROVE  it[s \ {Chosen(s)}] = low(s \ {Chosen(s)})
    <3>1. Chosen(s) \in s
      BY <2>3, ChosenIn
    <3>2. s \ {Chosen(s)} \in SUBSET T /\ s \ {Chosen(s)} # T
      BY <3>1
    <3> QED  BY <2>2, <3>2
  <2>4. it = [s \in SUBSET T |-> IF s = {} THEN 0 ELSE f[Chosen(s)] + it[s \ {Chosen(s)}]]
    <3>1. ASSUME NEW s \in SUBSET T
          PROVE  it[s] = IF s = {} THEN 0 ELSE f[Chosen(s)] + it[s \ {Chosen(s)}]
      BY <2>3
    <3>2. it = [s \in SUBSET T |-> it[s]]
      OBVIOUS
    <3> HIDE DEF it
    <3> QED  BY <3>1, <3>2
  <2> HIDE DEF it
  <2>5. IsSum(it, f, T)
    BY <2>4 DEF IsSum
  <2> QED  BY <2>5
<1>2. S \in G
  <2> HIDE DEF G
  <2> QED  BY <1>1, SetInduction
<1> QED  BY <1>2 DEF Iter

\* The fold of a non-empty set is its chosen element and the fold of the rest.
LEMMA SumOfChosen ==
  ASSUME NEW f, NEW S, IsFiniteSet(S), S # {}
  PROVE  /\ Chosen(S) \in S
         /\ SumFunctionOnSet(f, S) = f[Chosen(S)] + SumFunctionOnSet(f, S \ {Chosen(S)})
<1> DEFINE T == S \ {Chosen(S)}
<1>1. Chosen(S) \in S
  BY ChosenIn
<1>2. T \in SUBSET S /\ IsFiniteSet(T)
  BY SmallerIsFinite
<1>3. IsSum(Iter(f, S), f, S)
  BY SumsExist
<1>4. Iter(f, S)[S] = f[Chosen(S)] + Iter(f, S)[T]
  <2>1. Iter(f, S) = [s \in SUBSET S |-> IF s = {} THEN 0 ELSE f[Chosen(s)] + Iter(f, S)[s \ {Chosen(s)}]]
    BY <1>3 DEF IsSum
  <2> QED  BY <2>1
<1>5. Iter(f, T) = [s \in SUBSET T |-> Iter(f, S)[s]]
  <2> HIDE DEF T
  <2>1. IsSum([s \in SUBSET T |-> Iter(f, S)[s]], f, T)
    BY <1>2, <1>3, SumsRestrict
  <2>2. IsSum(Iter(f, T), f, T)
    BY <1>2, SumsExist
  <2> QED  BY <1>2, <2>1, <2>2, SumsUnique
<1>6. Iter(f, T)[T] = Iter(f, S)[T]
  BY <1>5
<1> HIDE DEF T
<1>7. SumFunctionOnSet(f, S) = Iter(f, S)[S] /\ SumFunctionOnSet(f, T) = Iter(f, T)[T]
  BY SumIsChoice
<1>8. SumFunctionOnSet(f, S) = f[Chosen(S)] + SumFunctionOnSet(f, T)
  BY <1>4, <1>6, <1>7
<1> QED  BY <1>1, <1>8 DEF T

-----------------------------------------------------------------------------
(* What the sum is. *)

LEMMA SumOfNone == ASSUME NEW f PROVE SumFunctionOnSet(f, {}) = 0
<1>1. IsFiniteSet({})
  BY FS_EmptySet
<1>2. Iter(f, {}) = [s \in SUBSET {} |-> IF s = {} THEN 0 ELSE f[Chosen(s)] + Iter(f, {})[s \ {Chosen(s)}]]
  BY <1>1, SumsExist DEF IsSum
<1>3. Iter(f, {})[{}] = 0
  BY <1>2
<1> QED  BY <1>3, SumIsChoice

LEMMA SumIsInt ==
  ASSUME NEW f, NEW S, IsFiniteSet(S), \A x \in S : f[x] \in Int
  PROVE  SumFunctionOnSet(f, S) \in Int
<1> DEFINE G == {T \in SUBSET S : SumFunctionOnSet(f, T) \in Int}
<1>1. ASSUME NEW T \in SUBSET S, \A U \in SUBSET T : U # T => U \in G PROVE T \in G
  <2>1. CASE T = {}
    BY <2>1, SumOfNone
  <2>2. CASE T # {}
    <3>1. /\ Chosen(T) \in T
          /\ SumFunctionOnSet(f, T) = f[Chosen(T)] + SumFunctionOnSet(f, T \ {Chosen(T)})
      BY <2>2, SmallerIsFinite, SumOfChosen
    <3>2. T \ {Chosen(T)} \in G
      BY <1>1, <3>1
    <3> QED  BY <3>1, <3>2
  <2> QED  BY <2>1, <2>2
<1>2. S \in G
  <2> HIDE DEF G
  <2> QED  BY <1>1, SetInduction
<1> QED  BY <1>2

\* Any element may be taken out first.
LEMMA SumTakesOut ==
  ASSUME NEW f, NEW S, IsFiniteSet(S), \A x \in S : f[x] \in Int, NEW e \in S
  PROVE  SumFunctionOnSet(f, S) = f[e] + SumFunctionOnSet(f, S \ {e})
<1> DEFINE G == {T \in SUBSET S :
                   \A x \in T : SumFunctionOnSet(f, T) = f[x] + SumFunctionOnSet(f, T \ {x})}
<1>1. ASSUME NEW T \in SUBSET S, \A U \in SUBSET T : U # T => U \in G PROVE T \in G
  <2> SUFFICES ASSUME NEW x \in T
               PROVE  SumFunctionOnSet(f, T) = f[x] + SumFunctionOnSet(f, T \ {x})
    OBVIOUS
  <2> DEFINE c == Chosen(T)
             Tc == T \ {c}
             Tx == T \ {x}
             Tcx == T \ {c, x}
  <2>1. c \in T /\ SumFunctionOnSet(f, T) = f[c] + SumFunctionOnSet(f, Tc)
    BY SmallerIsFinite, SumOfChosen
  <2>2. CASE x = c
    BY <2>1, <2>2
  <2>3. CASE x # c
    <3>1. Tc \in G /\ x \in Tc /\ Tc \ {x} = Tcx
      BY <1>1, <2>1, <2>3
    <3>2. SumFunctionOnSet(f, Tc) = f[x] + SumFunctionOnSet(f, Tcx)
      BY <3>1
    <3>3. Tx \in G /\ c \in Tx /\ Tx \ {c} = Tcx
      BY <1>1, <2>1, <2>3
    <3>4. SumFunctionOnSet(f, Tx) = f[c] + SumFunctionOnSet(f, Tcx)
      BY <3>3
    <3>5. SumFunctionOnSet(f, Tcx) \in Int
      BY SmallerIsFinite, SumIsInt
    <3> HIDE DEF Tc, Tx, Tcx, c
    <3>6. f[x] \in Int /\ f[c] \in Int
      BY <2>1
    <3>7. SumFunctionOnSet(f, T) = f[x] + SumFunctionOnSet(f, Tx)
      BY <2>1, <3>2, <3>4, <3>5, <3>6
    <3> QED  BY <3>7 DEF Tx
  <2> QED  BY <2>2, <2>3
<1>2. S \in G
  <2> HIDE DEF G
  <2> QED  BY <1>1, SetInduction
<1> QED  BY <1>2

LEMMA SumPutsIn ==
  ASSUME NEW f, NEW S, IsFiniteSet(S), NEW e, e \notin S, \A x \in S \cup {e} : f[x] \in Int
  PROVE  SumFunctionOnSet(f, S \cup {e}) = f[e] + SumFunctionOnSet(f, S)
<1>1. IsFiniteSet(S \cup {e})
  BY FS_AddElement
<1>2. (S \cup {e}) \ {e} = S
  OBVIOUS
<1> QED  BY <1>1, <1>2, SumTakesOut

LEMMA SumOfSame ==
  ASSUME NEW f, NEW g, NEW S, IsFiniteSet(S), \A x \in S : f[x] = g[x]
  PROVE  SumFunctionOnSet(f, S) = SumFunctionOnSet(g, S)
<1> DEFINE G == {T \in SUBSET S : SumFunctionOnSet(f, T) = SumFunctionOnSet(g, T)}
<1>1. ASSUME NEW T \in SUBSET S, \A U \in SUBSET T : U # T => U \in G PROVE T \in G
  <2>1. CASE T = {}
    BY <2>1, SumOfNone
  <2>2. CASE T # {}
    <3>1. /\ Chosen(T) \in T
          /\ SumFunctionOnSet(f, T) = f[Chosen(T)] + SumFunctionOnSet(f, T \ {Chosen(T)})
          /\ SumFunctionOnSet(g, T) = g[Chosen(T)] + SumFunctionOnSet(g, T \ {Chosen(T)})
      BY <2>2, SmallerIsFinite, SumOfChosen
    <3>2. T \ {Chosen(T)} \in G
      BY <1>1, <3>1
    <3> QED  BY <3>1, <3>2
  <2> QED  BY <2>1, <2>2
<1>2. S \in G
  <2> HIDE DEF G
  <2> QED  BY <1>1, SetInduction
<1> QED  BY <1>2

\* Of a sum of two, term by term.
LEMMA SumsAdd ==
  ASSUME NEW f, NEW g, NEW h, NEW S, IsFiniteSet(S),
         \A x \in S : f[x] \in Int /\ g[x] \in Int /\ h[x] = f[x] + g[x]
  PROVE  SumFunctionOnSet(h, S) = SumFunctionOnSet(f, S) + SumFunctionOnSet(g, S)
<1> DEFINE G == {T \in SUBSET S :
                   SumFunctionOnSet(h, T) = SumFunctionOnSet(f, T) + SumFunctionOnSet(g, T)}
<1>1. ASSUME NEW T \in SUBSET S, \A U \in SUBSET T : U # T => U \in G PROVE T \in G
  <2>1. CASE T = {}
    BY <2>1, SumOfNone
  <2>2. CASE T # {}
    <3> DEFINE c == Chosen(T)
               U == T \ {c}
    <3>1. /\ c \in T
          /\ SumFunctionOnSet(f, T) = f[c] + SumFunctionOnSet(f, U)
          /\ SumFunctionOnSet(g, T) = g[c] + SumFunctionOnSet(g, U)
          /\ SumFunctionOnSet(h, T) = h[c] + SumFunctionOnSet(h, U)
      BY <2>2, SmallerIsFinite, SumOfChosen
    <3>2. SumFunctionOnSet(h, U) = SumFunctionOnSet(f, U) + SumFunctionOnSet(g, U)
      BY <1>1, <3>1
    <3>3. SumFunctionOnSet(f, U) \in Int /\ SumFunctionOnSet(g, U) \in Int
      BY SmallerIsFinite, SumIsInt
    <3>4. f[c] \in Int /\ g[c] \in Int /\ h[c] = f[c] + g[c]
      BY <3>1
    <3> HIDE DEF U, c
    <3> QED  BY <3>1, <3>2, <3>3, <3>4
  <2> QED  BY <2>1, <2>2
<1>2. S \in G
  <2> HIDE DEF G
  <2> QED  BY <1>1, SetInduction
<1> QED  BY <1>2

LEMMA SumsOrdered ==
  ASSUME NEW f, NEW g, NEW S, IsFiniteSet(S),
         \A x \in S : f[x] \in Int /\ g[x] \in Int /\ f[x] <= g[x]
  PROVE  SumFunctionOnSet(f, S) <= SumFunctionOnSet(g, S)
<1> DEFINE G == {T \in SUBSET S : SumFunctionOnSet(f, T) <= SumFunctionOnSet(g, T)}
<1>1. ASSUME NEW T \in SUBSET S, \A U \in SUBSET T : U # T => U \in G PROVE T \in G
  <2>1. CASE T = {}
    BY <2>1, SumOfNone
  <2>2. CASE T # {}
    <3> DEFINE c == Chosen(T)
               U == T \ {c}
    <3>1. /\ c \in T
          /\ SumFunctionOnSet(f, T) = f[c] + SumFunctionOnSet(f, U)
          /\ SumFunctionOnSet(g, T) = g[c] + SumFunctionOnSet(g, U)
      BY <2>2, SmallerIsFinite, SumOfChosen
    <3>2. SumFunctionOnSet(f, U) <= SumFunctionOnSet(g, U)
      BY <1>1, <3>1
    <3>3. SumFunctionOnSet(f, U) \in Int /\ SumFunctionOnSet(g, U) \in Int
      BY SmallerIsFinite, SumIsInt
    <3>4. f[c] \in Int /\ g[c] \in Int /\ f[c] <= g[c]
      BY <3>1
    <3> HIDE DEF U, c
    <3> QED  BY <3>1, <3>2, <3>3, <3>4
  <2> QED  BY <2>1, <2>2
<1>2. S \in G
  <2> HIDE DEF G
  <2> QED  BY <1>1, SetInduction
<1> QED  BY <1>2

-----------------------------------------------------------------------------
(* What follows without induction. *)

\* A sum changes by what its one changed term does.
LEMMA SumChangesAt ==
  ASSUME NEW f, NEW g, NEW S, IsFiniteSet(S), NEW e \in S,
         \A x \in S : f[x] \in Int /\ g[x] \in Int,
         \A x \in S \ {e} : g[x] = f[x]
  PROVE  SumFunctionOnSet(g, S) = SumFunctionOnSet(f, S) + g[e] - f[e]
<1> DEFINE T == S \ {e}
<1>1. IsFiniteSet(T)
  BY SmallerIsFinite
<1>2. /\ SumFunctionOnSet(f, S) = f[e] + SumFunctionOnSet(f, T)
      /\ SumFunctionOnSet(g, S) = g[e] + SumFunctionOnSet(g, T)
  BY SumTakesOut
<1>3. SumFunctionOnSet(f, T) = SumFunctionOnSet(g, T) /\ SumFunctionOnSet(f, T) \in Int
  BY <1>1, SumOfSame, SumIsInt
<1> HIDE DEF T
<1> QED  BY <1>2, <1>3

\* All zero.
LEMMA SumOfZeros ==
  ASSUME NEW f, NEW S, IsFiniteSet(S), \A x \in S : f[x] = 0
  PROVE  SumFunctionOnSet(f, S) = 0
<1> DEFINE n == SumFunctionOnSet(f, S)
<1>1. n \in Int
  BY SumIsInt
<1>2. n = n + n
  BY SumsAdd
<1>3. n = 0
  <2> HIDE DEF n
  <2> QED  BY ONLY <1>1, <1>2
<1> QED  BY <1>3

LEMMA SumIsNat ==
  ASSUME NEW f, NEW S, IsFiniteSet(S), \A x \in S : f[x] \in Nat
  PROVE  SumFunctionOnSet(f, S) \in Nat
<1> DEFINE z == [x \in S |-> 0]
<1>1. SumFunctionOnSet(z, S) = 0
  BY SumOfZeros
<1>2. SumFunctionOnSet(z, S) <= SumFunctionOnSet(f, S)
  BY SumsOrdered
<1>3. SumFunctionOnSet(f, S) \in Int
  BY SumIsInt
<1> QED  BY <1>1, <1>2, <1>3

\* No term exceeds the sum of naturals.
LEMMA SumBoundsTerms ==
  ASSUME NEW f, NEW S, IsFiniteSet(S), \A x \in S : f[x] \in Nat, NEW e \in S
  PROVE  f[e] <= SumFunctionOnSet(f, S)
<1>1. SumFunctionOnSet(f, S) = f[e] + SumFunctionOnSet(f, S \ {e})
  BY SumTakesOut
<1>2. SumFunctionOnSet(f, S \ {e}) \in Nat
  BY SmallerIsFinite, SumIsNat
<1> QED  BY <1>1, <1>2

\* The sum of a part is the sum of the whole with the other terms zero.
LEMMA SumOfPart ==
  ASSUME NEW f, NEW g, NEW S, IsFiniteSet(S), NEW T \in SUBSET S,
         \A x \in T : f[x] \in Int /\ g[x] = f[x],
         \A x \in S \ T : g[x] = 0
  PROVE  SumFunctionOnSet(f, T) = SumFunctionOnSet(g, S)
<1> DEFINE G == {U \in SUBSET S : SumFunctionOnSet(g, U) = SumFunctionOnSet(f, U \cap T)}
<1>1. ASSUME NEW U \in SUBSET S, \A V \in SUBSET U : V # U => V \in G PROVE U \in G
  <2>0. IsFiniteSet(U) /\ IsFiniteSet(U \cap T)
    BY SmallerIsFinite
  <2>1. CASE U \subseteq T
    <3>1. U \cap T = U
      BY <2>1
    <3> QED  BY <2>0, <2>1, <3>1, SumOfSame
  <2>2. CASE ~ (U \subseteq T)
    <3>1. PICK e \in U : e \notin T
      BY <2>2
    <3>2. U \ {e} \in G /\ (U \ {e}) \cap T = U \cap T
      BY <1>1, <3>1
    <3>3. SumFunctionOnSet(g, U) = g[e] + SumFunctionOnSet(g, U \ {e})
      BY <2>0, SumTakesOut
    <3>4. SumFunctionOnSet(f, U \cap T) \in Int
      BY <2>0, SumIsInt
    <3> QED  BY <3>1, <3>2, <3>3, <3>4
  <2> QED  BY <2>1, <2>2
<1>2. S \in G
  <2> HIDE DEF G
  <2> QED  BY <1>1, SetInduction
<1>3. S \cap T = T
  OBVIOUS
<1> QED  BY <1>2, <1>3

\* The sum of a function is more by the value at an argument it did not have.
LEMMA SumOfMore ==
  ASSUME NEW f, NEW g, NEW S, IsFiniteSet(S), NEW e, e \notin S,
         DOMAIN f = S, DOMAIN g = S \cup {e}, g[e] \in Int,
         \A x \in S : f[x] \in Int /\ g[x] = f[x]
  PROVE  SumFunction(g) = SumFunction(f) + g[e] /\ SumFunction(f) \in Int
<1>1. SumFunctionOnSet(g, S \cup {e}) = g[e] + SumFunctionOnSet(g, S)
  <2>1. \A x \in S \cup {e} : g[x] \in Int
    OBVIOUS
  <2> QED  BY <2>1, SumPutsIn
<1>2. SumFunctionOnSet(g, S) = SumFunctionOnSet(f, S)
  BY SumOfSame
<1>3. SumFunctionOnSet(f, S) \in Int
  BY SumIsInt
<1> QED  BY <1>1, <1>2, <1>3 DEF SumFunction

\* The sum over two parts.
LEMMA SumOfUnion ==
  ASSUME NEW f, NEW S, NEW T, IsFiniteSet(S), IsFiniteSet(T), S \cap T = {},
         \A x \in S \cup T : f[x] \in Int
  PROVE  SumFunctionOnSet(f, S \cup T) = SumFunctionOnSet(f, S) + SumFunctionOnSet(f, T)
<1> DEFINE W == S \cup T
           g == [x \in W |-> IF x \in S THEN f[x] ELSE 0]
           h == [x \in W |-> IF x \in T THEN f[x] ELSE 0]
<1>1. IsFiniteSet(W)
  BY FS_Union
<1>2. SumFunctionOnSet(f, S) = SumFunctionOnSet(g, W)
  BY <1>1, SumOfPart
<1>3. SumFunctionOnSet(f, T) = SumFunctionOnSet(h, W)
  BY <1>1, SumOfPart
<1>4. \A x \in W : g[x] \in Int /\ h[x] \in Int /\ f[x] = g[x] + h[x]
  OBVIOUS
<1> HIDE DEF g, h, W
<1>5. SumFunctionOnSet(f, W) = SumFunctionOnSet(g, W) + SumFunctionOnSet(h, W)
  BY <1>1, <1>4, SumsAdd
<1> QED  BY <1>2, <1>3, <1>5 DEF W

\* A factor of all terms.
LEMMA SumScales ==
  ASSUME NEW f, NEW g, NEW S, IsFiniteSet(S), NEW k \in Int,
         \A x \in S : f[x] \in Int /\ g[x] = k * f[x]
  PROVE  SumFunctionOnSet(g, S) = k * SumFunctionOnSet(f, S)
<1> DEFINE G == {T \in SUBSET S : SumFunctionOnSet(g, T) = k * SumFunctionOnSet(f, T)}
<1>1. ASSUME NEW T \in SUBSET S, \A U \in SUBSET T : U # T => U \in G PROVE T \in G
  <2>1. CASE T = {}
    BY <2>1, SumOfNone
  <2>2. CASE T # {}
    <3> DEFINE c == Chosen(T)
               U == T \ {c}
    <3>1. /\ c \in T
          /\ SumFunctionOnSet(f, T) = f[c] + SumFunctionOnSet(f, U)
          /\ SumFunctionOnSet(g, T) = g[c] + SumFunctionOnSet(g, U)
      BY <2>2, SmallerIsFinite, SumOfChosen
    <3>2. SumFunctionOnSet(g, U) = k * SumFunctionOnSet(f, U)
      BY <1>1, <3>1
    <3>3. SumFunctionOnSet(f, U) \in Int
      BY SmallerIsFinite, SumIsInt
    <3>4. f[c] \in Int /\ g[c] = k * f[c]
      BY <3>1
    <3> HIDE DEF U, c
    <3>5. \A a, b \in Int : k * (a + b) = k * a + k * b
      OBVIOUS
    <3> QED  BY <3>1, <3>2, <3>3, <3>4, <3>5
  <2> QED  BY <2>1, <2>2
<1>2. S \in G
  <2> HIDE DEF G
  <2> QED  BY <1>1, SetInduction
<1> QED  BY <1>2
=============================================================================

------------------------------ MODULE SumLemmas ------------------------------
(***************************************************************************)
(* What the sums of the models (SumFunctionOnSet: bytes of replies, of     *)
(* leases, of font sources) do when an element comes or goes.  The sum is  *)
(* a fold: for a finite set and values in Nat it is the only function g    *)
(* with g[T] = f[x] + g[T \ {x}] for every x in T (Additive), whichever    *)
(* element the fold begins with.  That such a g exists, and that the fold  *)
(* is it, is shown by taking a minimal set that would refute it: proper    *)
(* inclusion of finite sets is well founded.                               *)
(***************************************************************************)
EXTENDS Integers, FiniteSets, Functions, FiniteSetTheorems, WellFoundedInduction, TLAPS


(* A nonempty family of subsets of a finite set has a smallest member. *)
LEMMA MinimalSet ==
    ASSUME NEW S, IsFiniteSet(S), NEW B, B \subseteq SUBSET S, B # {}
    PROVE  \E T \in B : \A U \in SUBSET T : U # T => U \notin B
<1> DEFINE R == StrictSubsetOrdering(S)
           F == FiniteSubsetsOf(S)
<1>1. IsWellFoundedOn(R, F) BY FS_StrictSubsetOrderingWellFounded
<1>2. \A T \in SUBSET S : IsFiniteSet(T) BY FS_Subset
<1>3. B \subseteq F BY <1>2 DEF FiniteSubsetsOf
<1>4. \A T \in SUBSET S, U \in SUBSET S : T \subseteq U /\ T # U => <<T, U>> \in R
    BY DEF StrictSubsetOrdering
<1> HIDE DEF R, F
<1>5. PICK T \in B : \A U \in B : ~ (<<U, T>> \in R) BY <1>1, <1>3, WFMin
<1>6. ASSUME NEW U \in SUBSET T, U # T, U \in B
      PROVE  FALSE
    BY <1>4, <1>5, <1>6
<1> QED BY <1>6

(* What holds of {} and is kept when an element is added holds of a finite set. *)
LEMMA SetInduction ==
    ASSUME NEW S, IsFiniteSet(S), NEW P, {} \in P,
           \A T \in SUBSET S : \A x \in S \ T : T \in P => T \cup {x} \in P
    PROVE  S \in P
<1> DEFINE B == {T \in SUBSET S : T \notin P}
<1> SUFFICES ASSUME B # {} PROVE FALSE
    OBVIOUS
<1>1. PICK T \in B : \A U \in SUBSET T : U # T => U \notin B
    <2> HIDE DEF B
    <2>1. B \subseteq SUBSET S BY DEF B
    <2> QED BY <2>1, MinimalSet
<1>2. T \in SUBSET S /\ T \notin P /\ T # {} OBVIOUS
<1>3. PICK x \in T : TRUE BY <1>2
<1>4. T \ {x} \in SUBSET T /\ T \ {x} # T BY <1>3
<1>5. T \ {x} \in P BY <1>1, <1>2, <1>4
<1>6. (T \ {x}) \cup {x} = T /\ x \in S \ (T \ {x}) BY <1>2, <1>3
<1>7. T \ {x} \in SUBSET S BY <1>2
<1> QED BY <1>2, <1>5, <1>6, <1>7

(* A finite set of integers has a least element. *)
LEMMA LeastElement ==
    ASSUME NEW S, IsFiniteSet(S), S \subseteq Int, S # {}
    PROVE  \E m \in S : \A x \in S : m <= x
<1> DEFINE P == {U \in SUBSET S : U = {} \/ \E m \in U : \A x \in U : m <= x}
<1>1. {} \in P OBVIOUS
<1>2. ASSUME NEW U \in SUBSET S, NEW a \in S \ U, U \in P
      PROVE  U \cup {a} \in P
    <2>1. CASE U = {} BY <2>1
    <2>2. ASSUME NEW m \in U, \A x \in U : m <= x
          PROVE  U \cup {a} \in P
        <3>1. CASE m <= a BY <2>2, <3>1
        <3>2. CASE ~(m <= a) BY <2>2, <3>2
        <3> QED BY <3>1, <3>2
    <2> QED BY <1>2, <2>1, <2>2
<1> HIDE DEF P
<1>3. S \in P BY <1>1, <1>2, SetInduction
<1> QED BY <1>3 DEF P

(* g[T] is the sum of f over T, for every part T of S.                     *)
Additive(g, f, S) ==
    /\ g \in [SUBSET S -> Nat] /\ g[{}] = 0
    /\ \A T \in SUBSET S : \A x \in T : g[T] = f[x] + g[T \ {x}]

(* There is such a function.                                               *)
LEMMA AdditiveExists ==
    ASSUME NEW S, IsFiniteSet(S), NEW f, \A x \in S : f[x] \in Nat
    PROVE  \E g : Additive(g, f, S)
<1> DEFINE P == {U \in SUBSET S : \E g : Additive(g, f, U)}
<1>1. {} \in P
    <2>1. Additive([T \in SUBSET {} |-> 0], f, {}) BY DEF Additive
    <2> QED BY <2>1
<1>2. ASSUME NEW U \in SUBSET S, NEW a \in S \ U, U \in P
      PROVE  U \cup {a} \in P
    <2>1. PICK g : Additive(g, f, U) BY <1>2
    <2> DEFINE h == [T \in SUBSET (U \cup {a}) |->
                        IF a \in T THEN f[a] + g[T \ {a}] ELSE g[T]]
    <2>2. \A T \in SUBSET (U \cup {a}) : T \ {a} \in SUBSET U /\ (a \notin T => T \in SUBSET U)
        OBVIOUS
    <2>3. h \in [SUBSET (U \cup {a}) -> Nat] BY <2>1, <2>2 DEF Additive
    <2>4. h[{}] = 0 BY <2>1 DEF Additive
    <2>5. ASSUME NEW T \in SUBSET (U \cup {a}), NEW x \in T
          PROVE  h[T] = f[x] + h[T \ {x}]
        <3>1. CASE a \notin T BY <2>1, <2>2, <3>1 DEF Additive
        <3>2. CASE x = a BY <2>1, <2>2, <3>2 DEF Additive
        <3>3. CASE a \in T /\ x # a
            <4>1. T \ {x} \in SUBSET (U \cup {a}) /\ a \in T \ {x} BY <3>3
            <4>2. (T \ {x}) \ {a} = (T \ {a}) \ {x} /\ x \in T \ {a} BY <3>3
            <4>3. h[T \ {x}] = f[a] + g[(T \ {a}) \ {x}] BY <4>1, <4>2
            <4>4. g[T \ {a}] = f[x] + g[(T \ {a}) \ {x}] BY <2>1, <2>2, <4>2 DEF Additive
            <4>5. h[T] = f[a] + g[T \ {a}] BY <3>3
            <4>6. f[a] \in Nat /\ f[x] \in Nat /\ g[(T \ {a}) \ {x}] \in Nat
                <5>1. (T \ {a}) \ {x} \in SUBSET U OBVIOUS
                <5> QED BY <2>1, <5>1 DEF Additive
            <4> HIDE DEF h
            <4> QED BY <4>3, <4>4, <4>5, <4>6
        <3> QED BY <3>1, <3>2, <3>3
    <2> HIDE DEF h
    <2>6. Additive(h, f, U \cup {a}) BY <2>3, <2>4, <2>5 DEF Additive
    <2> QED BY <2>6
<1> HIDE DEF P
<1>3. S \in P BY <1>1, <1>2, SetInduction
<1> QED BY <1>3 DEF P

(* The fold is that function...                                            *)
LEMMA SumIs ==
    ASSUME NEW S, IsFiniteSet(S), NEW f, NEW g, Additive(g, f, S)
    PROVE  SumFunctionOnSet(f, S) = g[S]
<1> DEFINE Rec(h) == [T \in SUBSET S |->
                IF T = {} THEN 0 ELSE f[CHOOSE x \in T : TRUE] + h[T \ {CHOOSE x \in T : TRUE}]]
           iter == CHOOSE h : h = Rec(h)
<1>1. SumFunctionOnSet(f, S) = iter[S] BY DEF SumFunctionOnSet, FoldFunctionOnSet, MapThenFoldSet
<1>2. g = Rec(g)
    <2>1. ASSUME NEW T \in SUBSET S, T # {}
          PROVE  g[T] = f[CHOOSE x \in T : TRUE] + g[T \ {CHOOSE x \in T : TRUE}]
        <3>1. (CHOOSE x \in T : TRUE) \in T BY <2>1
        <3> QED BY <3>1 DEF Additive
    <2>2. \A T \in SUBSET S : g[T] = Rec(g)[T] BY <2>1 DEF Additive
    <2>3. g = [T \in SUBSET S |-> g[T]] BY DEF Additive
    <2> QED BY <2>2, <2>3
<1>3. iter = Rec(iter)
    <2>1. \E h : h = Rec(h) BY <1>2
    <2> QED BY <2>1
<1>4. \A T \in SUBSET S : iter[T] =
        IF T = {} THEN 0 ELSE f[CHOOSE x \in T : TRUE] + iter[T \ {CHOOSE x \in T : TRUE}]
    BY <1>3
<1> HIDE DEF iter, Rec
<1> DEFINE B == {T \in SUBSET S : iter[T] # g[T]}
<1>5. CASE B # {}
    <2>1. B \subseteq SUBSET S OBVIOUS
    <2> HIDE DEF B
    <2>2. PICK T \in B : \A U \in SUBSET T : U # T => U \notin B BY <1>5, <2>1, MinimalSet
    <2> USE DEF B
    <2>3. T \in SUBSET S /\ iter[T] # g[T] OBVIOUS
    <2>4. CASE T = {} BY <2>3, <2>4, <1>4 DEF Additive
    <2>5. CASE T # {}
        <3> DEFINE x == CHOOSE x \in T : TRUE
        <3>1. x \in T BY <2>5
        <3>2. iter[T] = f[x] + iter[T \ {x}] BY <1>4, <2>3, <2>5
        <3> HIDE DEF x
        <3>3. T \ {x} \in SUBSET T /\ T \ {x} # T /\ T \ {x} \in SUBSET S BY <3>1, <2>3
        <3>4. iter[T \ {x}] = g[T \ {x}] BY <2>2, <3>3
        <3>5. g[T] = f[x] + g[T \ {x}] BY <2>3, <3>1 DEF Additive
        <3> QED BY <2>3, <3>2, <3>4, <3>5
    <2> QED BY <2>4, <2>5
<1>6. CASE B = {}
    <2>1. iter[S] = g[S] BY <1>6
    <2> QED BY <1>1, <2>1
<1> QED BY <1>5, <1>6

(* ...and so are the folds over parts of the set.                          *)
LEMMA SumTracks ==
    ASSUME NEW S, IsFiniteSet(S), NEW f, NEW g, Additive(g, f, S), NEW T \in SUBSET S
    PROVE  SumFunctionOnSet(f, T) = g[T]
<1> DEFINE h == [U \in SUBSET T |-> g[U]]
<1>1. \A U \in SUBSET T : U \in SUBSET S /\ (\A x \in U : U \ {x} \in SUBSET T) OBVIOUS
<1>2. Additive(h, f, T) BY <1>1 DEF Additive
<1>3. IsFiniteSet(T) BY FS_Subset
<1>4. h[T] = g[T] OBVIOUS
<1> HIDE DEF h
<1> QED BY <1>2, <1>3, <1>4, SumIs

(* Nothing sums to 0.                                                      *)
LEMMA SumEmpty == ASSUME NEW f PROVE SumFunctionOnSet(f, {}) = 0
<1>1. PICK g : Additive(g, f, {}) BY FS_EmptySet, AdditiveExists
<1>2. SumFunctionOnSet(f, {}) = g[{}] BY <1>1, FS_EmptySet, SumIs
<1> QED BY <1>1, <1>2 DEF Additive

(* Any element can be taken out of a sum.                                  *)
LEMMA SumElement ==
    ASSUME NEW S, IsFiniteSet(S), NEW f, \A x \in S : f[x] \in Nat
    PROVE  /\ SumFunctionOnSet(f, S) \in Nat
           /\ \A x \in S : SumFunctionOnSet(f, S) = f[x] + SumFunctionOnSet(f, S \ {x})
<1>1. PICK g : Additive(g, f, S) BY AdditiveExists
<1>2. \A T \in SUBSET S : SumFunctionOnSet(f, T) = g[T] BY <1>1, SumTracks
<1>3. S \in SUBSET S /\ \A x \in S : S \ {x} \in SUBSET S OBVIOUS
<1>4. g[S] \in Nat /\ \A x \in S : g[S] = f[x] + g[S \ {x}] BY <1>1, <1>3 DEF Additive
<1> QED BY <1>2, <1>3, <1>4

(* The sum with one more element.                                          *)
LEMMA SumAdd ==
    ASSUME NEW S, IsFiniteSet(S), NEW f, NEW x, x \notin S, f[x] \in Nat,
           \A y \in S : f[y] \in Nat
    PROVE  SumFunctionOnSet(f, S \cup {x}) = SumFunctionOnSet(f, S) + f[x]
<1>1. IsFiniteSet(S \cup {x}) BY FS_AddElement
<1>2. (S \cup {x}) \ {x} = S OBVIOUS
<1>3. SumFunctionOnSet(f, S) \in Nat BY SumElement
<1>4. SumFunctionOnSet(f, S \cup {x}) = f[x] + SumFunctionOnSet(f, (S \cup {x}) \ {x})
    BY <1>1, SumElement
<1>5. SumFunctionOnSet(f, S \cup {x}) = f[x] + SumFunctionOnSet(f, S) BY Zenon, <1>2, <1>4
<1> QED BY <1>3, <1>5

(* Only the values in the set matter.                                      *)
LEMMA SumSame ==
    ASSUME NEW S, IsFiniteSet(S), NEW f, NEW g, \A x \in S : f[x] \in Nat /\ g[x] = f[x]
    PROVE  SumFunctionOnSet(g, S) = SumFunctionOnSet(f, S)
<1>1. PICK a : Additive(a, f, S) BY AdditiveExists
<1>2. Additive(a, g, S) BY <1>1 DEF Additive
<1> QED BY <1>1, <1>2, SumIs

(* The sum over two disjoint sets.                                         *)
LEMMA SumUnion ==
    ASSUME NEW S, IsFiniteSet(S), NEW T, IsFiniteSet(T), S \cap T = {},
           NEW f, \A x \in S \cup T : f[x] \in Nat
    PROVE  SumFunctionOnSet(f, S \cup T) = SumFunctionOnSet(f, S) + SumFunctionOnSet(f, T)
<1> DEFINE P == {U \in SUBSET T :
                    SumFunctionOnSet(f, S \cup U)
                      = SumFunctionOnSet(f, S) + SumFunctionOnSet(f, U)}
<1>0. SumFunctionOnSet(f, S) \in Nat BY SumElement
<1>1. {} \in P
    <2>1. S \cup {} = S OBVIOUS
    <2> QED BY <1>0, <2>1, SumEmpty
<1>2. ASSUME NEW U \in SUBSET T, NEW x \in T \ U, U \in P
      PROVE  U \cup {x} \in P
    <2>1. IsFiniteSet(U) /\ IsFiniteSet(S \cup U) BY FS_Subset, FS_Union
    <2>2. x \notin S \cup U /\ x \notin U /\ (S \cup U) \cup {x} = S \cup (U \cup {x}) OBVIOUS
    <2>3. SumFunctionOnSet(f, (S \cup U) \cup {x}) = SumFunctionOnSet(f, S \cup U) + f[x]
        BY <2>1, <2>2, SumAdd
    <2>4. SumFunctionOnSet(f, U \cup {x}) = SumFunctionOnSet(f, U) + f[x] BY <2>1, <2>2, SumAdd
    <2>5. SumFunctionOnSet(f, U) \in Nat /\ f[x] \in Nat BY <2>1, SumElement
    <2>6. SumFunctionOnSet(f, S \cup U) = SumFunctionOnSet(f, S) + SumFunctionOnSet(f, U) BY <1>2
    <2>7. SumFunctionOnSet(f, S \cup (U \cup {x}))
            = SumFunctionOnSet(f, S) + SumFunctionOnSet(f, U \cup {x})
        <3>1. SumFunctionOnSet(f, S \cup (U \cup {x})) = SumFunctionOnSet(f, S \cup U) + f[x]
            BY Zenon, <2>2, <2>3
        <3> QED BY <1>0, <2>4, <2>5, <2>6, <3>1
    <2> QED BY <2>7
<1> HIDE DEF P
<1>3. T \in P BY <1>1, <1>2, SetInduction
<1> QED BY <1>3 DEF P

(* h pairs the members of S with those of T, and with them the values.     *)
Reindexes(h, S, T, f, g) ==
    /\ h \in [S -> T]
    /\ \A x, y \in S : h[x] = h[y] => x = y
    /\ \A z \in T : \E x \in S : h[x] = z
    /\ \A x \in S : f[x] \in Nat /\ g[h[x]] = f[x]

(* The same values under other indices have the same sum.                  *)
LEMMA SumReindex ==
    ASSUME NEW S, IsFiniteSet(S), NEW T, NEW h, NEW f, NEW g, Reindexes(h, S, T, f, g)
    PROVE  SumFunctionOnSet(g, T) = SumFunctionOnSet(f, S)
<1> DEFINE Img(U) == {h[x] : x \in U}
           P == {U \in SUBSET S : IsFiniteSet(Img(U))
                    /\ SumFunctionOnSet(g, Img(U)) = SumFunctionOnSet(f, U)}
<1>1. {} \in P
    <2>1. Img({}) = {} OBVIOUS
    <2> QED BY <2>1, SumEmpty, FS_EmptySet
<1>2. ASSUME NEW U \in SUBSET S, NEW x \in S \ U, U \in P
      PROVE  U \cup {x} \in P
    <2>1. IsFiniteSet(U) BY FS_Subset
    <2>2. Img(U \cup {x}) = Img(U) \cup {h[x]} /\ h[x] \notin Img(U) BY DEF Reindexes
    <2>3. IsFiniteSet(Img(U)) /\ SumFunctionOnSet(g, Img(U)) = SumFunctionOnSet(f, U) BY <1>2
    <2>4. \A z \in Img(U) : g[z] \in Nat BY DEF Reindexes
    <2>5. g[h[x]] = f[x] /\ f[x] \in Nat /\ \A y \in U : f[y] \in Nat BY DEF Reindexes
    <2>6. SumFunctionOnSet(g, Img(U) \cup {h[x]}) = SumFunctionOnSet(g, Img(U)) + g[h[x]]
        <3> HIDE DEF Img, P
        <3> QED BY <2>2, <2>3, <2>4, <2>5, SumAdd
    <2>7. SumFunctionOnSet(f, U \cup {x}) = SumFunctionOnSet(f, U) + f[x] BY <2>1, <2>5, SumAdd
    <2>8. IsFiniteSet(Img(U) \cup {h[x]}) BY <2>3, FS_AddElement
    <2>9. /\ IsFiniteSet(Img(U \cup {x}))
          /\ SumFunctionOnSet(g, Img(U \cup {x})) = SumFunctionOnSet(f, U \cup {x})
        <3> HIDE DEF Img, P
        <3> QED BY <2>2, <2>3, <2>5, <2>6, <2>7, <2>8
    <2> HIDE DEF Img
    <2> QED BY <2>9
<1>3. Img(S) = T BY DEF Reindexes
<1> HIDE DEF P
<1>4. S \in P BY <1>1, <1>2, SetInduction
<1> QED BY <1>3, <1>4 DEF P
=============================================================================

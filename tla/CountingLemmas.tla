--------------------------- MODULE CountingLemmas ---------------------------
(***************************************************************************)
(* Induction over finite sets, and the folds the models use.               *)
(*                                                                         *)
(* The induction theorems of the library take the property to be proved as *)
(* an operator.  Here it is the set of those subsets that have it, so that *)
(* the well-foundedness of strict inclusion can be used directly.          *)
(***************************************************************************)
EXTENDS Integers, Sequences, FiniteSets, Functions, FiniteSetTheorems, TLAPS

\* Induction over the subsets of a finite set: what holds of a set whenever it
\* holds of all its proper subsets holds of S.
LEMMA SubsetInduction ==
  ASSUME NEW S, IsFiniteSet(S), NEW Good,
         \A T \in SUBSET S : (\A U \in SUBSET T : U # T => U \in Good) => T \in Good
  PROVE  S \in Good
<1> DEFINE Bad == FiniteSubsetsOf(S) \ Good
<1>1. FiniteSubsetsOf(S) = SUBSET S
  BY FS_FiniteSubsetsOfFinite
<1>2. CASE Bad # {}
  <2>1. PICK T \in Bad : \A U \in Bad : <<U, T>> \notin StrictSubsetOrdering(S)
    <3>1. IsWellFoundedOn(StrictSubsetOrdering(S), FiniteSubsetsOf(S))
      BY FS_StrictSubsetOrderingWellFounded
    <3>2. Bad \subseteq FiniteSubsetsOf(S)
      OBVIOUS
    <3> HIDE DEF Bad
    <3>3. \E T \in Bad : \A U \in Bad : ~(<<U, T>> \in StrictSubsetOrdering(S))
      BY <1>2, <3>1, <3>2, WFMin
    <3>4. QED
      BY <3>3
  <2>2. T \in SUBSET S /\ T \notin Good
    BY <1>1, <2>1
  <2>3. PICK U \in SUBSET T : U # T /\ U \notin Good
    BY <2>2
  <2>4. <<U, T>> \in StrictSubsetOrdering(S)
    BY <2>2, <2>3 DEF StrictSubsetOrdering
  <2>5. QED
    BY <1>1, <2>1, <2>2, <2>3, <2>4
<1>3. QED
  BY <1>1, <1>2

\* Induction over a finite set, one element at a time.
LEMMA SetInduction ==
  ASSUME NEW S, IsFiniteSet(S), NEW Good, {} \in Good,
         \A T \in SUBSET S : \A x \in S \ T : T \in Good => T \cup {x} \in Good
  PROVE  S \in Good
<1>1. ASSUME NEW T \in SUBSET S, \A U \in SUBSET T : U # T => U \in Good
      PROVE  T \in Good
  <2>1. CASE T = {}
    BY <2>1
  <2>2. ASSUME NEW x \in T PROVE T \in Good
    <3>1. T \ {x} \in SUBSET S /\ x \in S \ (T \ {x}) /\ (T \ {x}) \cup {x} = T
      BY <2>2
    <3>2. T \ {x} \in SUBSET T /\ T \ {x} # T
      BY <2>2
    <3>3. QED
      BY <1>1, <3>1, <3>2
  <2>3. QED
    BY <2>1, <2>2
<1>2. QED
  BY <1>1, SubsetInduction

\* Induction up to a natural number.
LEMMA UptoInduction ==
  ASSUME NEW n \in Nat, NEW Good, 0 \in Good, \A k \in 0..n : k > 0 /\ k - 1 \in Good => k \in Good
  PROVE  \A k \in 0..n : k \in Good
<1> DEFINE S == 0..n
           Reached == { T \in SUBSET S : \A k \in S : T = 0..k => k \in Good }
<1>1. IsFiniteSet(S)
  BY FS_Interval
<1>2. ASSUME NEW T \in SUBSET S, \A U \in SUBSET T : U # T => U \in Reached
      PROVE  T \in Reached
  <2> SUFFICES ASSUME NEW k \in S, T = 0..k PROVE k \in Good
    OBVIOUS
  <2>1. CASE k = 0
    BY <2>1
  <2>2. CASE k > 0
    <3>1. 0..(k - 1) \in SUBSET T /\ 0..(k - 1) # T /\ k - 1 \in S
      BY <2>2
    <3>2. 0..(k - 1) \in Reached
      BY <1>2, <3>1
    <3>3. k - 1 \in Good
      BY <3>1, <3>2
    <3>4. QED
      BY <2>2, <3>3
  <2>3. QED
    BY <2>1, <2>2
<1> HIDE DEF Reached, S
<1>3. \A T \in SUBSET S : T \in Reached
  <2> SUFFICES ASSUME NEW T \in SUBSET S PROVE T \in Reached
    OBVIOUS
  <2>1. IsFiniteSet(T)
    BY <1>1, FS_Subset
  <2>2. \A U \in SUBSET T : (\A V \in SUBSET U : V # U => V \in Reached) => U \in Reached
    BY <1>2
  <2>3. QED
    BY <2>1, <2>2, SubsetInduction
<1>4. \A k \in S : 0..k \in SUBSET S
  BY DEF S
<1>5. \A k \in S : k \in Good
  BY <1>3, <1>4 DEF Reached
<1>6. QED
  BY <1>5 DEF S

-----------------------------------------------------------------------------
(* A sum is a count. *)

\* w[x] units of each x in S: as many as the sum of w over S.
Units(w, S) == { u \in S \X Nat : u[2] \in 1..w[u[1]] }

\* A new element adds its own units.
LEMMA UnitsAdd ==
  ASSUME NEW w, NEW T, IsFiniteSet(Units(w, T)), NEW x, x \notin T, w[x] \in Nat
  PROVE  /\ IsFiniteSet(Units(w, T \cup {x}))
         /\ Cardinality(Units(w, T \cup {x})) = w[x] + Cardinality(Units(w, T))
<1> DEFINE new == {x} \X (1..w[x])
<1>1. IsFiniteSet(1..w[x]) /\ Cardinality(1..w[x]) = w[x]
  <2>1. \A n \in Nat : IsFiniteSet(1..n) /\ Cardinality(1..n) = n
    BY FS_Interval, SMTT(60)
  <2>2. QED
    BY <2>1
<1>2. IsFiniteSet({x}) /\ Cardinality({x}) = 1
  BY FS_Singleton
<1>3. IsFiniteSet(new) /\ Cardinality(new) = w[x]
  <2>1. IsFiniteSet(new) /\ Cardinality(new) = Cardinality({x}) * Cardinality(1..w[x])
    BY <1>1, <1>2, FS_Product
  <2>2. Cardinality({x}) * Cardinality(1..w[x]) = 1 * w[x]
    BY <1>1, <1>2, Zenon
  <2>3. 1 * w[x] = w[x]
    OBVIOUS
  <2> HIDE DEF new
  <2>4. QED
    BY <2>1, <2>2, <2>3, Zenon
<1>4. Units(w, T \cup {x}) = Units(w, T) \cup new
  <2>1. \A u \in new : u \in Units(w, T \cup {x})
    <3>1. \A n \in 1..w[x] : n \in Nat /\ <<x, n>> \in (T \cup {x}) \X Nat
      OBVIOUS
    <3>2. \A n \in 1..w[x] : <<x, n>> \in Units(w, T \cup {x})
      BY <3>1 DEF Units
    <3>3. QED
      BY <3>2
  <2>2. \A u \in Units(w, T \cup {x}) : u \in Units(w, T) \/ u \in new
    <3> SUFFICES ASSUME NEW y \in T \cup {x}, NEW n \in Nat, n \in 1..w[y], y \notin T
                 PROVE  <<y, n>> \in new
      BY DEF Units
    <3>1. QED
      OBVIOUS
  <2>3. \A u \in Units(w, T) : u \in Units(w, T \cup {x})
    BY DEF Units
  <2> HIDE DEF new
  <2>4. QED
    BY <2>1, <2>2, <2>3
<1>5. Units(w, T) \cap new = {}
  <2>1. \A u \in Units(w, T) : u[1] \in T
    BY DEF Units
  <2>2. \A u \in new : u[1] = x
    OBVIOUS
  <2> HIDE DEF new
  <2>3. QED
    BY <2>1, <2>2
<1>6. Cardinality({}) = 0 /\ Cardinality(Units(w, T)) \in Nat
  BY FS_EmptySet, FS_CardinalityType
<1> HIDE DEF new
<1>7. /\ IsFiniteSet(Units(w, T) \cup new)
      /\ Cardinality(Units(w, T) \cup new)
           = Cardinality(Units(w, T)) + Cardinality(new) - Cardinality(Units(w, T) \cap new)
  BY <1>3, FS_Union
<1>8. /\ IsFiniteSet(Units(w, T \cup {x}))
      /\ Cardinality(Units(w, T \cup {x})) = Cardinality(Units(w, T)) + w[x] - 0
  BY <1>3, <1>4, <1>5, <1>6, <1>7, Zenon
<1>9. QED
  BY <1>6, <1>8

\* The units of a finite set are finitely many.
LEMMA UnitsFinite ==
  ASSUME NEW S, IsFiniteSet(S), NEW w, \A x \in S : w[x] \in Nat
  PROVE  IsFiniteSet(Units(w, S))
<1> DEFINE Good == { T \in SUBSET S : IsFiniteSet(Units(w, T)) }
<1>1. Units(w, {}) = {}
  BY DEF Units
<1>2. {} \in Good
  BY <1>1, FS_EmptySet
<1>3. \A T \in SUBSET S : \A x \in S \ T : T \in Good => T \cup {x} \in Good
  BY UnitsAdd
<1> HIDE DEF Good
<1>4. S \in Good
  BY <1>2, <1>3, SetInduction
<1>5. QED
  BY <1>4 DEF Good

\* The sum of naturals over a finite set counts their units.
LEMMA SumIsCount ==
  ASSUME NEW S, IsFiniteSet(S), NEW w, \A x \in S : w[x] \in Nat
  PROVE  SumFunctionOnSet(w, S) = Cardinality(Units(w, S))
<1> DEFINE Adds(g) == g = [s \in SUBSET S |->
                        IF s = {} THEN 0
                        ELSE LET x == CHOOSE y \in s : TRUE IN w[x] + g[s \ {x}]]
           count == [s \in SUBSET S |-> Cardinality(Units(w, s))]
           sum == CHOOSE g : Adds(g)
           Good == { s \in SUBSET S : sum[s] = Cardinality(Units(w, s)) }
<1>1. SumFunctionOnSet(w, S) = sum[S]
  BY DEF SumFunctionOnSet, FoldFunctionOnSet, MapThenFoldSet
<1>2. Cardinality(Units(w, {})) = 0
  BY FS_EmptySet DEF Units
<1>3. ASSUME NEW s \in SUBSET S, s # {}
      PROVE  LET x == CHOOSE y \in s : TRUE
             IN  x \in s /\ Cardinality(Units(w, s)) = w[x] + Cardinality(Units(w, s \ {x}))
  <2>1. PICK x : x = CHOOSE y \in s : TRUE
    OBVIOUS
  <2>2. x \in s
    BY <1>3, <2>1
  <2>3. IsFiniteSet(s \ {x}) /\ (s \ {x}) \cup {x} = s
    BY <2>2, FS_Subset
  <2>4. IsFiniteSet(Units(w, s \ {x}))
    BY <2>3, UnitsFinite
  <2>5. Cardinality(Units(w, s)) = w[x] + Cardinality(Units(w, s \ {x}))
    BY <2>2, <2>3, <2>4, UnitsAdd
  <2>6. QED
    BY <2>1, <2>2, <2>5
<1>4. Adds(count)
  BY <1>2, <1>3
<1>5. Adds(sum)
  BY <1>4
<1>6. ASSUME NEW T \in SUBSET S, \A U \in SUBSET T : U # T => U \in Good
      PROVE  T \in Good
  <2> DEFINE x == CHOOSE y \in T : TRUE
  <2>1. CASE T = {}
    BY <1>2, <1>5, <2>1
  <2>2. CASE T # {}
    <3>1. x \in T /\ Cardinality(Units(w, T)) = w[x] + Cardinality(Units(w, T \ {x}))
      BY <1>3, <2>2
    <3>2. T \ {x} \in Good
      BY <1>6, <3>1
    <3>3. sum[T] = w[x] + sum[T \ {x}]
      BY <1>5, <2>2
    <3>4. QED
      BY <3>1, <3>2, <3>3
  <2>3. QED
    BY <2>1, <2>2
<1> HIDE DEF Good
<1>7. S \in Good
  BY <1>6, SubsetInduction
<1>8. QED
  BY <1>1, <1>7 DEF Good

\* One unit more of one element is one unit more in all.
LEMMA UnitsBump ==
  ASSUME NEW S, IsFiniteSet(S), NEW w, \A y \in S : w[y] \in Nat,
         NEW x \in S, NEW v, \A y \in S : v[y] = IF y = x THEN w[y] + 1 ELSE w[y]
  PROVE  Cardinality(Units(v, S)) = Cardinality(Units(w, S)) + 1
<1> DEFINE u == <<x, w[x] + 1>>
<1>1. u \notin Units(w, S)
  BY DEF Units
<1>2. Units(v, S) = Units(w, S) \cup {u}
  <2>1. \A y \in S, n \in Nat : n \in 1..v[y] <=> n \in 1..w[y] \/ (y = x /\ n = w[x] + 1)
    OBVIOUS
  <2>2. ASSUME NEW y \in S, NEW n \in Nat
        PROVE  <<y, n>> \in Units(v, S) <=> <<y, n>> \in Units(w, S) \cup {u}
    <3>1. <<y, n>> \in Units(v, S) <=> n \in 1..v[y]
      BY DEF Units
    <3>2. <<y, n>> \in Units(w, S) <=> n \in 1..w[y]
      BY DEF Units
    <3>3. QED
      BY <2>1, <3>1, <3>2
  <2>3. Units(v, S) \subseteq S \X Nat /\ Units(w, S) \subseteq S \X Nat /\ u \in S \X Nat
    BY DEF Units
  <2> HIDE DEF u
  <2>4. QED
    BY <2>2, <2>3
<1>3. IsFiniteSet(Units(w, S))
  BY UnitsFinite
<1> HIDE DEF u
<1>4. QED
  BY <1>1, <1>2, <1>3, FS_AddElement

\* Fewer units of each element are not more in all, and fewer if one has fewer.
LEMMA UnitsUnder ==
  ASSUME NEW S, IsFiniteSet(S), NEW v, NEW w,
         \A y \in S : v[y] \in Nat /\ w[y] \in Nat /\ v[y] <= w[y]
  PROVE  /\ Cardinality(Units(v, S)) \in Nat /\ Cardinality(Units(w, S)) \in Nat
         /\ Cardinality(Units(v, S)) <= Cardinality(Units(w, S))
         /\ (\E x \in S : v[x] < w[x]) => Cardinality(Units(v, S)) < Cardinality(Units(w, S))
<1>1. IsFiniteSet(Units(w, S)) /\ IsFiniteSet(Units(v, S))
  BY UnitsFinite
<1>2. Units(v, S) \subseteq Units(w, S)
  <2>1. \A y \in S, n \in Nat : n \in 1..v[y] => n \in 1..w[y]
    OBVIOUS
  <2>2. QED
    BY <2>1 DEF Units
<1>3. ASSUME NEW x \in S, v[x] < w[x] PROVE Units(v, S) # Units(w, S)
  <2>1. w[x] \in 1..w[x] /\ w[x] \notin 1..v[x]
    BY <1>3
  <2>2. <<x, w[x]>> \in Units(w, S) /\ <<x, w[x]>> \notin Units(v, S)
    BY <2>1 DEF Units
  <2>3. QED
    BY <2>2
<1>4. QED
  BY <1>1, <1>2, <1>3, FS_Subset, FS_CardinalityType

-----------------------------------------------------------------------------
(* A set as a list. *)

\* The elements of S, each appended once.
Listing(S) ==
  MapThenFoldSet(LAMBDA d, listed : Append(listed, d), <<>>, LAMBDA x : x,
                 LAMBDA s : CHOOSE x \in s : TRUE, S)

\* A function on the subsets of S of at most n elements that appends them as
\* Listing does.
Appends(g, S, n) ==
  g = [s \in { s \in SUBSET S : Cardinality(s) <= n } |->
         IF s = {} THEN <<>>
         ELSE LET x == CHOOSE y \in s : TRUE IN Append(g[s \ {x}], x)]

\* Choosing an element of a finite set leaves a smaller one.
LEMMA ChooseLess ==
  ASSUME NEW s, IsFiniteSet(s), s # {}
  PROVE  LET x == CHOOSE y \in s : TRUE
         IN  /\ x \in s /\ IsFiniteSet(s \ {x})
             /\ Cardinality(s) \in Nat /\ Cardinality(s \ {x}) = Cardinality(s) - 1
<1>1. PICK x : x = CHOOSE y \in s : TRUE
  OBVIOUS
<1>2. x \in s
  BY <1>1
<1>3. /\ IsFiniteSet(s \ {x}) /\ Cardinality(s) \in Nat
      /\ Cardinality(s \ {x}) = Cardinality(s) - 1
  BY <1>2, FS_RemoveElement, FS_CardinalityType
<1>4. QED
  BY <1>1, <1>2, <1>3

\* Such functions exist, for every finite set and every size.
LEMMA AppendsExists ==
  ASSUME NEW S, IsFiniteSet(S)
  PROVE  \E g : Appends(g, S, Cardinality(S))
<1> DEFINE Good == { T \in SUBSET S : \E g : Appends(g, S, Cardinality(T)) }
           Upto(n) == { s \in SUBSET S : Cardinality(s) <= n }
<1>1. \A s \in SUBSET S : IsFiniteSet(s) /\ Cardinality(s) \in Nat
  BY FS_Subset, FS_CardinalityType
<1>2. {} \in Good
  <2> DEFINE g == [s \in Upto(0) |-> <<>>]
  <2>1. Cardinality({}) = 0
    BY FS_EmptySet
  <2>2. \A s \in Upto(0) : s = {}
    BY <1>1, FS_EmptySet
  <2>3. Appends(g, S, 0)
    BY <2>2 DEF Appends
  <2>4. QED
    BY <2>1, <2>3
<1>3. ASSUME NEW T \in SUBSET S, NEW e \in S \ T, T \in Good
      PROVE  T \cup {e} \in Good
  <2> DEFINE n == Cardinality(T)
             body(g, s) == IF s = {} THEN <<>>
                           ELSE LET x == CHOOSE y \in s : TRUE IN Append(g[s \ {x}], x)
  <2>1. PICK f : Appends(f, S, n)
    BY <1>3
  <2> DEFINE g == [s \in Upto(n + 1) |-> body(f, s)]
  <2>2. n \in Nat /\ Cardinality(T \cup {e}) = n + 1
    BY <1>1, <1>3, FS_AddElement
  <2>3. \A s \in Upto(n) : f[s] = body(f, s) /\ s \in Upto(n + 1)
    <3>1. \A s \in Upto(n) : s \in Upto(n + 1)
      BY <1>1, <2>2
    <3>2. f = [s \in Upto(n) |-> body(f, s)]
      BY <2>1 DEF Appends
    <3> HIDE DEF body, Upto
    <3>3. QED
      BY <3>1, <3>2
  <2>4. \A s \in Upto(n) : g[s] = f[s]
    BY <2>3
  <2>5. ASSUME NEW s \in Upto(n + 1) PROVE body(f, s) = body(g, s)
    <3>1. CASE s = {}
      BY <3>1
    <3>2. CASE s # {}
      <4> DEFINE x == CHOOSE y \in s : TRUE
      <4>1. s \ {x} \in Upto(n)
        BY <1>1, <2>2, <3>2, ChooseLess
      <4>2. QED
        BY <2>4, <4>1
    <3>3. QED
      BY <3>1, <3>2
  <2>6. Appends(g, S, n + 1)
    <3>1. g = [s \in Upto(n + 1) |-> body(g, s)]
      <4> HIDE DEF body, Upto
      <4>1. QED
        BY <2>5
    <3>2. QED
      BY <3>1 DEF Appends
  <2>7. QED
    BY <2>2, <2>6
<1> HIDE DEF Good
<1>4. S \in Good
  BY <1>2, <1>3, SetInduction
<1>5. QED
  BY <1>4 DEF Good

\* The listing of a finite set has each of its elements once.
LEMMA ListingLists ==
  ASSUME NEW S, IsFiniteSet(S)
  PROVE  /\ Listing(S) \in Seq(S) /\ Len(Listing(S)) = Cardinality(S)
         /\ \A d \in S : \E i \in DOMAIN Listing(S) : Listing(S)[i] = d
         /\ \A i, k \in DOMAIN Listing(S) : Listing(S)[i] = Listing(S)[k] => i = k
<1> DEFINE Adds(g) == g = [s \in SUBSET S |->
                        IF s = {} THEN <<>>
                        ELSE LET x == CHOOSE y \in s : TRUE IN Append(g[s \ {x}], x)]
           list == CHOOSE g : Adds(g)
           Lists(l, s) == /\ l \in Seq(s) /\ Len(l) = Cardinality(s)
                          /\ \A d \in s : \E i \in DOMAIN l : l[i] = d
                          /\ \A i, k \in DOMAIN l : l[i] = l[k] => i = k
           Good == { s \in SUBSET S : Lists(list[s], s) }
<1>1. Listing(S) = list[S]
  BY DEF Listing, MapThenFoldSet
<1>2. \A s \in SUBSET S : IsFiniteSet(s) /\ Cardinality(s) \in Nat /\ Cardinality(s) <= Cardinality(S)
  BY FS_Subset, FS_CardinalityType
<1>3. \E g : Adds(g)
  <2>1. { s \in SUBSET S : Cardinality(s) <= Cardinality(S) } = SUBSET S
    BY <1>2
  <2>2. PICK g : Appends(g, S, Cardinality(S))
    BY AppendsExists
  <2> DEFINE body(s) == IF s = {} THEN <<>>
                        ELSE LET x == CHOOSE y \in s : TRUE IN Append(g[s \ {x}], x)
  <2>3. g = [s \in { s \in SUBSET S : Cardinality(s) <= Cardinality(S) } |-> body(s)]
    BY <2>2 DEF Appends
  <2>4. g = [s \in SUBSET S |-> body(s)]
    <3> HIDE DEF body
    <3>1. QED
      BY <2>1, <2>3
  <2>5. QED
    BY <2>4
<1>4. Adds(list)
  BY <1>3
<1>5. ASSUME NEW s \in SUBSET S, s # {}, NEW l, NEW x \in s, Lists(l, s \ {x})
      PROVE  Lists(Append(l, x), s)
  <2>1. l \in Seq(s \ {x}) /\ l \in Seq(s) /\ x \in s /\ Len(l) \in Nat
    BY <1>5
  <2>2. Len(Append(l, x)) = Cardinality(s)
    BY <1>2, <1>5, <2>1, FS_RemoveElement
  <2>3. /\ DOMAIN l = 1..Len(l) /\ DOMAIN Append(l, x) = 1..(Len(l) + 1)
        /\ Append(l, x)[Len(l) + 1] = x
        /\ \A i \in DOMAIN l : Append(l, x)[i] = l[i] /\ l[i] \in s \ {x}
    BY <2>1
  <2>4. ASSUME NEW d \in s PROVE \E i \in DOMAIN Append(l, x) : Append(l, x)[i] = d
    <3>1. CASE d = x
      BY <2>1, <2>3, <3>1
    <3>2. CASE d # x
      <4>1. PICK i \in DOMAIN l : l[i] = d
        BY <1>5, <3>2
      <4>2. QED
        BY <2>1, <2>3, <4>1
    <3>3. QED
      BY <3>1, <3>2
  <2>5. \A i, k \in DOMAIN Append(l, x) : Append(l, x)[i] = Append(l, x)[k] => i = k
    <3>1. \A i \in DOMAIN Append(l, x) : i \in DOMAIN l \/ i = Len(l) + 1
      BY <2>1, <2>3
    <3>2. QED
      BY <1>5, <2>3, <3>1
  <2>6. QED
    BY <2>1, <2>2, <2>4, <2>5
<1>6. Lists(<<>>, {})
  BY FS_EmptySet
<1> HIDE DEF Lists, list
<1>7. ASSUME NEW T \in SUBSET S, \A U \in SUBSET T : U # T => U \in Good
      PROVE  T \in Good
  <2> DEFINE x == CHOOSE y \in T : TRUE
  <2>1. CASE T = {}
    BY <1>4, <1>6, <2>1
  <2>2. CASE T # {}
    <3>1. x \in T
      BY <2>2
    <3>2. Lists(list[T \ {x}], T \ {x})
      BY <1>7, <3>1
    <3>3. list[T] = Append(list[T \ {x}], x)
      BY <1>4, <2>2
    <3> HIDE DEF x
    <3>4. Lists(list[T], T)
      BY <1>5, <2>2, <3>1, <3>2, <3>3
    <3>5. QED
      BY <3>4
  <2>3. QED
    BY <2>1, <2>2
<1> HIDE DEF Good
<1>8. S \in Good
  BY <1>7, SubsetInduction
<1>9. QED
  BY <1>1, <1>8 DEF Good, Lists

\* Summing along a list that has each element of S once is summing over S.
LEMMA SumAlongList ==
  ASSUME NEW S, IsFiniteSet(S), NEW w, \A d \in S : w[d] \in Nat,
         NEW l \in Seq(S), \A d \in S : \E i \in DOMAIN l : l[i] = d,
         \A i, k \in DOMAIN l : l[i] = l[k] => i = k,
         NEW v, \A i \in DOMAIN l : v[i] = w[l[i]]
  PROVE  SumFunctionOnSet(v, DOMAIN l) = SumFunctionOnSet(w, S)
<1> DEFINE D == DOMAIN l
           b == [u \in Units(v, D) |-> <<l[u[1]], u[2]>>]
<1>1. /\ IsFiniteSet(D)
      /\ \A i \in D : l[i] \in S /\ v[i] \in Nat
  <2>1. D = 1..Len(l) /\ Len(l) \in Nat /\ \A i \in D : l[i] \in S
    OBVIOUS
  <2>2. IsFiniteSet(D)
    BY <2>1, FS_Interval
  <2>3. QED
    BY <2>1, <2>2
<1>2. b \in [Units(v, D) -> Units(w, S)]
  <2>1. ASSUME NEW i \in D, NEW n \in Nat, n \in 1..v[i]
        PROVE  <<l[i], n>> \in Units(w, S)
    BY <1>1, <2>1 DEF Units
  <2>2. \A u \in Units(v, D) : u[1] \in D /\ u[2] \in Nat /\ u[2] \in 1..v[u[1]]
    BY DEF Units
  <2> HIDE DEF D
  <2>3. QED
    BY <2>1, <2>2
<1>3. \A u, t \in Units(v, D) : b[u] = b[t] => u = t
  <2>1. \A u \in Units(v, D) : u = <<u[1], u[2]>> /\ u[1] \in D
    BY DEF Units
  <2> SUFFICES ASSUME NEW u \in Units(v, D), NEW t \in Units(v, D), b[u] = b[t] PROVE u = t
    OBVIOUS
  <2>2. l[u[1]] = l[t[1]] /\ u[2] = t[2]
    OBVIOUS
  <2>3. u[1] = t[1]
    BY <2>1, <2>2
  <2>4. QED
    BY <2>1, <2>2, <2>3
<1>4. \A t \in Units(w, S) : \E u \in Units(v, D) : b[u] = t
  <2> SUFFICES ASSUME NEW t \in Units(w, S) PROVE \E u \in Units(v, D) : b[u] = t
    OBVIOUS
  <2>1. t = <<t[1], t[2]>> /\ t[1] \in S /\ t[2] \in Nat /\ t[2] \in 1..w[t[1]]
    BY DEF Units
  <2>2. PICK i \in D : l[i] = t[1]
    BY <2>1
  <2>3. <<i, t[2]>> \in Units(v, D)
    BY <2>1, <2>2 DEF Units
  <2>4. b[<<i, t[2]>>] = t
    BY <2>1, <2>2, <2>3
  <2>5. QED
    BY <2>3, <2>4
<1>5. ExistsBijection(Units(v, D), Units(w, S))
  <2> HIDE DEF b, D
  <2>1. b \in Bijection(Units(v, D), Units(w, S))
    BY <1>2, <1>3, <1>4 DEF Bijection, Injection, IsInjective, Surjection
  <2>2. QED
    BY <2>1 DEF ExistsBijection
<1>6. Cardinality(Units(w, S)) = Cardinality(Units(v, D))
  <2>1. IsFiniteSet(Units(v, D))
    BY <1>1, UnitsFinite
  <2>2. QED
    BY <1>5, <2>1, FS_Bijection
<1>7. QED
  BY <1>1, <1>6, SumIsCount

-----------------------------------------------------------------------------
\* The image of a finite set is finite.
LEMMA FiniteImage ==
  ASSUME NEW S, IsFiniteSet(S), NEW f
  PROVE  IsFiniteSet({ f[x] : x \in S })
<1> DEFINE T == { f[x] : x \in S }
           g == [x \in S |-> f[x]]
<1>1. g \in Surjection(S, T)
  BY DEF Surjection
<1>2. QED
  BY <1>1, FS_Surjection DEF ExistsSurjection

-----------------------------------------------------------------------------
\* A finite set with a total order has a least element.
LEMMA LeastExists ==
  ASSUME NEW S, IsFiniteSet(S), S # {}, NEW R,
         \A x, y \in S : x = y \/ <<x, y>> \in R \/ <<y, x>> \in R,
         \A x, y, z \in S : <<x, y>> \in R /\ <<y, z>> \in R => <<x, z>> \in R
  PROVE  \E m \in S : \A k \in S : k # m => <<m, k>> \in R
<1> DEFINE least(m, T) == \A k \in T : k # m => <<m, k>> \in R
           Good == { T \in SUBSET S : T = {} \/ \E m \in T : least(m, T) }
<1>1. {} \in Good
  OBVIOUS
<1>2. ASSUME NEW T \in SUBSET S, NEW x \in S \ T, T \in Good
      PROVE  T \cup {x} \in Good
  <2>1. CASE T = {}
    BY <2>1
  <2>2. CASE T # {}
    <3>1. PICK m \in T : least(m, T)
      BY <1>2, <2>2
    <3>2. CASE <<m, x>> \in R
      BY <3>1, <3>2
    <3>3. CASE <<x, m>> \in R
      <4>1. \A k \in T : <<x, k>> \in R
        BY <3>1, <3>3
      <4>2. least(x, T \cup {x})
        BY <4>1
      <4>3. QED
        BY <4>2
    <3>4. QED
      BY <3>1, <3>2, <3>3
  <2>3. QED
    BY <2>1, <2>2
<1> HIDE DEF Good
<1>3. S \in Good
  BY <1>1, <1>2, SetInduction
<1>4. QED
  BY <1>3 DEF Good
=============================================================================

------------------------------ MODULE SetSums -------------------------------
(***************************************************************************)
(* Lemmas about the sum of a function's values over a finite set, as the   *)
(* community modules define it: the fold is well defined, does not depend  *)
(* on the order in which it picks the elements, and changes with a single  *)
(* value by as much as the value does.                                     *)
(*                                                                         *)
(* The inductions are proofs by a smallest counterexample, a subset none   *)
(* of whose proper subsets is one (SmallestSet).                           *)
(***************************************************************************)
EXTENDS FiniteSetsExt, FiniteSetTheorems, TLAPS

\* The sum of b over S, as in the total of file sizes in used_bytes.
SumOf(b, S) == MapThenSumSet(LAMBDA c : b[c], S)

\* The element that the fold takes first.
Pick(s) == CHOOSE x \in s : TRUE

\* What the fold's recursive function is on the subsets of S.
Sums(b, S, it) ==
  it = [s \in SUBSET S |-> IF s = {} THEN 0 ELSE b[Pick(s)] + it[s \ {Pick(s)}]]

\* A recursive function of TLA+ is a choice.
LEMMA SumOfDef ==
  ASSUME NEW b, NEW S
  PROVE  SumOf(b, S) = (CHOOSE it : Sums(b, S, it))[S]
  BY DEF SumOf, MapThenSumSet, MapThenFoldSet, Sums, Pick

\* Among subsets of a finite set there is one without a smaller one.
LEMMA SmallestSet ==
  ASSUME NEW S, IsFiniteSet(S), NEW Q \in SUBSET SUBSET S, Q # {}
  PROVE  \E T \in Q : \A U \in SUBSET T : U # T => U \notin Q
<1>. DEFINE R == StrictSubsetOrdering(S)
<1>1. IsWellFoundedOn(R, SUBSET S)
  BY FS_StrictSubsetOrderingWellFounded, FS_FiniteSubsetsOfFinite
<1>. HIDE DEF R
<1>2. PICK T \in Q : \A U \in Q : ~ (<<U, T>> \in R)
  BY <1>1, WFMin
<1>3. ASSUME NEW U \in SUBSET T, U # T, U \in Q PROVE FALSE
  <2>1. <<U, T>> \in (SUBSET S) \X (SUBSET S)
    OBVIOUS
  <2>. QED BY <1>2, <1>3, <2>1 DEF R, StrictSubsetOrdering
<1>. QED BY <1>2, <1>3

\* The element picked is one of the set.
LEMMA Picked ==
  ASSUME NEW s, s # {}
  PROVE  Pick(s) \in s /\ s \ {Pick(s)} \in SUBSET s /\ s \ {Pick(s)} # s
  BY DEF Pick

\* Two such functions agree where both are defined.
LEMMA SumsAgree ==
  ASSUME NEW b, NEW S, IsFiniteSet(S), NEW T \in SUBSET S,
         NEW f, Sums(b, S, f), NEW g, Sums(b, T, g)
  PROVE  f[T] = g[T]
<1>. DEFINE Q == {s \in SUBSET T : f[s] # g[s]}
<1>. SUFFICES ASSUME Q # {} PROVE FALSE
  OBVIOUS
<1>1. IsFiniteSet(T) /\ Q \in SUBSET SUBSET T
  BY FS_Subset
<1>2. PICK s \in Q : \A U \in SUBSET s : U # s => U \notin Q
  <2>. HIDE DEF Q
  <2>. QED BY <1>1, SmallestSet
<1>3. CASE s = {}
  <2>1. f[s] = 0 /\ g[s] = 0
    BY <1>3 DEF Sums
  <2>. QED BY <2>1
<1>4. CASE s # {}
  <2>. DEFINE U == s \ {Pick(s)}
  <2>1. U \in SUBSET s /\ U # s
    BY <1>4, Picked
  <2>2. f[U] = g[U]
    BY <2>1, <1>2
  <2>. HIDE DEF U
  <2>3. f[s] = b[Pick(s)] + f[U] /\ g[s] = b[Pick(s)] + g[U]
    BY <1>4 DEF Sums, U
  <2>. QED BY <2>2, <2>3
<1>. QED BY <1>3, <1>4

\* There is such a function: its value on a set comes from one on the set
\* without the element picked.
LEMMA SumsExist ==
  ASSUME NEW b, NEW S, IsFiniteSet(S)
  PROVE  \E it : Sums(b, S, it)
<1>. DEFINE Q == {T \in SUBSET S : ~ \E it : Sums(b, T, it)}
<1>. SUFFICES ASSUME Q # {} PROVE FALSE
  OBVIOUS
<1>0. Q \in SUBSET SUBSET S
  OBVIOUS
<1>1. PICK T \in Q : \A U \in SUBSET T : U # T => U \notin Q
  <2>. HIDE DEF Q
  <2>. QED BY <1>0, SmallestSet
<1>. DEFINE F(U) == CHOOSE it : Sums(b, U, it)
            Less(s) == s \ {Pick(s)}
            it == [s \in SUBSET T |-> IF s = {} THEN 0 ELSE b[Pick(s)] + F(Less(s))[Less(s)]]
<1>2. ASSUME NEW U \in SUBSET T, U # T PROVE Sums(b, U, F(U)) /\ IsFiniteSet(U)
  <2>1. U \in SUBSET S /\ U \notin Q
    BY <1>1, <1>2
  <2>2. PICK g : Sums(b, U, g)
    BY <2>1
  <2>3. IsFiniteSet(U)
    BY <2>1, FS_Subset
  <2>. QED BY <2>2, <2>3
<1>3. ASSUME NEW s \in SUBSET T, s # {}
      PROVE  /\ Less(s) \in SUBSET T /\ Less(s) # T
             /\ Less(s) \in SUBSET s
  BY <1>3, Picked
<1>. HIDE DEF F, Q
<1>4. ASSUME NEW U \in SUBSET T, U # T PROVE it[U] = F(U)[U]
  <2>1. CASE U = {}
    <3>1. F(U)[U] = 0
      BY <1>2, <1>4, <2>1 DEF Sums
    <3>. QED BY <3>1, <2>1
  <2>2. CASE U # {}
    <3>1. Sums(b, U, F(U)) /\ IsFiniteSet(U)
      BY <1>2, <1>4
    <3>2. Less(U) \in SUBSET T /\ Less(U) # T /\ Less(U) \in SUBSET U
      BY <1>3, <2>2
    <3>. HIDE DEF it
    <3>3. Sums(b, Less(U), F(Less(U)))
      BY <1>2, <3>2
    <3>4. F(U)[Less(U)] = F(Less(U))[Less(U)]
      BY <3>1, <3>2, <3>3, SumsAgree
    <3>5. F(U)[U] = b[Pick(U)] + F(U)[Less(U)]
      BY <3>1, <2>2 DEF Sums
    <3>6. it[U] = b[Pick(U)] + F(Less(U))[Less(U)]
      BY <2>2 DEF it
    <3>. QED BY <3>4, <3>5, <3>6
  <2>. QED BY <2>1, <2>2
<1>5. ASSUME NEW s \in SUBSET T
      PROVE  it[s] = IF s = {} THEN 0 ELSE b[Pick(s)] + it[Less(s)]
  <2>1. CASE s = {}
    BY <2>1
  <2>2. CASE s # {}
    <3>1. it[Less(s)] = F(Less(s))[Less(s)]
      BY <1>3, <1>4, <2>2
    <3>2. it[s] = b[Pick(s)] + F(Less(s))[Less(s)]
      BY <2>2
    <3>. HIDE DEF it
    <3>. QED BY <2>2, <3>1, <3>2
  <2>. QED BY <2>1, <2>2
<1>6. Sums(b, T, it)
  <2>1. it = [s \in SUBSET T |-> it[s]]
    OBVIOUS
  <2>. HIDE DEF it
  <2>2. it = [s \in SUBSET T |-> IF s = {} THEN 0 ELSE b[Pick(s)] + it[Less(s)]]
    BY <2>1, <1>5
  <2>. QED BY <2>2 DEF Sums
<1>. QED BY <1>6 DEF Q

\* The fold's function on the subsets of S.
SumsOf(b, S) == CHOOSE it : Sums(b, S, it)

\* It satisfies the equation, and its value on S is the sum.
LEMMA SumsOfSums ==
  ASSUME NEW b, NEW S, IsFiniteSet(S)
  PROVE  /\ Sums(b, S, SumsOf(b, S))
         /\ SumOf(b, S) = SumsOf(b, S)[S]
  BY SumsExist, SumOfDef DEF SumsOf

\* One step of the fold, on any subset.
LEMMA SumsStep ==
  ASSUME NEW b, NEW S, NEW it, Sums(b, S, it), NEW T \in SUBSET S
  PROVE  /\ T = {} => it[T] = 0
         /\ T # {} => it[T] = b[Pick(T)] + it[T \ {Pick(T)}]
  BY DEF Sums

\* The sum is a natural number, and any element can be taken out of it.
LEMMA SumsAny ==
  ASSUME NEW S, IsFiniteSet(S), NEW b \in [S -> Nat], NEW it, Sums(b, S, it)
  PROVE  \A T \in SUBSET S :
           it[T] \in Nat /\ \A x \in T : it[T] = b[x] + it[T \ {x}]
<1>. DEFINE P(T) == it[T] \in Nat /\ \A x \in T : it[T] = b[x] + it[T \ {x}]
            Q == {T \in SUBSET S : ~ P(T)}
<1>. SUFFICES ASSUME Q # {} PROVE FALSE
  OBVIOUS
<1>0. Q \in SUBSET SUBSET S
  OBVIOUS
<1>1. PICK T \in Q : \A U \in SUBSET T : U # T => U \notin Q
  <2>. HIDE DEF Q
  <2>. QED BY <1>0, SmallestSet
<1>2. ASSUME NEW U \in SUBSET T, U # T PROVE P(U)
  <2>1. U \in SUBSET S /\ U \notin Q
    BY <1>1, <1>2
  <2>. HIDE DEF P
  <2>. QED BY <2>1
<1>3. CASE T = {}
  BY <1>3, SumsStep
<1>4. CASE T # {}
  <2>. DEFINE y == Pick(T)
  <2>0. y \in T /\ b[y] \in Nat
    BY <1>4, Picked
  <2>1. it[T] = b[y] + it[T \ {y}]
    BY <1>4, SumsStep
  <2>2. P(T \ {y})
    BY <1>2, <2>0
  <2>. HIDE DEF y
  <2>3. it[T] \in Nat
    BY <2>0, <2>1, <2>2
  <2>4. ASSUME NEW x \in T, x # y PROVE it[T] = b[x] + it[T \ {x}]
    <3>. DEFINE V == (T \ {y}) \ {x}
    <3>1. P(T \ {x})
      BY <1>2
    <3>2. it[T \ {y}] = b[x] + it[V]
      BY <2>2, <2>4
    <3>3. V = (T \ {x}) \ {y} /\ y \in T \ {x}
      BY <2>0, <2>4
    <3>4. it[T \ {x}] = b[y] + it[V]
      BY <3>1, <3>3
    <3>5. P(V)
      BY <1>2, <2>0
    <3>6. it[V] \in Nat /\ b[x] \in Nat
      BY <3>5
    <3>. HIDE DEF V, P
    <3>. QED BY <2>0, <2>1, <3>2, <3>4, <3>6
  <2>. QED BY <2>1, <2>3, <2>4
<1>. QED BY <1>3, <1>4

\* Functions that agree on a set have the same sum over it.
LEMMA SumsSame ==
  ASSUME NEW S, IsFiniteSet(S), NEW b, NEW c, NEW U \in SUBSET S,
         \A x \in U : b[x] = c[x], NEW f, Sums(b, S, f), NEW g, Sums(c, S, g)
  PROVE  f[U] = g[U]
<1>. DEFINE Q == {T \in SUBSET U : f[T] # g[T]}
<1>. SUFFICES ASSUME Q # {} PROVE FALSE
  OBVIOUS
<1>0. Q \in SUBSET SUBSET S
  OBVIOUS
<1>1. PICK T \in Q : \A V \in SUBSET T : V # T => V \notin Q
  <2>. HIDE DEF Q
  <2>. QED BY <1>0, SmallestSet
<1>2. CASE T = {}
  BY <1>2, SumsStep
<1>3. CASE T # {}
  <2>. DEFINE V == T \ {Pick(T)}
  <2>1. Pick(T) \in T /\ V \in SUBSET T /\ V # T
    BY <1>3, Picked
  <2>2. f[V] = g[V]
    BY <1>1, <2>1
  <2>3. f[T] = b[Pick(T)] + f[V] /\ g[T] = c[Pick(T)] + g[V]
    <3>1. T \in SUBSET S
      OBVIOUS
    <3>. HIDE DEF Q
    <3>2. f[T] = b[Pick(T)] + f[V]
      BY <1>3, <3>1, SumsStep
    <3>3. g[T] = c[Pick(T)] + g[V]
      BY <1>3, <3>1, SumsStep
    <3>. QED BY <3>2, <3>3
  <2>4. b[Pick(T)] = c[Pick(T)]
    BY <2>1
  <2>. HIDE DEF V
  <2>. QED BY <2>2, <2>3, <2>4
<1>. QED BY <1>2, <1>3
-----------------------------------------------------------------------------
\* Sums of natural numbers over a finite set are natural numbers.
THEOREM SumOfNat ==
  ASSUME NEW S, IsFiniteSet(S), NEW b \in [S -> Nat]
  PROVE  SumOf(b, S) \in Nat
  BY SumsOfSums, SumsAny

\* A sum of zeros is zero.
THEOREM SumOfZeros ==
  ASSUME NEW S, IsFiniteSet(S)
  PROVE  SumOf([x \in S |-> 0], S) = 0
<1>. DEFINE b == [x \in S |-> 0]
            f == SumsOf(b, S)
            Q == {T \in SUBSET S : f[T] # 0}
<1>0. b \in [S -> Nat] /\ Sums(b, S, f) /\ SumOf(b, S) = f[S]
  BY SumsOfSums
<1>. HIDE DEF f
<1>. SUFFICES ASSUME Q # {} PROVE FALSE
  BY <1>0
<1>1. Q \in SUBSET SUBSET S
  OBVIOUS
<1>2. PICK T \in Q : \A U \in SUBSET T : U # T => U \notin Q
  <2>. HIDE DEF Q
  <2>. QED BY <1>1, SmallestSet
<1>3. CASE T = {}
  BY <1>0, <1>3, SumsStep
<1>4. CASE T # {}
  <2>. DEFINE U == T \ {Pick(T)}
  <2>1. Pick(T) \in S /\ U \in SUBSET T /\ U # T
    BY <1>4, Picked
  <2>2. f[U] = 0
    BY <1>2, <2>1
  <2>3. f[T] = b[Pick(T)] + f[U]
    BY <1>0, <1>4, SumsStep
  <2>. QED BY <2>1, <2>2, <2>3
<1>. QED BY <1>3, <1>4

\* A change of one value changes the sum by as much.
THEOREM SumOfUpdate ==
  ASSUME NEW S, IsFiniteSet(S), NEW b \in [S -> Nat], NEW x \in S, NEW v \in Nat
  PROVE  SumOf([b EXCEPT ![x] = v], S) + b[x] = SumOf(b, S) + v
<1>. DEFINE c == [b EXCEPT ![x] = v]
            f == SumsOf(b, S)
            g == SumsOf(c, S)
            U == S \ {x}
<1>1. /\ Sums(b, S, f) /\ SumOf(b, S) = f[S]
      /\ Sums(c, S, g) /\ SumOf(c, S) = g[S]
  BY SumsOfSums
<1>2. c \in [S -> Nat] /\ c[x] = v /\ \A y \in U : b[y] = c[y]
  OBVIOUS
<1>. HIDE DEF c, f, g
<1>3. f[U] \in Nat /\ f[S] = b[x] + f[U]
  <2>1. \A T \in SUBSET S :
          f[T] \in Nat /\ \A y \in T : f[T] = b[y] + f[T \ {y}]
    BY <1>1, SumsAny
  <2>. QED BY <2>1
<1>4. g[S] = v + g[U]
  BY <1>1, <1>2, SumsAny
<1>5. f[U] = g[U]
  BY <1>1, <1>2, SumsSame
<1>6. b[x] \in Nat
  OBVIOUS
<1>. HIDE DEF U
<1>7. g[S] + b[x] = f[S] + v
  BY <1>3, <1>4, <1>5, <1>6
<1>. QED BY <1>1, <1>7 DEF c
=============================================================================

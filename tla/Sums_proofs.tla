---------------------------- MODULE Sums_proofs ----------------------------
(***************************************************************************)
(* The least element of a set of numbers, the sum of a function over a     *)
(* finite set (SumFunctionOnSet), and the ranks of numbers: a sum is taken *)
(* one element at a time, in any order, and depends on its terms only; the *)
(* members of a set have the ranks from 1 to their number.  Then functions *)
(* that are computed step by step, the sum of the steps from one number to *)
(* another, and the greatest and the least member of a finite set.         *)
(*                                                                         *)
(* With these, the depreciation table of an asset: each line leaves what   *)
(* the one before it leaves less its amount, over all the years and when   *)
(* the first lines are grouped, and the last year leaves the end value,    *)
(* whether it is the last one or nothing is left before; so the amounts,   *)
(* which are the steps between, add up to what is to be depreciated.       *)
(***************************************************************************)
EXTENDS DepreciationTable, FiniteSetTheorems, SequenceTheorems, WellFoundedInduction, TLAPS

\* A set of numbers has a least one.
LEMMA LeastNat ==
  ASSUME NEW T \in SUBSET Nat, T # {}
  PROVE  \E n \in T : \A m \in T : n <= m
<1>1. PICK n \in T : \A m \in T : ~(<<m, n>> \in OpToRel(<, Nat))
  BY WFMin, NatLessThanWellFounded
<1>2. \A m \in T : ~(m < n)
  BY <1>1 DEF OpToRel
<1> QED BY <1>2

-----------------------------------------------------------------------------
(* Sums *)

One(s) == CHOOSE x \in s : TRUE

\* it is how sums of F over the subsets of S are computed.
Sums(it, F, S) ==
  it = [s \in SUBSET S |-> IF s = {} THEN 0 ELSE F[One(s)] + it[s \ {One(s)}]]

\* What the community module computes
LEMMA SumIs ==
  ASSUME NEW F, NEW S
  PROVE  SumFunctionOnSet(F, S) = (CHOOSE it : Sums(it, F, S))[S]
BY DEF SumFunctionOnSet, FoldFunctionOnSet, MapThenFoldSet, Sums, One

\* One element of a finite set, and what is left without it
LEMMA OneLess ==
  ASSUME NEW S, IsFiniteSet(S)
  PROVE  \A s \in SUBSET S :
           /\ IsFiniteSet(s) /\ Cardinality(s) \in Nat /\ Cardinality(s) <= Cardinality(S)
           /\ Cardinality(s) = 0 <=> s = {}
           /\ s # {} => One(s) \in s
           /\ \A x \in s : Cardinality(s \ {x}) = Cardinality(s) - 1 /\ s \ {x} \in SUBSET S
<1> SUFFICES ASSUME NEW s \in SUBSET S
             PROVE  /\ IsFiniteSet(s) /\ Cardinality(s) \in Nat /\ Cardinality(s) <= Cardinality(S)
                    /\ Cardinality(s) = 0 <=> s = {}
                    /\ s # {} => One(s) \in s
                    /\ \A x \in s : Cardinality(s \ {x}) = Cardinality(s) - 1 /\ s \ {x} \in SUBSET S
  OBVIOUS
<1>1. IsFiniteSet(s) /\ Cardinality(s) <= Cardinality(S)
  BY FS_Subset
<1>2. Cardinality(s) \in Nat
  BY <1>1, FS_CardinalityType
<1>3. Cardinality(s) = 0 <=> s = {}
  BY <1>1, FS_EmptySet
<1>4. s # {} => One(s) \in s
  BY DEF One
<1>5. \A x \in s : Cardinality(s \ {x}) = Cardinality(s) - 1
  BY <1>1, FS_RemoveElement
<1> QED BY <1>1, <1>2, <1>3, <1>4, <1>5

\* The sums over the subsets of a finite set can be computed.
LEMMA SumsExist == ASSUME NEW F, NEW S, IsFiniteSet(S) PROVE \E it : Sums(it, F, S)
<1> DEFINE UpTo(n, it) ==
             \A s \in SUBSET S : Cardinality(s) <= n =>
               it[s] = IF s = {} THEN 0 ELSE F[One(s)] + it[s \ {One(s)}]
           Bad == {n \in Nat : ~ \E it : UpTo(n, it)}
<1>1. Bad = {}
  <2> SUFFICES ASSUME Bad # {} PROVE FALSE
    OBVIOUS
  <2>1. PICK n \in Bad : \A m \in Bad : n <= m
    <3>1. Bad \in SUBSET Nat
      OBVIOUS
    <3> HIDE DEF Bad
    <3> QED BY <3>1, LeastNat
  <2>2. CASE n = 0
    <3> DEFINE none == [s \in SUBSET S |-> 0]
    <3>1. UpTo(0, none)
      <4> SUFFICES ASSUME NEW s \in SUBSET S, Cardinality(s) <= 0
                   PROVE  none[s] = IF s = {} THEN 0 ELSE F[One(s)] + none[s \ {One(s)}]
        OBVIOUS
      <4>1. s = {}
        BY OneLess
      <4> QED BY <4>1
    <3> QED BY <2>2, <3>1
  <2>3. CASE n # 0
    <3>0. n \in Nat /\ n - 1 \in Nat /\ ~(n <= n - 1)
      BY <2>3
    <3>1. n - 1 \in Nat /\ n - 1 \notin Bad
      <4> HIDE DEF Bad
      <4> QED BY <2>1, <3>0
    <3>2. PICK it : UpTo(n - 1, it)
      BY <3>1
    <3> DEFINE next == [s \in SUBSET S |->
                          IF Cardinality(s) <= n - 1 THEN it[s]
                          ELSE F[One(s)] + it[s \ {One(s)}]]
    <3>3. UpTo(n, next)
      <4> SUFFICES ASSUME NEW s \in SUBSET S, Cardinality(s) <= n
                   PROVE  next[s] = IF s = {} THEN 0 ELSE F[One(s)] + next[s \ {One(s)}]
        OBVIOUS
      <4>0. Cardinality(s) \in Nat /\ n \in Nat
        BY OneLess
      <4>1. CASE s = {}
        <5>1. Cardinality(s) <= n - 1
          BY <3>1, <4>1, OneLess
        <5> QED BY <3>2, <4>1, <5>1
      <4>2. CASE s # {}
        <5> DEFINE less == s \ {One(s)}
        <5>1. less \in SUBSET S /\ Cardinality(less) = Cardinality(s) - 1
          BY <4>2, OneLess
        <5>2. next[less] = it[less]
          BY <4>0, <5>1
        <5>3. next[s] = F[One(s)] + it[less]
          BY <3>2, <4>2
        <5> QED BY <4>2, <5>2, <5>3
      <4> QED BY <4>1, <4>2
    <3> HIDE DEF next
    <3> QED BY <3>3
  <2> QED BY <2>2, <2>3
<1>2. Cardinality(S) \in Nat
  BY FS_CardinalityType
<1>3. PICK it : UpTo(Cardinality(S), it)
  BY <1>1, <1>2
<1>4. \A s \in SUBSET S : it[s] = IF s = {} THEN 0 ELSE F[One(s)] + it[s \ {One(s)}]
  BY <1>3, OneLess
<1> DEFINE all == [s \in SUBSET S |-> it[s]]
<1>5. Sums(all, F, S)
  <2>1. ASSUME NEW s \in SUBSET S
        PROVE  it[s] = IF s = {} THEN 0 ELSE F[One(s)] + all[s \ {One(s)}]
    BY <1>4
  <2> QED BY <2>1 DEF Sums
<1> HIDE DEF all
<1> QED BY <1>5

\* They do not depend on the set whose subsets these are.
LEMMA SumsAgree ==
  ASSUME NEW F, NEW S, IsFiniteSet(S), NEW T \in SUBSET S,
         NEW it, Sums(it, F, S), NEW jt, Sums(jt, F, T)
  PROVE  it[T] = jt[T]
<1> DEFINE Bad == {n \in Nat : \E s \in SUBSET T : Cardinality(s) = n /\ it[s] # jt[s]}
<1>0. /\ \A s \in SUBSET S : it[s] = IF s = {} THEN 0 ELSE F[One(s)] + it[s \ {One(s)}]
      /\ \A s \in SUBSET T : jt[s] = IF s = {} THEN 0 ELSE F[One(s)] + jt[s \ {One(s)}]
  BY DEF Sums
<1>1. Bad = {}
  <2> SUFFICES ASSUME Bad # {} PROVE FALSE
    OBVIOUS
  <2>1. PICK n \in Bad : \A m \in Bad : n <= m
    <3>1. Bad \in SUBSET Nat
      OBVIOUS
    <3> HIDE DEF Bad
    <3> QED BY <3>1, LeastNat
  <2>2. PICK s \in SUBSET T : Cardinality(s) = n /\ it[s] # jt[s]
    BY <2>1
  <2>3. s # {} /\ s \in SUBSET S
    BY <1>0, <2>2
  <2> DEFINE less == s \ {One(s)}
  <2>4. less \in SUBSET T /\ Cardinality(less) = n - 1 /\ n - 1 \in Nat /\ n - 1 < n
    <3>1. Cardinality(s) # 0 /\ Cardinality(less) = Cardinality(s) - 1
      BY <2>3, OneLess
    <3> QED BY <2>1, <2>2, <3>1
  <2>5. it[less] = jt[less]
    <3>1. n - 1 \notin Bad
      BY <2>1, <2>4
    <3> QED BY <2>4, <3>1
  <2> QED BY <1>0, <2>2, <2>3, <2>5
<1>2. T \in SUBSET T /\ Cardinality(T) \in Nat
  BY OneLess
<1> QED BY <1>1, <1>2

\* The sum over a finite set, one element at a time
LEMMA SumOfOne ==
  ASSUME NEW F, NEW S, IsFiniteSet(S)
  PROVE  SumFunctionOnSet(F, S) =
           IF S = {} THEN 0 ELSE F[One(S)] + SumFunctionOnSet(F, S \ {One(S)})
<1> DEFINE it == CHOOSE i : Sums(i, F, S)
           less == S \ {One(S)}
           jt == CHOOSE i : Sums(i, F, less)
<1>1. Sums(it, F, S)
  BY SumsExist
<1>2. less \in SUBSET S /\ IsFiniteSet(less)
  BY FS_Subset
<1>3. Sums(jt, F, less)
  BY <1>2, SumsExist
<1>4. it[less] = jt[less]
  <2> HIDE DEF it, jt, less
  <2> QED BY <1>1, <1>2, <1>3, SumsAgree
<1>5. it[S] = IF S = {} THEN 0 ELSE F[One(S)] + it[less]
  BY <1>1 DEF Sums
<1>6. SumFunctionOnSet(F, S) = it[S] /\ SumFunctionOnSet(F, less) = jt[less]
  BY SumIs
<1> QED BY <1>4, <1>5, <1>6

\* The sum of nothing
LEMMA SumEmpty == ASSUME NEW F PROVE SumFunctionOnSet(F, {}) = 0
BY SumOfOne, FS_EmptySet

\* A sum of integers is an integer.
LEMMA SumType ==
  ASSUME NEW F, NEW S, IsFiniteSet(S), \A x \in S : F[x] \in Int
  PROVE  SumFunctionOnSet(F, S) \in Int
<1> DEFINE Bad == {n \in Nat : \E s \in SUBSET S :
                                 Cardinality(s) = n /\ SumFunctionOnSet(F, s) \notin Int}
<1>1. Bad = {}
  <2> SUFFICES ASSUME Bad # {} PROVE FALSE
    OBVIOUS
  <2>1. PICK n \in Bad : \A m \in Bad : n <= m
    <3>1. Bad \in SUBSET Nat
      OBVIOUS
    <3> HIDE DEF Bad
    <3> QED BY <3>1, LeastNat
  <2>2. PICK s \in SUBSET S : Cardinality(s) = n /\ SumFunctionOnSet(F, s) \notin Int
    BY <2>1
  <2> DEFINE less == s \ {One(s)}
  <2>3. s # {} /\ SumFunctionOnSet(F, s) = F[One(s)] + SumFunctionOnSet(F, less) /\ One(s) \in s
    <3>1. IsFiniteSet(s)
      BY OneLess
    <3>2. s # {}
      BY <2>2, SumEmpty
    <3> QED BY <3>1, <3>2, SumOfOne, OneLess
  <2>4. less \in SUBSET S /\ Cardinality(less) = n - 1 /\ n - 1 \in Nat /\ n - 1 < n
    <3>1. Cardinality(s) # 0 /\ Cardinality(less) = Cardinality(s) - 1
      BY <2>3, OneLess
    <3> QED BY <2>1, <2>2, <3>1
  <2>5. SumFunctionOnSet(F, less) \in Int
    <3>1. n - 1 \notin Bad
      BY <2>1, <2>4
    <3> QED BY <2>4, <3>1
  <2> QED BY <2>2, <2>3, <2>5
<1>2. S \in SUBSET S /\ Cardinality(S) \in Nat
  BY OneLess
<1> QED BY <1>1, <1>2

\* Any element may be added last.
LEMMA SumRemove ==
  ASSUME NEW F, NEW S, IsFiniteSet(S), \A x \in S : F[x] \in Int, NEW y \in S
  PROVE  SumFunctionOnSet(F, S) = F[y] + SumFunctionOnSet(F, S \ {y})
<1> DEFINE Bad == {n \in Nat : \E s \in SUBSET S : \E x \in s :
                     /\ Cardinality(s) = n
                     /\ SumFunctionOnSet(F, s) # F[x] + SumFunctionOnSet(F, s \ {x})}
<1>0. \A s \in SUBSET S : SumFunctionOnSet(F, s) \in Int
  BY OneLess, SumType
<1>1. Bad = {}
  <2> SUFFICES ASSUME Bad # {} PROVE FALSE
    OBVIOUS
  <2>1. PICK n \in Bad : \A m \in Bad : n <= m
    <3>1. Bad \in SUBSET Nat
      OBVIOUS
    <3> HIDE DEF Bad
    <3> QED BY <3>1, LeastNat
  <2>a. PICK s \in SUBSET S : \E x \in s :
          /\ Cardinality(s) = n
          /\ SumFunctionOnSet(F, s) # F[x] + SumFunctionOnSet(F, s \ {x})
    BY <2>1
  <2>2. PICK x \in s :
          /\ Cardinality(s) = n
          /\ SumFunctionOnSet(F, s) # F[x] + SumFunctionOnSet(F, s \ {x})
    BY <2>a
  <2> DEFINE o == One(s)
             less == s \ {o}
  <2>3. o \in s /\ SumFunctionOnSet(F, s) = F[o] + SumFunctionOnSet(F, less)
    BY <2>2, SumOfOne, OneLess
  <2>4. o # x
    BY <2>2, <2>3
  <2>5. \A u \in s : s \ {u} \in SUBSET S /\ Cardinality(s \ {u}) = n - 1 /\ n - 1 \in Nat /\ n - 1 < n
    <3>1. Cardinality(s) # 0 /\ \A u \in s : Cardinality(s \ {u}) = Cardinality(s) - 1
      BY <2>2, OneLess
    <3> QED BY <2>1, <2>2, <3>1
  <2>6. n - 1 \notin Bad
    BY <2>1, <2>2, <2>5
  <2>7. SumFunctionOnSet(F, less) = F[x] + SumFunctionOnSet(F, less \ {x})
    BY <2>2, <2>3, <2>4, <2>5, <2>6
  <2>8. SumFunctionOnSet(F, s \ {x}) = F[o] + SumFunctionOnSet(F, (s \ {x}) \ {o})
    BY <2>2, <2>3, <2>4, <2>5, <2>6
  <2>9. less \ {x} = (s \ {x}) \ {o}
    OBVIOUS
  <2>10. F[x] \in Int /\ F[o] \in Int /\ SumFunctionOnSet(F, less \ {x}) \in Int
    BY <1>0, <2>2, <2>3
  <2> HIDE DEF o, less
  <2> QED BY <2>2, <2>3, <2>7, <2>8, <2>9, <2>10
<1>2. S \in SUBSET S /\ Cardinality(S) \in Nat
  BY OneLess
<1> QED BY <1>1, <1>2

\* Equal terms make equal sums.
LEMMA SumSame ==
  ASSUME NEW F, NEW G, NEW S, IsFiniteSet(S), \A x \in S : F[x] = G[x]
  PROVE  SumFunctionOnSet(F, S) = SumFunctionOnSet(G, S)
<1> DEFINE Bad == {n \in Nat : \E s \in SUBSET S :
                     /\ Cardinality(s) = n
                     /\ SumFunctionOnSet(F, s) # SumFunctionOnSet(G, s)}
<1>1. Bad = {}
  <2> SUFFICES ASSUME Bad # {} PROVE FALSE
    OBVIOUS
  <2>1. PICK n \in Bad : \A m \in Bad : n <= m
    <3>1. Bad \in SUBSET Nat
      OBVIOUS
    <3> HIDE DEF Bad
    <3> QED BY <3>1, LeastNat
  <2>2. PICK s \in SUBSET S :
          Cardinality(s) = n /\ SumFunctionOnSet(F, s) # SumFunctionOnSet(G, s)
    BY <2>1
  <2> DEFINE less == s \ {One(s)}
  <2>3. IsFiniteSet(s)
    BY OneLess
  <2>4. s # {}
    BY <2>2, SumEmpty
  <2>5. /\ One(s) \in s
        /\ SumFunctionOnSet(F, s) = F[One(s)] + SumFunctionOnSet(F, less)
        /\ SumFunctionOnSet(G, s) = G[One(s)] + SumFunctionOnSet(G, less)
    BY <2>3, <2>4, SumOfOne, OneLess
  <2>6. less \in SUBSET S /\ Cardinality(less) = n - 1 /\ n - 1 \in Nat /\ n - 1 < n
    <3>1. Cardinality(s) # 0 /\ Cardinality(less) = Cardinality(s) - 1
      BY <2>4, OneLess
    <3> QED BY <2>1, <2>2, <3>1
  <2>7. SumFunctionOnSet(F, less) = SumFunctionOnSet(G, less)
    <3>1. n - 1 \notin Bad
      BY <2>1, <2>6
    <3> QED BY <2>6, <3>1
  <2> QED BY <2>2, <2>5, <2>7
<1>2. S \in SUBSET S /\ Cardinality(S) \in Nat
  BY OneLess
<1> QED BY <1>1, <1>2

\* Terms that are zero add nothing.
LEMMA SumZeros ==
  ASSUME NEW G, NEW T, IsFiniteSet(T), \A y \in T : G[y] \in Int,
         NEW I \in SUBSET T, \A y \in T \ I : G[y] = 0
  PROVE  SumFunctionOnSet(G, T) = SumFunctionOnSet(G, I)
<1> DEFINE Bad == {n \in Nat : \E t \in SUBSET T :
                     /\ I \subseteq t
                     /\ Cardinality(t) = n
                     /\ SumFunctionOnSet(G, t) # SumFunctionOnSet(G, I)}
<1>1. Bad = {}
  <2> SUFFICES ASSUME Bad # {} PROVE FALSE
    OBVIOUS
  <2>1. PICK n \in Bad : \A m \in Bad : n <= m
    <3>1. Bad \in SUBSET Nat
      OBVIOUS
    <3> HIDE DEF Bad
    <3> QED BY <3>1, LeastNat
  <2>2. PICK t \in SUBSET T :
          I \subseteq t /\ Cardinality(t) = n /\ SumFunctionOnSet(G, t) # SumFunctionOnSet(G, I)
    BY <2>1
  <2>3. PICK y \in t : y \notin I
    BY <2>2
  <2> DEFINE less == t \ {y}
  <2>4. IsFiniteSet(t) /\ \A x \in t : G[x] \in Int
    BY OneLess
  <2>5. SumFunctionOnSet(G, t) = G[y] + SumFunctionOnSet(G, less)
    BY <2>4, SumRemove
  <2>6. IsFiniteSet(less) /\ SumFunctionOnSet(G, less) \in Int
    <3>1. IsFiniteSet(less) /\ \A x \in less : G[x] \in Int
      BY <2>4, FS_Subset
    <3> HIDE DEF less
    <3> QED BY <3>1, SumType
  <2>7. less \in SUBSET T /\ Cardinality(less) = n - 1 /\ n - 1 \in Nat /\ n - 1 < n
    <3>1. Cardinality(t) # 0 /\ Cardinality(less) = Cardinality(t) - 1
      BY <2>3, OneLess
    <3> QED BY <2>1, <2>2, <3>1
  <2>8. SumFunctionOnSet(G, less) = SumFunctionOnSet(G, I)
    <3>1. n - 1 \notin Bad
      BY <2>1, <2>7
    <3>2. I \subseteq less
      BY <2>2, <2>3
    <3> QED BY <2>7, <3>1, <3>2
  <2>9. G[y] = 0
    BY <2>3
  <2> HIDE DEF less
  <2> QED BY <2>2, <2>5, <2>6, <2>8, <2>9
<1>2. T \in SUBSET T /\ Cardinality(T) \in Nat
  BY OneLess
<1> QED BY <1>1, <1>2

\* The terms may be taken from another set, of which f picks some, each once.
LEMMA SumReindex ==
  ASSUME NEW F, NEW S, IsFiniteSet(S), \A x \in S : F[x] \in Int,
         NEW G, NEW T, IsFiniteSet(T), \A y \in T : G[y] \in Int,
         NEW f, \A x \in S : f[x] \in T /\ G[f[x]] = F[x],
         \A x, z \in S : f[x] = f[z] => x = z,
         \A y \in T : G[y] = 0 \/ \E x \in S : f[x] = y
  PROVE  SumFunctionOnSet(F, S) = SumFunctionOnSet(G, T)
<1> DEFINE Im(s) == {f[x] : x \in s}
           Bad == {n \in Nat : \E s \in SUBSET S :
                     /\ Cardinality(s) = n
                     /\ SumFunctionOnSet(F, s) # SumFunctionOnSet(G, Im(s))}
<1>1. Bad = {}
  <2> SUFFICES ASSUME Bad # {} PROVE FALSE
    OBVIOUS
  <2>1. PICK n \in Bad : \A m \in Bad : n <= m
    <3>1. Bad \in SUBSET Nat
      OBVIOUS
    <3> HIDE DEF Bad
    <3> QED BY <3>1, LeastNat
  <2>2. PICK s \in SUBSET S :
          Cardinality(s) = n /\ SumFunctionOnSet(F, s) # SumFunctionOnSet(G, Im(s))
    BY <2>1
  <2> DEFINE o == One(s)
             less == s \ {o}
  <2>3. s # {}
    <3>1. CASE s = {}
      <4>1. Im(s) = {}
        BY <3>1
      <4> QED BY <2>2, <3>1, <4>1, SumEmpty
    <3> QED BY <3>1
  <2>4. o \in s /\ SumFunctionOnSet(F, s) = F[o] + SumFunctionOnSet(F, less)
    BY <2>3, SumOfOne, OneLess
  <2> HIDE DEF o
  <2>5. Im(s) \ {f[o]} = Im(less)
    BY <2>4
  <2>6. SumFunctionOnSet(G, Im(s)) = G[f[o]] + SumFunctionOnSet(G, Im(less))
    <3>1. Im(s) \in SUBSET T /\ f[o] \in Im(s)
      BY <2>4
    <3>2. IsFiniteSet(Im(s)) /\ \A y \in Im(s) : G[y] \in Int
      BY <3>1, FS_Subset
    <3> HIDE DEF Im
    <3>3. SumFunctionOnSet(G, Im(s)) = G[f[o]] + SumFunctionOnSet(G, Im(s) \ {f[o]})
      BY <3>1, <3>2, SumRemove
    <3> QED BY <2>5, <3>3
  <2>7. less \in SUBSET S /\ Cardinality(less) = n - 1 /\ n - 1 \in Nat /\ n - 1 < n
    <3>1. Cardinality(s) # 0 /\ Cardinality(less) = Cardinality(s) - 1
      BY <2>4, OneLess
    <3> QED BY <2>1, <2>2, <3>1
  <2>8. SumFunctionOnSet(F, less) = SumFunctionOnSet(G, Im(less))
    <3>1. n - 1 \notin Bad
      BY <2>1, <2>7
    <3> QED BY <2>7, <3>1
  <2>9. G[f[o]] = F[o]
    BY <2>4
  <2> HIDE DEF less, Im
  <2> QED BY <2>2, <2>4, <2>6, <2>8, <2>9
<1>2. S \in SUBSET S /\ Cardinality(S) \in Nat
  BY OneLess
<1>3. SumFunctionOnSet(F, S) = SumFunctionOnSet(G, Im(S))
  BY <1>1, <1>2
<1>4. Im(S) \in SUBSET T /\ \A y \in T \ Im(S) : G[y] = 0
  OBVIOUS
<1> HIDE DEF Im
<1>5. SumFunctionOnSet(G, T) = SumFunctionOnSet(G, Im(S))
  BY <1>4, SumZeros
<1> QED BY <1>3, <1>5

-----------------------------------------------------------------------------
(* Ranks *)

\* How many numbers of M there are up to k
Rank(M, k) == Cardinality(M \cap (0 .. k))

\* The members of M have the ranks from 1 to their number, each its own.
LEMMA Ranks ==
  ASSUME NEW n \in Nat, NEW M \in SUBSET (0 .. n)
  PROVE  /\ IsFiniteSet(M) /\ Cardinality(M) \in Nat
         /\ \A k \in M : Rank(M, k) \in 1 .. Cardinality(M)
         /\ \A j, k \in M : Rank(M, j) = Rank(M, k) => j = k
         /\ \A r \in 1 .. Cardinality(M) : \E k \in M : Rank(M, k) = r
<1> DEFINE Up(k) == M \cap (0 .. k)
<1>1. IsFiniteSet(M) /\ Cardinality(M) \in Nat
  <2>1. IsFiniteSet(0 .. n)
    BY FS_Interval
  <2>2. IsFiniteSet(M)
    BY <2>1, FS_Subset
  <2> QED BY <2>2, FS_CardinalityType
<1>2. \A k : IsFiniteSet(Up(k)) /\ Rank(M, k) \in Nat /\ Rank(M, k) <= Cardinality(M)
  <2> TAKE k
  <2>1. Up(k) \in SUBSET M
    OBVIOUS
  <2>2. IsFiniteSet(Up(k)) /\ Cardinality(Up(k)) <= Cardinality(M)
    BY <1>1, <2>1, FS_Subset
  <2> QED BY <2>2, FS_CardinalityType DEF Rank
<1>3. \A k \in M : Rank(M, k) \in 1 .. Cardinality(M)
  <2> TAKE k \in M
  <2>1. k \in Up(k)
    OBVIOUS
  <2>2. Rank(M, k) # 0
    BY <1>2, <2>1, FS_EmptySet DEF Rank
  <2>3. Rank(M, k) \in Nat /\ Rank(M, k) <= Cardinality(M)
    BY <1>2
  <2> QED BY <1>1, <2>2, <2>3
<1>4. \A j, k \in M : j < k => Rank(M, j) # Rank(M, k)
  <2> SUFFICES ASSUME NEW j \in M, NEW k \in M, j < k, Rank(M, j) = Rank(M, k) PROVE FALSE
    OBVIOUS
  <2>1. Up(j) \in SUBSET Up(k) /\ k \in Up(k) /\ k \notin Up(j)
    OBVIOUS
  <2>2. Up(k) = Up(j)
    <3>1. Cardinality(Up(k)) = Cardinality(Up(j))
      BY DEF Rank
    <3> HIDE DEF Up
    <3> QED BY <1>2, <2>1, <3>1, FS_Subset
  <2> QED BY <2>1, <2>2
<1>5. \A j, k \in M : Rank(M, j) = Rank(M, k) => j = k
  BY <1>4
<1>6. ASSUME NEW r \in 1 .. Cardinality(M) PROVE \E k \in M : Rank(M, k) = r
  <2> DEFINE Enough == {k \in 0 .. n : r <= Rank(M, k)}
  <2>1. n \in Enough
    <3>1. M \cap (0 .. n) = M
      OBVIOUS
    <3>2. Rank(M, n) = Cardinality(M)
      BY <3>1 DEF Rank
    <3>3. r <= Cardinality(M) /\ n \in 0 .. n
      BY <1>1, <1>6
    <3> QED BY <3>2, <3>3
  <2>2. PICK k \in Enough : \A j \in Enough : k <= j
    <3>1. Enough \in SUBSET Nat
      OBVIOUS
    <3> HIDE DEF Enough
    <3> QED BY <2>1, <3>1, LeastNat
  <2>3. k \in 0 .. n /\ r <= Rank(M, k) /\ Rank(M, k) \in Nat /\ r \in Nat /\ r >= 1
    <3>1. Rank(M, k) \in Nat
      BY <1>2
    <3> QED BY <1>1, <2>2, <3>1
  <2>4. CASE k \notin M
    <3>1. CASE k = 0
      <4>1. Up(0) = {}
        BY <2>4, <3>1
      <4>2. Rank(M, k) = 0
        BY <3>1, <4>1, FS_EmptySet DEF Rank
      <4> QED BY <2>3, <4>2
    <3>2. CASE k # 0
      <4>1. k - 1 \in 0 .. n /\ ~(k <= k - 1)
        BY <2>3, <3>2
      <4>2. Up(k) = Up(k - 1)
        BY <2>3, <2>4, <4>1
      <4>3. Rank(M, k - 1) = Rank(M, k)
        BY <4>2 DEF Rank
      <4>4. k - 1 \in Enough
        BY <2>3, <4>1, <4>3
      <4> QED BY <2>2, <4>1, <4>4
    <3> QED BY <3>1, <3>2
  <2>5. CASE k \in M
    <3> DEFINE before == Up(k) \ {k}
    <3>1. Cardinality(before) = Rank(M, k) - 1
      <4>1. k \in Up(k)
        BY <2>3, <2>5
      <4> HIDE DEF Up
      <4> QED BY <1>2, <4>1, FS_RemoveElement DEF Up, Rank
    <3>2. CASE k = 0
      <4>1. before = {}
        BY <3>2
      <4>2. Rank(M, k) = 1
        BY <2>3, <3>1, <4>1, FS_EmptySet
      <4> QED BY <2>3, <2>5, <4>2
    <3>3. CASE k # 0
      <4>1. k - 1 \in 0 .. n /\ ~(k <= k - 1)
        BY <2>3, <3>3
      <4>2. before = Up(k - 1)
        BY <2>3, <4>1
      <4>3. Rank(M, k - 1) = Rank(M, k) - 1
        BY <3>1, <4>2 DEF Rank
      <4>4. ~(r <= Rank(M, k - 1))
        BY <2>2, <4>1
      <4> QED BY <2>3, <2>5, <4>3, <4>4
    <3> QED BY <3>2, <3>3
  <2> QED BY <2>4, <2>5
<1> QED BY <1>1, <1>3, <1>5, <1>6

\* Sums are linear in their terms.
LEMMA SumLinear ==
  ASSUME NEW F, NEW G, NEW H, NEW S, IsFiniteSet(S), NEW c \in Int,
         \A k \in S : F[k] \in Int /\ G[k] \in Int /\ H[k] = F[k] + c * G[k]
  PROVE  SumFunctionOnSet(H, S) = SumFunctionOnSet(F, S) + c * SumFunctionOnSet(G, S)
<1> DEFINE Good(s) ==
             SumFunctionOnSet(H, s) = SumFunctionOnSet(F, s) + c * SumFunctionOnSet(G, s)
           Bad == {n \in Nat : \E s \in SUBSET S : Cardinality(s) = n /\ ~Good(s)}
<1>0. \A s \in SUBSET S : /\ SumFunctionOnSet(F, s) \in Int /\ SumFunctionOnSet(G, s) \in Int
                          /\ IsFiniteSet(s) /\ Cardinality(s) \in Nat
  BY OneLess, SumType
<1>1. ASSUME Bad # {} PROVE FALSE
  <2>1. Bad \in SUBSET Nat
    OBVIOUS
  <2> HIDE DEF Bad
  <2>2. PICK n \in Bad : \A m \in Bad : n <= m
    BY <1>1, <2>1, LeastNat
  <2>3. PICK s \in SUBSET S : Cardinality(s) = n /\ ~Good(s)
    BY <2>2 DEF Bad
  <2>4. s # {}
    <3>1. SumFunctionOnSet(F, {}) = 0 /\ SumFunctionOnSet(G, {}) = 0
            /\ SumFunctionOnSet(H, {}) = 0
      BY SumEmpty
    <3>2. Good({})
      BY <3>1
    <3> QED BY <2>3, <3>2
  <2> DEFINE x == One(s)
             t == s \ {x}
  <2>5. /\ x \in s /\ x \in S /\ t \in SUBSET S /\ IsFiniteSet(s)
        /\ Cardinality(t) = n - 1 /\ Cardinality(t) \in Nat /\ n \in Nat
    BY <1>0, <2>3, <2>4, OneLess
  <2>6. Good(t)
    <3> HIDE DEF Good, t
    <3>1. n - 1 \notin Bad
      BY <2>2, <2>5
    <3> QED BY <2>5, <3>1 DEF Bad
  <2>7. /\ SumFunctionOnSet(F, s) = F[x] + SumFunctionOnSet(F, t)
        /\ SumFunctionOnSet(G, s) = G[x] + SumFunctionOnSet(G, t)
        /\ SumFunctionOnSet(H, s) = H[x] + SumFunctionOnSet(H, t)
    <3> HIDE DEF x
    <3>1. \A k \in S : H[k] \in Int
      OBVIOUS
    <3> QED BY <2>5, <3>1, SumRemove
  <2> HIDE DEF x, t
  <2> DEFINE ft == SumFunctionOnSet(F, t)
             gt == SumFunctionOnSet(G, t)
  <2>8. ft \in Int /\ gt \in Int /\ F[x] \in Int /\ G[x] \in Int /\ H[x] = F[x] + c * G[x]
    BY <1>0, <2>5
  <2>9. SumFunctionOnSet(H, t) = ft + c * gt
    BY <2>6
  <2> HIDE DEF ft, gt
  <2>10. H[x] + (ft + c * gt) = (F[x] + ft) + c * (G[x] + gt)
    BY <2>8
  <2>11. Good(s)
    BY <2>7, <2>9, <2>10 DEF ft, gt
  <2> QED BY <2>3, <2>11
<1>2. Cardinality(S) \in Nat /\ S \in SUBSET S
  BY <1>0
<1> HIDE DEF Good
<1>3. Good(S)
  BY <1>1, <1>2
<1> QED BY <1>3 DEF Good

LEMMA SumNotNegative ==
  ASSUME NEW F, NEW S, IsFiniteSet(S), \A k \in S : F[k] \in Nat
  PROVE  SumFunctionOnSet(F, S) \in Nat
<1> DEFINE Bad == {n \in Nat : \E s \in SUBSET S :
                     Cardinality(s) = n /\ SumFunctionOnSet(F, s) \notin Nat}
<1>1. ASSUME Bad # {} PROVE FALSE
  <2>1. Bad \in SUBSET Nat
    OBVIOUS
  <2> HIDE DEF Bad
  <2>2. PICK n \in Bad : \A m \in Bad : n <= m
    BY <1>1, <2>1, LeastNat
  <2>3. PICK s \in SUBSET S : Cardinality(s) = n /\ SumFunctionOnSet(F, s) \notin Nat
    BY <2>2 DEF Bad
  <2>4. s # {}
    BY <2>3, SumEmpty
  <2> DEFINE x == One(s)
             t == s \ {x}
  <2>5. /\ x \in s /\ x \in S /\ t \in SUBSET S /\ IsFiniteSet(s)
        /\ Cardinality(t) = n - 1 /\ Cardinality(t) \in Nat /\ n \in Nat
    BY <2>3, <2>4, OneLess
  <2>6. SumFunctionOnSet(F, t) \in Nat
    <3> HIDE DEF t
    <3>1. n - 1 \notin Bad
      BY <2>2, <2>5
    <3> QED BY <2>5, <3>1 DEF Bad
  <2>7. SumFunctionOnSet(F, s) = F[x] + SumFunctionOnSet(F, t)
    <3> HIDE DEF x
    <3> QED BY <2>5, SumRemove
  <2> HIDE DEF x, t
  <2> QED BY <2>3, <2>5, <2>6, <2>7
<1>2. Cardinality(S) \in Nat /\ S \in SUBSET S
  BY OneLess
<1> QED BY <1>1, <1>2

\* and monotonic.
LEMMA SumOrder ==
  ASSUME NEW F, NEW G, NEW S, IsFiniteSet(S),
         \A k \in S : F[k] \in Int /\ G[k] \in Int /\ F[k] <= G[k]
  PROVE  SumFunctionOnSet(F, S) <= SumFunctionOnSet(G, S)
<1> DEFINE D == [k \in S |-> G[k] - F[k]]
           f == SumFunctionOnSet(F, S)
           g == SumFunctionOnSet(G, S)
<1>1. \A k \in S : F[k] \in Int /\ G[k] \in Int /\ D[k] \in Nat /\ D[k] = G[k] + (-1) * F[k]
  OBVIOUS
<1> HIDE DEF D
<1>2. SumFunctionOnSet(D, S) \in Nat /\ f \in Int /\ g \in Int
  BY <1>1, SumNotNegative, SumType
<1>3. -1 \in Int
  OBVIOUS
<1>4. SumFunctionOnSet(D, S) = g + (-1) * f
  BY <1>1, <1>3, SumLinear
<1> HIDE DEF f, g
<1>5. f <= g
  BY <1>2, <1>4
<1> QED BY <1>5 DEF f, g

\* A sum of numbers that are all the same
LEMMA SumOfSame ==
  ASSUME NEW S, IsFiniteSet(S), NEW e \in Int
  PROVE  SumFunctionOnSet([k \in S |-> e], S) = e * Cardinality(S)
<1> DEFINE E(s) == SumFunctionOnSet([k \in S |-> e], s)
           Bad == {n \in Nat : \E s \in SUBSET S :
                     Cardinality(s) = n /\ E(s) # e * n}
<1>0. Cardinality(S) \in Nat /\ S \in SUBSET S
  BY OneLess
<1>1. ASSUME Bad # {} PROVE FALSE
  <2>1. Bad \in SUBSET Nat
    OBVIOUS
  <2> HIDE DEF Bad
  <2>2. PICK n \in Bad : \A m \in Bad : n <= m
    BY <1>1, <2>1, LeastNat
  <2>3. PICK s \in SUBSET S : Cardinality(s) = n /\ E(s) # e * n
    BY <2>2 DEF Bad
  <2>4. s # {}
    <3>1. E({}) = 0 /\ Cardinality({}) = 0 /\ e * 0 = 0
      BY SumEmpty, FS_EmptySet
    <3> QED BY <2>3, <3>1
  <2> DEFINE x == One(s)
             t == s \ {x}
  <2>5. /\ x \in s /\ x \in S /\ s \in SUBSET S /\ t \in SUBSET S /\ IsFiniteSet(s)
        /\ Cardinality(t) = n - 1 /\ Cardinality(t) \in Nat /\ n \in Nat
    BY <2>3, <2>4, OneLess
  <2> HIDE DEF E
  <2>6. E(t) = e * (n - 1)
    <3> HIDE DEF t
    <3>1. n - 1 \notin Bad
      BY <2>2, <2>5
    <3> QED BY <2>5, <3>1 DEF Bad
  <2>7. E(s) = e + E(t)
    <3> HIDE DEF x
    <3> DEFINE F == [k \in S |-> e]
    <3>1. \A k \in s : F[k] \in Int /\ F[k] = e
      BY <2>5
    <3> HIDE DEF F
    <3>2. SumFunctionOnSet(F, s) = F[x] + SumFunctionOnSet(F, s \ {x})
      BY <2>5, <3>1, SumRemove
    <3> QED BY <2>5, <3>1, <3>2 DEF E, F
  <2> HIDE DEF x, t
  <2>8. e + e * (n - 1) = e * n
    BY <2>5
  <2> QED BY <2>3, <2>6, <2>7, <2>8
<1> HIDE DEF E
<1>2. E(S) = e * Cardinality(S)
  BY <1>0, <1>1
<1> QED BY <1>2 DEF E

\* Sums of terms that are near, in proportion, are near.
LEMMA SumsNear ==
  ASSUME NEW F, NEW G, NEW E, NEW S, IsFiniteSet(S),
         \A k \in S : F[k] \in Int /\ G[k] \in Int /\ E[k] \in Int,
         NEW a \in Int, NEW b \in Int,
         \A k \in S : a * F[k] - b * G[k] <= E[k] /\ b * G[k] - a * F[k] <= E[k]
  PROVE  /\ a * SumFunctionOnSet(F, S) - b * SumFunctionOnSet(G, S) <= SumFunctionOnSet(E, S)
         /\ b * SumFunctionOnSet(G, S) - a * SumFunctionOnSet(F, S) <= SumFunctionOnSet(E, S)
<1> DEFINE Zero == [k \in S |-> 0]
           A == [k \in S |-> Zero[k] + a * F[k]]
           D == [k \in S |-> A[k] + (-b) * G[k]]
           M == [k \in S |-> Zero[k] + (-1) * D[k]]
           f == SumFunctionOnSet(F, S)
           g == SumFunctionOnSet(G, S)
           h == SumFunctionOnSet(E, S)
           z == SumFunctionOnSet(Zero, S)
           d == SumFunctionOnSet(D, S)
           m == SumFunctionOnSet(M, S)
<1>1. \A k \in S : /\ Zero[k] = 0 /\ A[k] = Zero[k] + a * F[k] /\ D[k] = A[k] + (-b) * G[k]
                   /\ M[k] = Zero[k] + (-1) * D[k]
  OBVIOUS
<1> HIDE DEF Zero, A, D, M
<1>2. \A k \in S : /\ Zero[k] \in Int /\ A[k] \in Int /\ D[k] \in Int /\ M[k] \in Int
                   /\ D[k] <= E[k] /\ M[k] <= E[k]
  <2> TAKE k \in S
  <2>1. /\ F[k] \in Int /\ G[k] \in Int /\ E[k] \in Int
        /\ a * F[k] - b * G[k] <= E[k] /\ b * G[k] - a * F[k] <= E[k]
    OBVIOUS
  <2> DEFINE u == a * F[k]
             v == b * G[k]
  <2>2. u \in Int /\ v \in Int /\ (-b) * G[k] = -v
    BY <2>1
  <2>3. u - v <= E[k] /\ v - u <= E[k]
    BY <2>1
  <2>4. A[k] = 0 + u /\ D[k] = A[k] + (-v) /\ M[k] = 0 + (-1) * D[k] /\ Zero[k] = 0
    BY <1>1, <2>2
  <2> HIDE DEF u, v
  <2> QED BY <2>1, <2>2, <2>3, <2>4
<1>3. z = 0
  <2>1. \A y \in S : Zero[y] \in Int
    BY <1>2
  <2>2. \A y \in S \ {} : Zero[y] = 0
    BY <1>1
  <2>3. z = SumFunctionOnSet(Zero, {})
    BY <2>1, <2>2, SumZeros
  <2> QED BY <2>3, SumEmpty
<1>4. SumFunctionOnSet(A, S) = z + a * f
  BY <1>1, <1>2, SumLinear
<1>5. d = SumFunctionOnSet(A, S) + (-b) * g
  <2>1. -b \in Int
    OBVIOUS
  <2> QED BY <1>1, <1>2, <2>1, SumLinear
<1>6. m = z + (-1) * d
  <2>1. -1 \in Int
    OBVIOUS
  <2> QED BY <1>1, <1>2, <2>1, SumLinear
<1>7. d <= h /\ m <= h
  BY <1>2, SumOrder
<1>8. f \in Int /\ g \in Int /\ h \in Int
  BY SumType
<1> HIDE DEF f, g, h, z, d, m
<1>9. a * f - b * g <= h /\ b * g - a * f <= h
  <2> DEFINE u == a * f
             v == b * g
  <2>1. u \in Int /\ v \in Int /\ (-b) * g = -v
    BY <1>8
  <2>2. d = u + (-v)
    BY <1>3, <1>4, <1>5, <2>1
  <2> HIDE DEF u, v
  <2>3. u - v <= h /\ v - u <= h
    BY <1>3, <1>6, <1>7, <1>8, <2>1, <2>2
  <2> QED BY <2>3 DEF u, v
<1> QED BY <1>9 DEF f, g, h

\* A sum may be taken in two parts.
LEMMA SumSplit ==
  ASSUME NEW F, NEW S, IsFiniteSet(S), \A k \in S : F[k] \in Int, NEW T \in SUBSET S
  PROVE  SumFunctionOnSet(F, S) = SumFunctionOnSet(F, T) + SumFunctionOnSet(F, S \ T)
<1> DEFINE U == S \ T
           G == [k \in S |-> IF k \in T THEN F[k] ELSE 0]
           H == [k \in S |-> IF k \in T THEN 0 ELSE F[k]]
<1>1. /\ \A k \in S : G[k] \in Int /\ H[k] \in Int /\ F[k] = G[k] + 1 * H[k]
      /\ \A k \in T : G[k] = F[k]
      /\ \A k \in S \ T : G[k] = 0
      /\ \A k \in U : H[k] = F[k]
      /\ \A k \in S \ U : H[k] = 0
      /\ U \in SUBSET S
  OBVIOUS
<1> HIDE DEF G, H, U
<1>2. IsFiniteSet(T) /\ IsFiniteSet(U)
  BY <1>1, FS_Subset
<1>3. SumFunctionOnSet(F, S) = SumFunctionOnSet(G, S) + 1 * SumFunctionOnSet(H, S)
  BY <1>1, SumLinear
<1>4. SumFunctionOnSet(G, S) = SumFunctionOnSet(G, T)
  BY <1>1, SumZeros
<1>5. SumFunctionOnSet(H, S) = SumFunctionOnSet(H, U)
  BY <1>1, SumZeros
<1>6. SumFunctionOnSet(G, T) = SumFunctionOnSet(F, T)
  BY <1>1, <1>2, SumSame
<1>7. SumFunctionOnSet(H, U) = SumFunctionOnSet(F, U)
  BY <1>1, <1>2, SumSame
<1>8. SumFunctionOnSet(F, U) \in Int
  BY <1>1, <1>2, SumType
<1> QED BY <1>3, <1>4, <1>5, <1>6, <1>7, <1>8 DEF U

\* A sum over groups that each add up to zero is zero.
LEMMA SumGroups ==
  ASSUME NEW F, NEW S, IsFiniteSet(S), \A k \in S : F[k] \in Int, NEW group,
         \A k \in S : SumFunctionOnSet(F, {j \in S : group[j] = group[k]}) = 0
  PROVE  SumFunctionOnSet(F, S) = 0
<1> DEFINE Of(k) == {j \in S : group[j] = group[k]}
           Whole(s) == \A k \in s : Of(k) \in SUBSET s
           Bad == {n \in Nat : \E s \in SUBSET S : /\ Cardinality(s) = n /\ Whole(s)
                                                   /\ SumFunctionOnSet(F, s) # 0}
<1>1. ASSUME Bad # {} PROVE FALSE
  <2>1. Bad \in SUBSET Nat
    OBVIOUS
  <2> HIDE DEF Bad
  <2>2. PICK n \in Bad : \A m \in Bad : n <= m
    BY <1>1, <2>1, LeastNat
  <2>3. PICK s \in SUBSET S : Cardinality(s) = n /\ Whole(s) /\ SumFunctionOnSet(F, s) # 0
    BY <2>2 DEF Bad
  <2>4. PICK x \in s : TRUE
    BY <2>3, SumEmpty
  <2> DEFINE g == Of(x)
             t == s \ g
  <2>5. x \in g /\ g \in SUBSET s /\ t \in SUBSET S /\ t \in SUBSET (s \ {x})
    BY <2>3, <2>4
  <2>6. Whole(t)
    <3> SUFFICES ASSUME NEW k \in t, NEW j \in Of(k) PROVE j \in t
      OBVIOUS
    <3>1. k \in s /\ j \in s
      BY <2>3
    <3>2. k \in S /\ group[k] # group[x] /\ group[j] = group[k]
      BY <2>3
    <3> QED BY <3>1, <3>2
  <2>7. SumFunctionOnSet(F, g) = 0
    BY <2>4
  <2> HIDE DEF Whole, t, g
  <2>8. /\ IsFiniteSet(s) /\ Cardinality(t) \in Nat /\ Cardinality(t) < n
    <3>1. /\ IsFiniteSet(s) /\ Cardinality(s) \in Nat
          /\ Cardinality(s \ {x}) = Cardinality(s) - 1 /\ s \ {x} \in SUBSET S
      BY <2>4, OneLess
    <3>2. IsFiniteSet(s \ {x})
      BY <3>1, FS_Subset
    <3>3. IsFiniteSet(t) /\ Cardinality(t) <= Cardinality(s \ {x})
      BY <2>5, <3>2, FS_Subset
    <3>4. Cardinality(t) \in Nat
      BY <3>3, FS_CardinalityType
    <3> QED BY <2>3, <3>1, <3>3, <3>4
  <2>9. SumFunctionOnSet(F, t) = 0
    <3>1. Cardinality(t) \notin Bad
      BY <2>1, <2>2, <2>8
    <3> QED BY <2>5, <2>6, <2>8, <3>1 DEF Bad
  <2>10. SumFunctionOnSet(F, s) = SumFunctionOnSet(F, g) + SumFunctionOnSet(F, t)
    <3>1. \A k \in s : F[k] \in Int
      OBVIOUS
    <3> QED BY <2>5, <2>8, <3>1, SumSplit DEF t
  <2> QED BY <2>3, <2>7, <2>9, <2>10
<1>2. Cardinality(S) \in Nat /\ S \in SUBSET S /\ Whole(S)
  BY FS_CardinalityType
<1> HIDE DEF Whole
<1>3. Cardinality(S) \notin Bad
  BY <1>1
<1> QED BY <1>2, <1>3

\* A sum is that of the sums of the parts into which its index is split.
LEMMA SumPartition ==
  ASSUME NEW F, NEW S, IsFiniteSet(S), \A k \in S : F[k] \in Int,
         NEW group, NEW G, IsFiniteSet(G), \A k \in S : group[k] \in G
  PROVE  SumFunctionOnSet(F, S) =
           SumFunctionOnSet([g \in G |-> SumFunctionOnSet(F, {k \in S : group[k] = g})], G)
<1> DEFINE Of(g) == {k \in S : group[k] = g}
           In(t) == {k \in S : group[k] \in t}
           H == [g \in G |-> SumFunctionOnSet(F, Of(g))]
           Bad == {n \in Nat : \E t \in SUBSET G :
                     Cardinality(t) = n /\ SumFunctionOnSet(F, In(t)) # SumFunctionOnSet(H, t)}
<1>0. /\ \A s \in SUBSET S : IsFiniteSet(s) /\ SumFunctionOnSet(F, s) \in Int
      /\ \A g \in G : H[g] = SumFunctionOnSet(F, Of(g)) /\ H[g] \in Int
  <2>1. ASSUME NEW s \in SUBSET S PROVE IsFiniteSet(s) /\ SumFunctionOnSet(F, s) \in Int
    <3>1. IsFiniteSet(s) /\ \A x \in s : F[x] \in Int
      BY FS_Subset
    <3> QED BY <3>1, SumType
  <2>2. \A g \in G : Of(g) \in SUBSET S
    OBVIOUS
  <2> HIDE DEF Of
  <2> QED BY <2>1, <2>2
<1>1. ASSUME Bad # {} PROVE FALSE
  <2>1. Bad \in SUBSET Nat
    OBVIOUS
  <2> HIDE DEF Bad
  <2>2. PICK n \in Bad : \A m \in Bad : n <= m
    BY <1>1, <2>1, LeastNat
  <2>3. PICK t \in SUBSET G :
          Cardinality(t) = n /\ SumFunctionOnSet(F, In(t)) # SumFunctionOnSet(H, t)
    BY <2>2 DEF Bad
  <2>4. PICK g \in t : TRUE
    <3>1. t = {} => In(t) = {}
      OBVIOUS
    <3> HIDE DEF H, In
    <3> QED BY <2>3, <3>1, SumEmpty
  <2> DEFINE u == t \ {g}
  <2>5. In(t) \in SUBSET S /\ Of(g) \in SUBSET In(t) /\ In(t) \ Of(g) = In(u)
    BY <2>4
  <2>6. /\ IsFiniteSet(t) /\ Cardinality(u) \in Nat /\ Cardinality(u) < n /\ u \in SUBSET G
    <3>1. /\ IsFiniteSet(t) /\ Cardinality(t) \in Nat
          /\ Cardinality(t \ {g}) = Cardinality(t) - 1 /\ t \ {g} \in SUBSET G
      BY <2>4, OneLess
    <3>2. IsFiniteSet(t \ {g})
      BY <3>1, FS_Subset
    <3>3. Cardinality(t \ {g}) \in Nat
      BY <3>2, FS_CardinalityType
    <3> QED BY <2>3, <3>1, <3>3
  <2> HIDE DEF u, H, In, Of
  <2>7. SumFunctionOnSet(F, In(u)) = SumFunctionOnSet(H, u)
    <3>1. Cardinality(u) \notin Bad
      BY <2>1, <2>2, <2>6
    <3> QED BY <2>6, <3>1 DEF Bad
  <2>8. SumFunctionOnSet(H, t) = H[g] + SumFunctionOnSet(H, u)
    <3>1. \A x \in t : H[x] \in Int
      BY <1>0, <2>3
    <3> QED BY <2>4, <2>6, <3>1, SumRemove DEF u
  <2>9. SumFunctionOnSet(F, In(t)) = SumFunctionOnSet(F, Of(g)) + SumFunctionOnSet(F, In(u))
    <3>1. IsFiniteSet(In(t)) /\ \A x \in In(t) : F[x] \in Int
      BY <1>0, <2>5
    <3>2. SumFunctionOnSet(F, In(t)) =
            SumFunctionOnSet(F, Of(g)) + SumFunctionOnSet(F, In(t) \ Of(g))
      BY <2>5, <3>1, SumSplit
    <3> QED BY <2>5, <3>2
  <2>10. H[g] = SumFunctionOnSet(F, Of(g))
    BY <1>0, <2>3, <2>4
  <2> QED BY <2>3, <2>7, <2>8, <2>9, <2>10
<1>2. Cardinality(G) \in Nat /\ G \in SUBSET G /\ In(G) = S
  BY FS_CardinalityType
<1> HIDE DEF H, In
<1>3. Cardinality(G) \notin Bad
  BY <1>1
<1>4. SumFunctionOnSet(F, In(G)) = SumFunctionOnSet(H, G)
  BY <1>2, <1>3
<1> QED BY <1>2, <1>4 DEF H

\* A sum of which one term at most is not zero is that term.
LEMMA SumOneTerm ==
  ASSUME NEW F, NEW S, IsFiniteSet(S), \A x \in S : F[x] \in Int
  PROVE  /\ (\A x \in S : F[x] = 0) => SumFunctionOnSet(F, S) = 0
         /\ \A y \in S : (\A x \in S \ {y} : F[x] = 0) => SumFunctionOnSet(F, S) = F[y]
<1>1. ASSUME \A x \in S : F[x] = 0 PROVE SumFunctionOnSet(F, S) = 0
  <2>1. {} \in SUBSET S /\ \A x \in S \ {} : F[x] = 0
    BY <1>1
  <2>2. SumFunctionOnSet(F, S) = SumFunctionOnSet(F, {})
    BY <2>1, SumZeros
  <2> QED BY <2>2, SumEmpty
<1>2. ASSUME NEW y \in S, \A x \in S \ {y} : F[x] = 0 PROVE SumFunctionOnSet(F, S) = F[y]
  <2>1. {y} \in SUBSET S /\ IsFiniteSet({y}) /\ F[y] \in Int
    BY FS_Singleton
  <2>2. SumFunctionOnSet(F, S) = SumFunctionOnSet(F, {y})
    BY <1>2, <2>1, SumZeros
  <2>3. SumFunctionOnSet(F, {y}) = F[y] + SumFunctionOnSet(F, {y} \ {y})
    BY <2>1, SumRemove
  <2>4. SumFunctionOnSet(F, {y} \ {y}) = 0
    <3>1. {y} \ {y} = {}
      OBVIOUS
    <3> QED BY <3>1, SumEmpty
  <2> QED BY <2>1, <2>2, <2>3, <2>4
<1> QED BY <1>1, <1>2

\* The image of a finite set
LEMMA FiniteImage ==
  ASSUME NEW S, IsFiniteSet(S), NEW f
  PROVE  IsFiniteSet({f[x] : x \in S})
<1> DEFINE T == {f[x] : x \in S}
           g == [x \in S |-> f[x]]
<1>1. g \in [S -> T] /\ \A y \in T : \E x \in S : g[x] = y
  OBVIOUS
<1> HIDE DEF g, T
<1>2. g \in Surjection(S, T)
  BY <1>1 DEF Surjection
<1> QED BY <1>2, FS_Surjection DEF T

\* A function on 1 .. n is a sequence of length n.
LEMMA AsSequence ==
  ASSUME NEW n \in Nat, NEW S, NEW f \in [1 .. n -> S]
  PROVE  f \in Seq(S) /\ Len(f) = n
<1>1. f \in Seq(S)
  BY SeqDef
<1>2. Len(f) \in Nat /\ DOMAIN f = 1 .. Len(f)
  BY <1>1, LenProperties
<1> QED BY <1>1, <1>2

\* A set of numbers up to n that has any has a greatest one, Max of it.
LEMMA MaxUpTo ==
  ASSUME NEW n \in Nat, NEW S \in SUBSET (0 .. n), S # {}
  PROVE  Max(S) \in S /\ \A x \in S : x <= Max(S)
<1> DEFINE T == {m \in Nat : \E x \in S : m = n - x}
<1>1. \A x \in S : x \in Nat /\ n - x \in T
  OBVIOUS
<1>2. T \in SUBSET Nat /\ T # {}
  BY <1>1
<1>3. PICK m \in T : \A j \in T : m <= j
  <2> HIDE DEF T
  <2> QED BY <1>2, LeastNat
<1>4. PICK x \in S : m = n - x
  BY <1>3
<1>5. \A y \in S : y <= x
  <2> TAKE y \in S
  <2>1. n - y \in T /\ m <= n - y /\ y \in Nat /\ x \in Nat
    BY <1>1, <1>3
  <2> HIDE DEF T
  <2> QED BY <1>4, <2>1
<1>6. x \in S /\ \A y \in S : x >= y
  BY <1>1, <1>5
<1>7. Max(S) \in S /\ \A y \in S : Max(S) >= y
  BY <1>6 DEF Max
<1> QED BY <1>1, <1>7

\* A function computed step by step, in V, from what it starts with
Steps(step, lo, hi, V) == \A n \in (lo + 1) .. hi : \A x \in V : step[n][x] \in V
Stepwise(f, step, lo, hi, v) ==
  f[lo] = v /\ \A n \in (lo + 1) .. hi : f[n] = step[n][f[n - 1]]

\* There is one.
LEMMA Recursion ==
  ASSUME NEW lo \in Int, NEW hi \in Int, lo <= hi, NEW V, NEW v \in V, NEW step, Steps(step, lo, hi, V)
  PROVE  \E f \in [lo .. hi -> V] : Stepwise(f, step, lo, hi, v)
<1> DEFINE Good(f, m) == f[lo] = v /\ \A n \in (lo + 1) .. m : f[n] = step[n][f[n - 1]]
           Bad == {m \in Nat : lo + m <= hi /\ ~ \E f \in [lo .. hi -> V] : Good(f, lo + m)}
<1>1. ASSUME Bad # {} PROVE FALSE
  <2>1. PICK m \in Bad : \A n \in Bad : m <= n
    <3>1. Bad \in SUBSET Nat
      OBVIOUS
    <3> HIDE DEF Bad
    <3> QED BY <1>1, <3>1, LeastNat
  <2>2. m \in Nat /\ lo + m <= hi /\ ~ \E f \in [lo .. hi -> V] : Good(f, lo + m)
    OBVIOUS
  <2>3. m # 0
    <3> DEFINE c == [n \in lo .. hi |-> v]
    <3>1. c \in [lo .. hi -> V] /\ c[lo] = v
      OBVIOUS
    <3>2. \A n \in (lo + 1) .. (lo + 0) : FALSE
      OBVIOUS
    <3> HIDE DEF c
    <3>3. Good(c, lo + 0)
      BY <3>1, <3>2
    <3> HIDE DEF Good
    <3> QED BY <2>2, <3>1, <3>3
  <2>4. m - 1 \in Nat /\ lo + (m - 1) <= hi /\ m - 1 \notin Bad
    <3>1. m - 1 \in Nat /\ lo + (m - 1) <= hi /\ ~(m <= m - 1)
      BY <2>2, <2>3
    <3> HIDE DEF Bad
    <3> QED BY <2>1, <3>1
  <2>5. PICK f \in [lo .. hi -> V] : Good(f, lo + (m - 1))
    <3> HIDE DEF Good
    <3> QED BY <2>4
  <2> HIDE DEF Bad
  <2> DEFINE e == lo + m
             new == [f EXCEPT ![e] = step[e][f[e - 1]]]
  <2>6. e \in (lo + 1) .. hi /\ e - 1 \in lo .. hi /\ e \in lo .. hi /\ e - 1 = lo + (m - 1)
        /\ e # lo /\ e \in Int
    BY <2>2, <2>3, <2>4
  <2>7. f[e - 1] \in V
    <3> HIDE DEF e
    <3> QED BY <2>6
  <2>8. step[e][f[e - 1]] \in V
    <3> HIDE DEF e
    <3> QED BY <2>6, <2>7 DEF Steps
  <2> HIDE DEF e
  <2>9. new \in [lo .. hi -> V] /\ new[e] = step[e][f[e - 1]]
        /\ \A n \in (lo .. hi) \ {e} : new[n] = f[n]
    BY <2>6, <2>8
  <2> HIDE DEF new
  <2>10. f[lo] = v /\ \A n \in (lo + 1) .. (e - 1) : f[n] = step[n][f[n - 1]]
    BY <2>5, <2>6
  <2>11. new[lo] = v
    BY <2>6, <2>9, <2>10
  <2>12. ASSUME NEW n \in (lo + 1) .. e PROVE new[n] = step[n][new[n - 1]]
    <3>1. n - 1 \in (lo .. hi) \ {e}
      BY <2>6, <2>12
    <3>2. new[n - 1] = f[n - 1]
      BY <2>9, <3>1
    <3>3. CASE n = e
      BY <2>9, <3>2, <3>3
    <3>4. CASE n # e
      <4>1. n \in (lo + 1) .. (e - 1) /\ n \in (lo .. hi) \ {e}
        BY <2>6, <2>12, <3>4
      <4> QED BY <2>9, <2>10, <3>2, <4>1
    <3> QED BY <3>3, <3>4
  <2>13. Good(new, lo + m)
    BY <2>11, <2>12 DEF e
  <2> HIDE DEF Good
  <2> QED BY <2>2, <2>9, <2>13
<1>2. hi - lo \in Nat /\ lo + (hi - lo) = hi /\ lo + (hi - lo) <= hi /\ hi - lo \notin Bad
  <2>1. hi - lo \in Nat /\ lo + (hi - lo) = hi /\ lo + (hi - lo) <= hi
    OBVIOUS
  <2> HIDE DEF Bad
  <2> QED BY <1>1, <2>1
<1>3. PICK f \in [lo .. hi -> V] : Good(f, hi)
  <2> HIDE DEF Good
  <2> QED BY <1>2
<1>4. f[lo] = v /\ \A n \in (lo + 1) .. hi : f[n] = step[n][f[n - 1]]
  BY <1>3
<1> QED BY <1>4 DEF Stepwise

\* The greatest and the least of a finite set of integers
LEMMA FiniteMax ==
  ASSUME NEW S, S \subseteq Int, IsFiniteSet(S), S # {}
  PROVE  /\ Max(S) \in S /\ \A x \in S : x <= Max(S)
         /\ Min(S) \in S /\ \A x \in S : Min(S) <= x
<1> DEFINE Up(s) == \E x \in s : \A y \in s : y <= x
           Down(s) == \E x \in s : \A y \in s : x <= y
           Bad == {n \in Nat : \E s \in SUBSET S : Cardinality(s) = n /\ s # {} /\ ~(Up(s) /\ Down(s))}
<1>0. \A s \in SUBSET S : Cardinality(s) \in Nat
  BY OneLess
<1>1. ASSUME Bad # {} PROVE FALSE
  <2>1. PICK n \in Bad : \A m \in Bad : n <= m
    <3>1. Bad \in SUBSET Nat
      OBVIOUS
    <3> HIDE DEF Bad
    <3> QED BY <1>1, <3>1, LeastNat
  <2>2. PICK s \in SUBSET S : Cardinality(s) = n /\ s # {} /\ ~(Up(s) /\ Down(s))
    BY <2>1
  <2>3. PICK x \in s : TRUE
    BY <2>2
  <2> DEFINE t == s \ {x}
  <2>4. Cardinality(t) = n - 1 /\ t \in SUBSET S /\ n \in Nat /\ n - 1 \in Nat
    <3>1. Cardinality(s \ {x}) = Cardinality(s) - 1 /\ s \ {x} \in SUBSET S
      BY <2>3, OneLess
    <3>2. Cardinality(s \ {x}) \in Nat
      BY <1>0, <3>1
    <3> QED BY <2>1, <2>2, <3>1, <3>2
  <2>5. n - 1 \notin Bad
    BY <2>1, <2>4
  <2>6. t # {} => Up(t) /\ Down(t)
    <3> HIDE DEF Up, Down, t
    <3> QED BY <2>4, <2>5
  <2> HIDE DEF Bad
  <2>7. x \in Int /\ s \subseteq Int /\ s = t \cup {x}
    BY <2>2, <2>3
  <2> HIDE DEF t
  <2>8. CASE t = {}
    <3>1. \A y \in s : y <= x /\ x <= y
      BY <2>7, <2>8
    <3> QED BY <2>2, <2>3, <3>1
  <2>9. CASE t # {}
    <3>1. PICK u \in t : \A y \in t : y <= u
      BY <2>6, <2>9
    <3>2. PICK d \in t : \A y \in t : d <= y
      BY <2>6, <2>9
    <3>3. u \in Int /\ d \in Int /\ u \in s /\ d \in s /\ \A y \in s : y \in Int /\ (y = x \/ y \in t)
      BY <2>7, <3>1, <3>2
    <3>4. Up(s)
      <4>1. CASE u <= x
        <5>1. \A y \in s : y <= x
          BY <2>7, <3>1, <3>3, <4>1
        <5> QED BY <2>3, <5>1
      <4>2. CASE ~(u <= x)
        <5>1. \A y \in s : y <= u
          BY <2>7, <3>1, <3>3, <4>2
        <5> QED BY <3>3, <5>1
      <4> QED BY <4>1, <4>2
    <3>5. Down(s)
      <4>1. CASE x <= d
        <5>1. \A y \in s : x <= y
          BY <2>7, <3>2, <3>3, <4>1
        <5> QED BY <2>3, <5>1
      <4>2. CASE ~(x <= d)
        <5>1. \A y \in s : d <= y
          BY <2>7, <3>2, <3>3, <4>2
        <5> QED BY <3>3, <5>1
      <4> QED BY <4>1, <4>2
    <3> QED BY <2>2, <3>4, <3>5
  <2> QED BY <2>8, <2>9
<1>2. Cardinality(S) \in Nat /\ S \in SUBSET S /\ Cardinality(S) \notin Bad
  BY <1>1, FS_CardinalityType
<1>3. Up(S) /\ Down(S)
  <2> HIDE DEF Up, Down
  <2> QED BY <1>2
<1>4. \E x \in S : \A y \in S : x >= y
  BY <1>3
<1>5. Max(S) \in S /\ \A y \in S : Max(S) >= y
  BY <1>4 DEF Max
<1>6. Min(S) \in S /\ \A y \in S : Min(S) <= y
  BY <1>3 DEF Min
<1> QED BY <1>5, <1>6

\* The greater and the less of two integers
LEMMA MaxOfTwo ==
  ASSUME NEW x \in Int, NEW y \in Int
  PROVE  /\ Max({x, y}) = IF x <= y THEN y ELSE x
         /\ Min({x, y}) = IF x <= y THEN x ELSE y
<1>1. {x, y} \subseteq Int /\ IsFiniteSet({x, y}) /\ {x, y} # {}
  <2>1. IsFiniteSet({x}) /\ {x, y} = {x} \cup {y}
    BY FS_Singleton
  <2> QED BY <2>1, FS_AddElement
<1>2. /\ Max({x, y}) \in {x, y} /\ \A z \in {x, y} : z <= Max({x, y})
      /\ Min({x, y}) \in {x, y} /\ \A z \in {x, y} : Min({x, y}) <= z
  BY <1>1, FiniteMax
<1> QED BY <1>2

-----------------------------------------------------------------------------
(* Products, and the sum of the steps of a function *)

LEMMA ProductTyped ==
  ASSUME NEW x \in Int, NEW y \in Int
  PROVE  x * y \in Int /\ (x >= 0 /\ y >= 0 => x * y >= 0) /\ (x > 0 /\ y > 0 => x * y > 0)
OBVIOUS

LEMMA ProductGrows ==
  ASSUME NEW x \in Int, NEW y \in Int, NEW z \in Int, x <= y, z >= 0
  PROVE  x * z <= y * z
<1>1. y - x \in Int /\ y - x >= 0
  OBVIOUS
<1>2. (y - x) * z >= 0
  BY <1>1, ProductTyped
<1>3. (y - x) * z = y * z - x * z
  OBVIOUS
<1> DEFINE p == x * z
           q == y * z
<1>4. p \in Int /\ q \in Int
  OBVIOUS
<1>5. q - p >= 0
  BY <1>2, <1>3
<1> HIDE DEF p, q
<1>6. p <= q
  BY <1>4, <1>5
<1> QED BY <1>6 DEF p, q

\* The sum of the steps from one number to another
LEMMA Telescope ==
  ASSUME NEW lo \in Int, NEW hi \in Int, lo <= hi, NEW u, \A k \in lo .. hi : u[k] \in Int
  PROVE  SumFunctionOnSet([k \in (lo + 1) .. hi |-> u[k] - u[k - 1]], (lo + 1) .. hi) = u[hi] - u[lo]
<1> DEFINE F == [k \in (lo + 1) .. hi |-> u[k] - u[k - 1]]
           In(m) == (lo + 1) .. (lo + m)
           Sum(m) == SumFunctionOnSet(F, In(m))
           Bad == {m \in Nat : lo + m <= hi /\ Sum(m) # u[lo + m] - u[lo]}
<1>1. \A k \in (lo + 1) .. hi : F[k] = u[k] - u[k - 1] /\ F[k] \in Int
  <2> TAKE k \in (lo + 1) .. hi
  <2>1. k \in lo .. hi /\ k - 1 \in lo .. hi
    OBVIOUS
  <2> QED BY <2>1
<1> HIDE DEF F
<1>2. ASSUME Bad # {} PROVE FALSE
  <2>1. Bad \in SUBSET Nat
    OBVIOUS
  <2> HIDE DEF Bad
  <2>2. PICK m \in Bad : \A n \in Bad : m <= n
    BY <1>2, <2>1, LeastNat
  <2> USE DEF Bad
  <2> HIDE DEF Sum
  <2>3. m \in Nat /\ lo + m <= hi /\ Sum(m) # u[lo + m] - u[lo]
    BY <2>2
  <2>4. m # 0
    <3> SUFFICES ASSUME m = 0 PROVE FALSE
      OBVIOUS
    <3>1. In(0) = {}
      OBVIOUS
    <3>2. Sum(0) = 0
      BY <3>1, SumEmpty DEF Sum
    <3>3. lo + 0 = lo /\ lo \in lo .. hi
      OBVIOUS
    <3>4. u[lo] \in Int
      BY <3>3
    <3> QED BY <2>3, <3>2, <3>3, <3>4
  <2>5. m - 1 \in Nat /\ lo + (m - 1) <= hi /\ ~(m <= m - 1)
    BY <2>3, <2>4
  <2>6. Sum(m - 1) = u[lo + (m - 1)] - u[lo]
    BY <2>2, <2>5
  <2> HIDE DEF Bad
  <2> DEFINE e == lo + m
  <2>7. e \in In(m) /\ In(m) \ {e} = In(m - 1) /\ e - 1 = lo + (m - 1)
        /\ In(m) \in SUBSET ((lo + 1) .. hi) /\ e \in (lo + 1) .. hi
    BY <2>3, <2>4
  <2>8. IsFiniteSet(In(m))
    <3>1. lo + 1 \in Int /\ lo + m \in Int
      BY <2>3
    <3> QED BY <3>1, FS_Interval
  <2>9. \A k \in In(m) : F[k] \in Int
    BY <1>1, <2>7
  <2> DEFINE S == In(m)
  <2>10. SumFunctionOnSet(F, S) = F[e] + SumFunctionOnSet(F, S \ {e})
    <3>1. e \in S /\ IsFiniteSet(S) /\ \A k \in S : F[k] \in Int
      BY <2>7, <2>8, <2>9
    <3> HIDE DEF S, e
    <3> QED BY <3>1, SumRemove
  <2>11. Sum(m) = F[e] + Sum(m - 1)
    <3> HIDE DEF e, In
    <3> QED BY <2>7, <2>10 DEF Sum, S
  <2>12. F[e] = u[e] - u[e - 1]
    <3> HIDE DEF e
    <3> QED BY <1>1, <2>7
  <2>13. u[e] \in Int /\ u[e - 1] \in Int /\ u[lo] \in Int
    <3>1. e \in lo .. hi /\ e - 1 \in lo .. hi /\ lo \in lo .. hi
      BY <2>3, <2>4
    <3> HIDE DEF e
    <3> QED BY <3>1
  <2>14. Sum(m - 1) = u[e - 1] - u[lo]
    BY <2>6, <2>7
  <2> HIDE DEF e, In
  <2>15. Sum(m) = u[e] - u[lo]
    BY <2>11, <2>12, <2>13, <2>14
  <2> QED BY <2>3, <2>15 DEF e
<1>3. hi - lo \in Nat /\ lo + (hi - lo) = hi
  OBVIOUS
<1> HIDE DEF Sum
<1>4. Sum(hi - lo) = u[hi] - u[lo]
  <2>1. hi - lo \in Bad <=> hi - lo \in Nat /\ lo + (hi - lo) <= hi
                            /\ Sum(hi - lo) # u[lo + (hi - lo)] - u[lo]
    OBVIOUS
  <2> HIDE DEF Bad
  <2> QED BY <1>2, <1>3, <2>1
<1>5. In(hi - lo) = (lo + 1) .. hi
  BY <1>3
<1> QED BY <1>4, <1>5 DEF Sum, F

-----------------------------------------------------------------------------
(* The depreciation table *)

\* What the table needs to know of an asset
ProperAsset(a) ==
  /\ a.purchase \in Nat /\ a.salvage \in Nat /\ a.salvage < a.purchase
  /\ a.method \in Methods /\ a.years \in Nat /\ a.years # 0
  /\ a.start \in 0 .. PeriodsPerYear - 1 /\ a.prorata \in BOOLEAN

LEMMA RoundedTyped ==
  ASSUME NEW n \in Int, NEW d \in Nat, d # 0
  PROVE  /\ RoundedQuotient(n, d) \in Int
         /\ n >= 0 => RoundedQuotient(n, d) >= 0
<1>1. 2 * d \in Nat /\ 2 * d > 0 /\ 2 * n + d \in Int /\ (n >= 0 => 2 * n + d >= 0)
  OBVIOUS
<1> DEFINE x == 2 * n + d
           e == 2 * d
<1>2. e \in Nat /\ e > 0 /\ x \in Int
  BY <1>1
<1> HIDE DEF x, e
<1>3. x \div e \in Int /\ (x >= 0 => x \div e >= 0)
  BY <1>2
<1> QED BY <1>1, <1>3 DEF x, e, RoundedQuotient

LEMMA RoundedAtMost ==
  ASSUME NEW n \in Int, NEW d \in Nat, d # 0, NEW m \in Int, n <= m * d
  PROVE  RoundedQuotient(n, d) <= m
<1> DEFINE x == 2 * n + d
           e == 2 * d
           q == x \div e
           k == m * d
<1>1. k \in Int /\ e \in Int /\ e > 0 /\ x \in Int /\ n <= k /\ e = 2 * d /\ x = 2 * n + d
  OBVIOUS
<1>2. (m + 1) * e = 2 * k + e
  OBVIOUS
<1> HIDE DEF x, e, k
<1>3. q \in Int /\ q * e <= x
  BY <1>1
<1> HIDE DEF q
<1>4. ASSUME q >= m + 1 PROVE FALSE
  <2>1. (m + 1) * e <= q * e
    BY <1>1, <1>3, <1>4, ProductGrows
  <2> DEFINE u == q * e
             v == (m + 1) * e
  <2>2. u \in Int /\ v \in Int /\ v <= u /\ u <= x /\ v = 2 * k + e
    BY <1>1, <1>2, <1>3, <2>1
  <2> HIDE DEF u, v
  <2> QED BY <1>1, <2>2
<1>5. q <= m
  BY <1>3, <1>4
<1> QED BY <1>5 DEF q, x, e, RoundedQuotient

LEMMA AmountsOfAsset ==
  ASSUME NEW a, ProperAsset(a)
  PROVE  /\ DepreciationBase(a) \in Nat /\ DepreciationBase(a) # 0 /\ Depreciable(a) \in Int
         /\ Scale(a) \in Nat /\ Scale(a) # 0
         /\ PeriodsPerYear \in Nat /\ PeriodsPerYear # 0
         /\ Scale(a) * PeriodsPerYear \in Nat /\ Scale(a) * PeriodsPerYear # 0
         /\ a.method = "degr-linear" => Depreciable(a) = DepreciationBase(a)
<1>1. DepreciationBase(a) \in Nat /\ DepreciationBase(a) # 0
  BY DEF ProperAsset, DepreciationBase
<1>2. Depreciable(a) \in Int /\ (a.method = "degr-linear" => Depreciable(a) = DepreciationBase(a))
  BY <1>1 DEF ProperAsset, Depreciable, UpToSalvage
<1>3. ProgressFactor[2] \in Nat /\ ProgressFactor[2] # 0 /\ PeriodsPerYear \in Nat /\ PeriodsPerYear # 0
  BY DepreciationAssumption
<1>4. a.years \in Nat /\ a.years # 0
  BY DEF ProperAsset
<1>5. Scale(a) \in Nat /\ Scale(a) # 0
  <2> DEFINE x == a.years
             y == ProgressFactor[2]
  <2>1. x \in Int /\ y \in Int /\ x > 0 /\ y > 0
    BY <1>3, <1>4
  <2> HIDE DEF x, y
  <2>2. x * y \in Int /\ x * y > 0
    BY <2>1, ProductTyped
  <2> QED BY <2>2 DEF x, y, Scale
<1>6. Scale(a) * PeriodsPerYear \in Nat /\ Scale(a) * PeriodsPerYear # 0
  <2> DEFINE x == Scale(a)
             y == PeriodsPerYear
  <2>1. x \in Int /\ y \in Int /\ x > 0 /\ y > 0
    BY <1>3, <1>5
  <2> HIDE DEF x, y
  <2>2. x * y \in Int /\ x * y > 0
    BY <2>1, ProductTyped
  <2> QED BY <2>2 DEF x, y
<1> QED BY <1>1, <1>2, <1>3, <1>5, <1>6

\* The amount of a year is an integer, not negative where the method is the degressive
\* one up to the linear amount, and leaves the salvage value where it has to.
LEMMA YearAmountTyped ==
  ASSUME NEW a, ProperAsset(a), NEW r \in Int
  PROVE  /\ YearAmount(a, r) \in Int
         /\ a.method = "degr-linear" /\ r >= 0 => YearAmount(a, r) >= 0
         /\ UpToSalvage(a) /\ r >= a.salvage =>
              YearAmount(a, r) >= 0 /\ YearAmount(a, r) <= (r - a.salvage) * Scale(a)
<1> DEFINE linear == DepreciationBase(a) * ProgressFactor[2]
           part == r * ProgressFactor[1]
           degressive == part * a.years
           rest == r * Scale(a)
           floor == rest - a.salvage * Scale(a)
<1>1. /\ ProgressFactor[1] \in Nat /\ ProgressFactor[2] \in Nat /\ DepreciationBase(a) \in Nat
      /\ a.years \in Nat /\ Scale(a) \in Nat /\ a.salvage \in Nat
  BY AmountsOfAsset, DepreciationAssumption DEF ProperAsset
<1>2. linear \in Int /\ linear >= 0
  <2>1. DepreciationBase(a) \in Int /\ ProgressFactor[2] \in Int /\ DepreciationBase(a) >= 0
        /\ ProgressFactor[2] >= 0
    BY <1>1
  <2> QED BY <2>1, ProductTyped
<1>3. part \in Int /\ (r >= 0 => part >= 0)
  <2>1. ProgressFactor[1] \in Int /\ ProgressFactor[1] >= 0
    BY <1>1
  <2> QED BY <2>1, ProductTyped
<1>4. degressive \in Int /\ (r >= 0 => degressive >= 0)
  <2>1. a.years \in Int /\ a.years >= 0
    BY <1>1
  <2> HIDE DEF part
  <2> QED BY <1>3, <2>1, ProductTyped
<1>5. rest \in Int /\ (r >= 0 => rest >= 0)
  <2>1. Scale(a) \in Int /\ Scale(a) >= 0
    BY <1>1
  <2> QED BY <2>1, ProductTyped
<1>6. floor \in Int
  <2>1. a.salvage * Scale(a) \in Int
    BY <1>1, ProductTyped
  <2> HIDE DEF rest
  <2> QED BY <1>5, <2>1
<1>11. floor = (r - a.salvage) * Scale(a) /\ (r >= a.salvage => floor >= 0)
  <2>1. r - a.salvage \in Int /\ (r >= a.salvage => r - a.salvage >= 0) /\ Scale(a) \in Int
        /\ Scale(a) >= 0
    BY <1>1
  <2>2. r >= a.salvage => (r - a.salvage) * Scale(a) >= 0
    BY <2>1, ProductTyped
  <2>3. floor = (r - a.salvage) * Scale(a)
    BY <1>1
  <2> QED BY <2>2, <2>3
<1>7. YearAmount(a, r) =
        CASE a.method = "linear"       -> linear
          [] a.method = "linear-limit" -> Min({linear, floor})
          [] a.method = "degressive"   -> degressive
          [] a.method = "degr-linear"  -> Min({Max({linear, degressive}), rest})
          [] a.method = "degr-limit"   -> Min({degressive, floor})
  BY DEF YearAmount
<1> HIDE DEF linear, part, degressive, rest, floor
<1>8. /\ Min({linear, floor}) \in Int /\ Min({degressive, floor}) \in Int
      /\ Max({linear, degressive}) \in Int /\ (r >= 0 => Max({linear, degressive}) >= 0)
  BY <1>2, <1>4, <1>6, MaxOfTwo
<1>9. Min({Max({linear, degressive}), rest}) \in Int
      /\ (r >= 0 => Min({Max({linear, degressive}), rest}) >= 0)
  BY <1>5, <1>8, MaxOfTwo
<1>10. a.method \in {"linear", "linear-limit", "degressive", "degr-linear", "degr-limit"}
  BY DEF ProperAsset, Methods
<1>12. /\ floor >= 0 => Min({linear, floor}) >= 0 /\ Min({linear, floor}) <= floor
       /\ r >= 0 /\ floor >= 0 => Min({degressive, floor}) >= 0 /\ Min({degressive, floor}) <= floor
  BY <1>2, <1>4, <1>6, MaxOfTwo
<1>13. ASSUME UpToSalvage(a), r >= a.salvage
       PROVE  YearAmount(a, r) >= 0 /\ YearAmount(a, r) <= (r - a.salvage) * Scale(a)
  <2>1. a.method \in {"linear-limit", "degr-limit"} /\ r >= 0
    BY <1>1, <1>13 DEF UpToSalvage
  <2>2. YearAmount(a, r) >= 0 /\ YearAmount(a, r) <= floor
    BY <1>7, <1>11, <1>12, <1>13, <2>1
  <2> QED BY <1>11, <2>2
<1> QED BY <1>2, <1>4, <1>7, <1>8, <1>9, <1>10, <1>13

\* A year, or the part of it since the start, leaves the salvage value where it has to.
LEMMA YearAtMost ==
  ASSUME NEW a, ProperAsset(a), NEW y \in Nat, NEW r \in Int, UpToSalvage(a), r >= a.salvage
  PROVE  RoundedQuotient(YearAmount(a, r) * PeriodsOf(a, y), Scale(a) * PeriodsPerYear)
           <= r - a.salvage
<1> DEFINE p == PeriodsOf(a, y)
           P == PeriodsPerYear
           x == YearAmount(a, r)
           S == Scale(a)
           m == r - a.salvage
           k == m * S
<1>1. p \in Int /\ p >= 0 /\ p <= P /\ P \in Int
  BY DepreciationAssumption DEF ProperAsset, PeriodsOf
<1>2. S \in Int /\ S >= 0 /\ S * P \in Nat /\ S * P # 0 /\ m \in Int /\ m >= 0
  BY AmountsOfAsset DEF ProperAsset
<1>3. x \in Int /\ x <= k
  BY YearAmountTyped
<1> HIDE DEF p, P, x, S, m
<1>4. k \in Int /\ k >= 0
  BY <1>2, ProductTyped
<1>5. k * P = m * (S * P)
  BY <1>1, <1>2
<1> HIDE DEF k
<1>6. x * p <= k * p
  BY <1>1, <1>3, <1>4, ProductGrows
<1>7. k * p <= k * P
  <2>1. p * k <= P * k
    BY <1>1, <1>4, ProductGrows
  <2> QED BY <1>1, <1>4, <2>1
<1>8. x * p \in Int /\ k * p \in Int /\ k * P \in Int
  BY <1>1, <1>3, <1>4, ProductTyped
<1> DEFINE xp == x * p
           kp == k * p
           kP == k * P
           D == S * P
<1>9. xp \in Int /\ xp <= m * D /\ D \in Nat /\ D # 0
  <2>1. xp <= kp /\ kp <= kP /\ xp \in Int /\ kp \in Int /\ kP \in Int
    BY <1>6, <1>7, <1>8
  <2> HIDE DEF xp, kp, kP
  <2>2. xp <= kP
    BY <2>1
  <2>3. kP = m * D
    BY <1>5 DEF kP
  <2> HIDE DEF D
  <2> QED BY <1>2, <2>1, <2>2, <2>3 DEF D
<1> HIDE DEF xp, D
<1>10. RoundedQuotient(xp, D) <= m
  BY <1>2, <1>9, RoundedAtMost
<1> QED BY <1>10 DEF xp, D, p, P, x, S, m

\* What a fiscal year takes, and what the degressive method with a linear part leaves
LEMMA FyAmountTyped ==
  ASSUME NEW a, ProperAsset(a), NEW y \in Nat, NEW r \in Int
  PROVE  /\ FyAmount(a, y, r) \in Int
         /\ a.method = "degr-linear" /\ r >= 0 => FyAmount(a, y, r) >= 0 /\ FyAmount(a, y, r) <= r
         /\ UpToSalvage(a) /\ r >= a.salvage => FyAmount(a, y, r) <= r - a.salvage
         /\ y = FiscalYears(a) => r - FyAmount(a, y, r) = DepreciationBase(a) - Depreciable(a)
<1> DEFINE p == PeriodsOf(a, y)
           x == YearAmount(a, r) * p
           q == RoundedQuotient(x, Scale(a) * PeriodsPerYear)
<1>1. /\ DepreciationBase(a) \in Int /\ Depreciable(a) \in Int
      /\ a.method = "degr-linear" => Depreciable(a) = DepreciationBase(a)
      /\ Scale(a) * PeriodsPerYear \in Nat /\ Scale(a) * PeriodsPerYear # 0
  BY AmountsOfAsset
<1>2. p \in Int /\ p >= 0
  BY DepreciationAssumption DEF ProperAsset, PeriodsOf
<1>3. YearAmount(a, r) \in Int /\ (a.method = "degr-linear" /\ r >= 0 => YearAmount(a, r) >= 0)
  BY YearAmountTyped
<1> HIDE DEF p
<1>4. x \in Int /\ (a.method = "degr-linear" /\ r >= 0 => x >= 0)
  BY <1>2, <1>3, ProductTyped
<1> HIDE DEF x
<1>5. q \in Int /\ (x >= 0 => q >= 0)
  BY <1>1, <1>4, RoundedTyped
<1>6. FyAmount(a, y, r) =
        IF y = FiscalYears(a) THEN r - (DepreciationBase(a) - Depreciable(a)) ELSE Min({r, q})
  BY DEF FyAmount, q, x, p
<1> HIDE DEF q
<1>7. Min({r, q}) = IF r <= q THEN r ELSE q
  BY <1>5, MaxOfTwo
<1>8. ASSUME UpToSalvage(a), r >= a.salvage PROVE FyAmount(a, y, r) <= r - a.salvage
  <2>1. a.salvage \in Nat /\ DepreciationBase(a) - Depreciable(a) = a.salvage
    BY <1>1, <1>8 DEF ProperAsset, Depreciable
  <2>2. q <= r - a.salvage
    BY <1>8, YearAtMost DEF q, x, p
  <2>3. q # r \/ a.salvage = 0
    BY <1>5, <2>1, <2>2
  <2> QED BY <1>1, <1>5, <1>6, <1>7, <2>1, <2>2
<1>9. FyAmount(a, y, r) \in Int
  BY <1>1, <1>5, <1>6, <1>7
<1>10. ASSUME a.method = "degr-linear", r >= 0 PROVE FyAmount(a, y, r) >= 0 /\ FyAmount(a, y, r) <= r
  BY <1>1, <1>4, <1>5, <1>6, <1>7, <1>10
<1>11. y = FiscalYears(a) => r - FyAmount(a, y, r) = DepreciationBase(a) - Depreciable(a)
  BY <1>1, <1>6
<1> QED BY <1>8, <1>9, <1>10, <1>11

\* The asset's fiscal years
LEMMA YearsOfAsset ==
  ASSUME NEW a, ProperAsset(a)
  PROVE  /\ FirstPeriod(a) \in 1 .. PeriodsPerYear /\ FinalPeriod(a) \in Nat
         /\ FirstPeriod(a) <= FinalPeriod(a)
         /\ FiscalYears(a) \in Nat /\ FiscalYears(a) # 0
         /\ \A y \in 1 .. FiscalYears(a) :
              /\ y * PeriodsPerYear \in Nat
              /\ (y - 1) * PeriodsPerYear \in Nat
              /\ y * PeriodsPerYear = (y - 1) * PeriodsPerYear + PeriodsPerYear
              /\ (y - 1) * PeriodsPerYear + 1 <= FinalPeriod(a)
<1> DEFINE P == PeriodsPerYear
           Ys == a.years
           all == Ys * P
<1>1. P \in Nat /\ P # 0 /\ Ys \in Nat /\ Ys # 0 /\ a.start \in 0 .. P - 1 /\ a.prorata \in BOOLEAN
  BY DepreciationAssumption DEF ProperAsset
<1>2. FirstPeriod(a) \in 1 .. P
  BY <1>1 DEF FirstPeriod
<1> HIDE DEF P, Ys
<1>3. all \in Nat /\ all >= P
  <2>1. Ys - 1 \in Int /\ Ys - 1 >= 0 /\ P \in Int /\ P >= 0
    BY <1>1
  <2>2. (Ys - 1) * P \in Int /\ (Ys - 1) * P >= 0
    BY <2>1, ProductTyped
  <2>3. Ys * P = (Ys - 1) * P + P
    BY <1>1
  <2> QED BY <1>1, <2>2, <2>3
<1> HIDE DEF all
<1>4. FinalPeriod(a) = FirstPeriod(a) + all - 1
  BY DEF FinalPeriod, all, Ys, P
<1>5. FiscalYears(a) = IF FinalPeriod(a) > all THEN Ys + 1 ELSE Ys
  BY DEF FiscalYears, all, Ys, P
<1>6. FinalPeriod(a) \in Nat /\ FirstPeriod(a) <= FinalPeriod(a)
  BY <1>1, <1>2, <1>3, <1>4
<1>7. FiscalYears(a) \in Nat /\ FiscalYears(a) # 0
  BY <1>1, <1>5
<1>8. ASSUME NEW y \in 1 .. FiscalYears(a)
      PROVE  /\ y * P \in Nat /\ (y - 1) * P \in Nat /\ y * P = (y - 1) * P + P
             /\ (y - 1) * P + 1 <= FinalPeriod(a)
  <2>1. y \in Nat /\ y >= 1 /\ y <= Ys + 1 /\ (y = Ys + 1 => FinalPeriod(a) > all)
    BY <1>1, <1>5, <1>7, <1>8
  <2>2. y - 1 \in Int /\ y - 1 >= 0 /\ P \in Int /\ P >= 0
    BY <1>1, <2>1
  <2>3. (y - 1) * P \in Int /\ (y - 1) * P >= 0 /\ y * P = (y - 1) * P + P
    BY <1>1, <2>1, <2>2, ProductTyped
  <2>4. CASE y = Ys + 1
    <3>1. (y - 1) * P = all
      BY <1>1, <2>4 DEF all
    <3> QED BY <1>1, <1>6, <1>3, <2>1, <2>3, <2>4, <3>1
  <2>5. CASE y <= Ys
    <3>1. Ys - y \in Int /\ Ys - y >= 0
      BY <1>1, <2>1, <2>5
    <3>2. (Ys - y) * P \in Int /\ (Ys - y) * P >= 0
      BY <2>2, <3>1, ProductTyped
    <3>3. all = (Ys - y) * P + y * P
      BY <1>1, <2>1 DEF all
    <3>4. (y - 1) * P + P <= all
      BY <1>1, <1>3, <2>3, <3>2, <3>3
    <3> QED BY <1>1, <1>2, <1>3, <1>4, <2>3, <3>4
  <2> QED BY <1>1, <2>1, <2>4, <2>5
<1> QED BY <1>2, <1>6, <1>7, <1>8 DEF P

-----------------------------------------------------------------------------
\* What is left after each fiscal year
LEMMA Residuals ==
  ASSUME NEW a, ProperAsset(a)
  PROVE  /\ FyResidual(a) \in [0 .. FiscalYears(a) -> Int]
         /\ FyResidual(a)[0] = DepreciationBase(a)
         /\ FyResidual(a)[FiscalYears(a)] = DepreciationBase(a) - Depreciable(a)
         /\ \A y \in 1 .. FiscalYears(a) :
              /\ a.method = "degr-linear" =>
                   FyResidual(a)[y] >= 0 /\ FyResidual(a)[y] <= FyResidual(a)[y - 1]
              /\ UpToSalvage(a) => FyResidual(a)[y] >= a.salvage
<1> DEFINE Ys == FiscalYears(a)
           V == {r \in Int : (a.method = "degr-linear" => r >= 0) /\ (UpToSalvage(a) => r >= a.salvage)}
           step == [y \in 1 .. Ys |-> [r \in V |-> r - FyAmount(a, y, r)]]
           b == DepreciationBase(a)
           After(f, y) == IF y = 0 THEN b ELSE f[y - 1] - FyAmount(a, y, f[y - 1])
           Left(f) == f = [y \in 0 .. Ys |-> After(f, y)]
<1>1. Ys \in Nat /\ Ys # 0 /\ b \in V /\ V \subseteq Int
  <2>1. b \in Int /\ b >= 0 /\ (UpToSalvage(a) => b >= a.salvage)
    BY AmountsOfAsset DEF ProperAsset, DepreciationBase
  <2> HIDE DEF b
  <2> QED BY <2>1, YearsOfAsset
<1>2. ASSUME NEW y \in 1 .. Ys, NEW r \in V
      PROVE  /\ r - FyAmount(a, y, r) \in V
             /\ a.method = "degr-linear" => r - FyAmount(a, y, r) <= r
             /\ y = Ys => r - FyAmount(a, y, r) = b - Depreciable(a)
  <2>1. r \in Int /\ y \in Nat /\ (a.method = "degr-linear" => r >= 0) /\ (UpToSalvage(a) => r >= a.salvage)
    BY <1>1
  <2> DEFINE x == FyAmount(a, y, r)
  <2>2. /\ x \in Int
        /\ a.method = "degr-linear" /\ r >= 0 => x >= 0 /\ x <= r
        /\ UpToSalvage(a) /\ r >= a.salvage => x <= r - a.salvage
        /\ y = Ys => r - x = b - Depreciable(a)
    BY <2>1, FyAmountTyped
  <2>3. a.salvage \in Int
    BY DEF ProperAsset
  <2> HIDE DEF x, Ys, b
  <2>4. r - x \in Int /\ (a.method = "degr-linear" => r - x >= 0) /\ (UpToSalvage(a) => r - x >= a.salvage)
    BY <2>1, <2>2, <2>3
  <2> QED BY <2>1, <2>2, <2>4 DEF x
<1> HIDE DEF V, Ys, b
<1>3. \A y \in (0 + 1) .. Ys : \A r \in V : step[y][r] \in V /\ step[y][r] = r - FyAmount(a, y, r)
  BY <1>2
<1> HIDE DEF step
<1>4. PICK f \in [0 .. Ys -> V] : f[0] = b /\ \A y \in (0 + 1) .. Ys : f[y] = step[y][f[y - 1]]
  <2>1. 0 \in Int /\ Ys \in Int /\ 0 <= Ys /\ b \in V
    BY <1>1
  <2>2. Steps(step, 0, Ys, V)
    BY <1>3 DEF Steps
  <2>3. \E f \in [0 .. Ys -> V] : Stepwise(f, step, 0, Ys, b)
    BY <2>1, <2>2, Recursion
  <2> QED BY <2>3 DEF Stepwise
<1>5. Left(f)
  <2>1. ASSUME NEW y \in 0 .. Ys
        PROVE  f[y] = After(f, y)
    <3>1. CASE y = 0
      BY <1>4, <3>1
    <3>2. CASE y # 0
      <4>1. y \in (0 + 1) .. Ys /\ f[y - 1] \in V
        BY <1>1, <1>4, <3>2
      <4>2. step[y][f[y - 1]] = f[y - 1] - FyAmount(a, y, f[y - 1])
        BY <1>3, <4>1
      <4> QED BY <1>4, <3>2, <4>2
    <3> QED BY <3>1, <3>2
  <2>2. f = [y \in 0 .. Ys |-> f[y]]
    BY <1>4
  <2> HIDE DEF After
  <2>3. \A y \in 0 .. Ys : f[y] = After(f, y)
    BY <2>1
  <2>4. [y \in 0 .. Ys |-> f[y]] = [y \in 0 .. Ys |-> After(f, y)]
    BY <2>3
  <2> QED BY <2>2, <2>4
<1> DEFINE left == CHOOSE g : Left(g)
<1>6. FyResidual(a) = left
  BY DEF FyResidual, Ys, b
<1>7. Left(left)
  <2> HIDE DEF Left
  <2> QED BY <1>5
<1> HIDE DEF left
<1>8. left = [y \in 0 .. Ys |-> left[y]]
  BY <1>7
<1>9. \A y \in 0 .. Ys : left[y] = IF y = 0 THEN b ELSE left[y - 1] - FyAmount(a, y, left[y - 1])
  BY <1>7
<1>10. left[0] = b
  BY <1>1, <1>9
<1>11. \A y \in 0 .. Ys : left[y] \in V
  <2> DEFINE Bad == {y \in Nat : y <= Ys /\ left[y] \notin V}
  <2>1. ASSUME Bad # {} PROVE FALSE
    <3>1. Bad \in SUBSET Nat
      OBVIOUS
    <3> HIDE DEF Bad
    <3>2. PICK y \in Bad : \A z \in Bad : y <= z
      BY <2>1, <3>1, LeastNat
    <3> USE DEF Bad
    <3>3. y \in Nat /\ y <= Ys /\ left[y] \notin V
      BY <3>2
    <3>4. y # 0
      BY <1>1, <1>10, <3>3
    <3>5. y - 1 \in Nat /\ y - 1 <= Ys /\ ~(y <= y - 1) /\ y \in 1 .. Ys /\ y \in 0 .. Ys
      BY <1>1, <3>3, <3>4
    <3>6. left[y - 1] \in V
      BY <3>2, <3>5
    <3> HIDE DEF Bad
    <3>7. left[y] = left[y - 1] - FyAmount(a, y, left[y - 1])
      BY <1>9, <3>4, <3>5
    <3> QED BY <1>2, <3>3, <3>5, <3>6, <3>7
  <2>2. \A y \in 0 .. Ys : y \in Nat /\ y <= Ys
    BY <1>1
  <2> QED BY <2>1, <2>2
<1>12. ASSUME NEW y \in 1 .. Ys
       PROVE  /\ a.method = "degr-linear" => left[y] >= 0 /\ left[y] <= left[y - 1]
              /\ UpToSalvage(a) => left[y] >= a.salvage
              /\ y = Ys => left[y] = b - Depreciable(a)
  <2>1. y - 1 \in 0 .. Ys /\ y \in 0 .. Ys /\ y # 0
    BY <1>1
  <2>2. left[y] \in V /\ left[y - 1] \in V /\ left[y] = left[y - 1] - FyAmount(a, y, left[y - 1])
    BY <1>9, <1>11, <2>1
  <2>3. /\ a.method = "degr-linear" => left[y - 1] - FyAmount(a, y, left[y - 1]) <= left[y - 1]
        /\ y = Ys => left[y - 1] - FyAmount(a, y, left[y - 1]) = b - Depreciable(a)
    BY <1>2, <2>2
  <2> QED BY <2>2, <2>3 DEF V
<1>13. left \in [0 .. Ys -> Int]
  BY <1>1, <1>8, <1>11
<1>14. Ys \in 1 .. Ys
  BY <1>1
<1>15. left[Ys] = b - Depreciable(a)
  BY <1>12, <1>14
<1> QED BY <1>6, <1>10, <1>12, <1>13, <1>15 DEF Ys, b

-----------------------------------------------------------------------------
TableLine == [date : Int, year : Int, amount : Int, remaining : Int]

\* What is left before line k of a table that starts with from
LeftBefore(s, from, k) == IF k = 1 THEN from ELSE s[k - 1].remaining

\* Every line leaves what the one before it leaves, less its own amount, and the
\* last one leaves to.
Runs(s, from, to) ==
  /\ \A k \in 1 .. Len(s) : s[k].remaining = LeftBefore(s, from, k) - s[k].amount
  /\ LeftBefore(s, from, Len(s) + 1) = to

LEMMA RunsJoin ==
  ASSUME NEW s \in Seq(TableLine), NEW t \in Seq(TableLine), NEW from, NEW mid, NEW to,
         Runs(s, from, mid), Runs(t, mid, to)
  PROVE  Runs(s \o t, from, to)
<1> DEFINE all == s \o t
           L == Len(s)
           M == Len(t)
<1>1. /\ L \in Nat /\ M \in Nat /\ Len(all) = L + M
      /\ \A k \in 1 .. L + M : all[k] = IF k <= L THEN s[k] ELSE t[k - L]
  <2>1. L \in Nat /\ M \in Nat
    OBVIOUS
  <2> QED BY <2>1, ConcatProperties
<1>2. /\ \A k \in 1 .. L : s[k].remaining = LeftBefore(s, from, k) - s[k].amount
      /\ LeftBefore(s, from, L + 1) = mid
      /\ \A k \in 1 .. M : t[k].remaining = LeftBefore(t, mid, k) - t[k].amount
      /\ LeftBefore(t, mid, M + 1) = to
  BY DEF Runs
<1> HIDE DEF all, L, M
<1>3. \A k \in 1 .. L + 1 : LeftBefore(all, from, k) = LeftBefore(s, from, k)
  <2> TAKE k \in 1 .. L + 1
  <2>1. CASE k = 1
    BY <2>1 DEF LeftBefore
  <2>2. CASE k # 1
    <3>1. k - 1 \in 1 .. L + M /\ k - 1 <= L
      BY <1>1, <2>2
    <3> QED BY <1>1, <2>2, <3>1 DEF LeftBefore
  <2> QED BY <2>1, <2>2
<1>4. \A k \in 1 .. M + 1 : LeftBefore(all, from, L + k) = LeftBefore(t, mid, k)
  <2> TAKE k \in 1 .. M + 1
  <2>1. CASE k = 1
    <3>1. L + 1 \in 1 .. L + 1
      BY <1>1
    <3> QED BY <1>2, <1>3, <2>1, <3>1 DEF LeftBefore
  <2>2. CASE k # 1
    <3>1. L + k - 1 \in 1 .. L + M /\ ~(L + k - 1 <= L) /\ L + k - 1 - L = k - 1 /\ L + k # 1
      BY <1>1, <2>2
    <3> QED BY <1>1, <2>2, <3>1 DEF LeftBefore
  <2> QED BY <2>1, <2>2
<1>5. ASSUME NEW k \in 1 .. Len(all) PROVE all[k].remaining = LeftBefore(all, from, k) - all[k].amount
  <2>1. k \in 1 .. L + M /\ k \in Int
    BY <1>1
  <2>2. CASE k <= L
    <3>1. k \in 1 .. L /\ k \in 1 .. L + 1
      BY <1>1, <2>1, <2>2
    <3> QED BY <1>1, <1>2, <1>3, <2>1, <2>2, <3>1
  <2>3. CASE ~(k <= L)
    <3> DEFINE n == k - L
    <3>1. n \in 1 .. M /\ n \in 1 .. M + 1 /\ L + n = k
      BY <1>1, <2>1, <2>3
    <3>2. all[k] = t[n]
      BY <1>1, <2>1, <2>3
    <3> HIDE DEF n
    <3>3. LeftBefore(all, from, k) = LeftBefore(t, mid, n)
      BY <1>4, <3>1
    <3> QED BY <1>2, <3>1, <3>2, <3>3
  <2> QED BY <2>2, <2>3
<1>6. LeftBefore(all, from, Len(all) + 1) = to
  <2>1. M + 1 \in 1 .. M + 1 /\ Len(all) + 1 = L + (M + 1)
    BY <1>1
  <2> QED BY <1>2, <1>4, <2>1
<1> QED BY <1>5, <1>6 DEF Runs, all

LEMMA TakenTyped ==
  ASSUME NEW a, ProperAsset(a), NEW y \in Nat, NEW n \in Nat, NEW count \in Int,
         NEW year \in Int, NEW amount \in Int
  PROVE  /\ PeriodAmounts(a, y, n, year, amount) \in Int
         /\ Taken(a, y, n, count, year, amount) \in Int
<1>1. PeriodsOf(a, y) \in Int
  BY DepreciationAssumption DEF ProperAsset, PeriodsOf
<1>2. n * amount \in Int /\ amount * PeriodsOf(a, y) \in Int
  BY <1>1, ProductTyped
<1> DEFINE x == n * amount
           z == amount * PeriodsOf(a, y)
<1>3. PeriodAmounts(a, y, n, year, amount) =
        IF n = 0 THEN 0 ELSE x + (IF a.prorata /\ y = 1 THEN year - z ELSE 0)
  BY DEF PeriodAmounts
<1>4. x \in Int /\ z \in Int
  BY <1>2
<1> HIDE DEF x, z
<1>5. PeriodAmounts(a, y, n, year, amount) \in Int
  BY <1>3, <1>4
<1> QED BY <1>5 DEF Taken

\* A year in which something is left has at least one line, and no more than its
\* periods.
LEMMA SomeLines ==
  ASSUME NEW a, ProperAsset(a), NEW y \in 1 .. FiscalYears(a),
         NEW p \in Int, p <= y * PeriodsPerYear, p <= FinalPeriod(a),
         NEW residual \in Int, residual # 0,
         NEW year \in Int, a.method = "degr-linear" => year >= 0, NEW amount
  PROVE  /\ LineCount(a, y, p, residual, year, amount) \in Nat
         /\ LineCount(a, y, p, residual, year, amount) >= 1
         /\ LineCount(a, y, p, residual, year, amount) <= y * PeriodsPerYear - p + 1
<1> DEFINE top == y * PeriodsPerYear
           most == Min({top, FinalPeriod(a)}) - p + 1
           enough(n) == LET taken == PeriodAmounts(a, y, n, year, amount)
                        IN  residual = taken \/ (a.method = "degr-linear" /\ year < taken)
           S == {n \in 0 .. most : enough(n)}
           T == {most} \cup S
<1>1. top \in Int /\ FinalPeriod(a) \in Int /\ p <= top
  BY YearsOfAsset
<1>2. LineCount(a, y, p, residual, year, amount) = Min(T)
  BY DEF LineCount
<1>3. ~ enough(0)
  <2>1. PeriodAmounts(a, y, 0, year, amount) = 0
    BY DEF PeriodAmounts
  <2> QED BY <2>1
<1> HIDE DEF enough, top
<1>4. most \in Nat /\ most >= 1 /\ most <= top - p + 1
  <2>1. Min({top, FinalPeriod(a)}) = IF top <= FinalPeriod(a) THEN top ELSE FinalPeriod(a)
    BY <1>1, MaxOfTwo
  <2> QED BY <1>1, <2>1
<1> HIDE DEF most
<1>5. T \subseteq 0 .. most /\ T # {} /\ 0 \notin T
  BY <1>3, <1>4
<1>6. IsFiniteSet(T) /\ T \subseteq Int
  <2>1. 0 \in Int /\ most \in Int
    BY <1>4
  <2>2. IsFiniteSet(0 .. most)
    BY <2>1, FS_Interval
  <2> HIDE DEF T
  <2>3. T \subseteq Int
    BY <1>5, <2>1
  <2>4. T \in SUBSET (0 .. most)
    BY <1>5
  <2>5. IsFiniteSet(T)
    BY <2>2, <2>4, FS_Subset
  <2> QED BY <2>3, <2>5
<1> HIDE DEF T
<1>7. Min(T) \in T
  BY <1>5, <1>6, FiniteMax
<1>8. \A t \in T : t \in Nat /\ t >= 1 /\ t <= most
  <2> TAKE t \in T
  <2>1. t \in 0 .. most /\ t # 0
    BY <1>5
  <2> QED BY <1>4, <2>1
<1>9. Min(T) \in Nat /\ Min(T) >= 1 /\ Min(T) <= most
  BY <1>7, <1>8
<1> QED BY <1>1, <1>2, <1>4, <1>9 DEF top

\* Lines of year y for the periods from p on
InYear(ls, y, p, count) ==
  /\ ls \in Seq(TableLine)
  /\ count >= 0 => Len(ls) = count
  /\ \A n \in 1 .. count : ls[n].date = Day(p + n - 1) /\ ls[n].year = y

LEMMA LinesTypedOf ==
  ASSUME NEW a, ProperAsset(a), NEW y \in Nat, NEW p \in Int, NEW count \in Int,
         NEW residual \in Int, NEW year \in Int, NEW amount \in Int
  PROVE  InYear(LinesOf(a, y, p, count, residual, year, amount), y, p, count)
<1> DEFINE ls == LinesOf(a, y, p, count, residual, year, amount)
           T(n) == Taken(a, y, n, count, year, amount)
<1>1. \A n \in Nat : T(n) \in Int
  BY TakenTyped
<1>2. ls = [n \in 1 .. count |-> [date |-> Day(p + n - 1), year |-> y, amount |-> T(n) - T(n - 1),
                                  remaining |-> residual - T(n)]]
  BY DEF LinesOf
<1> HIDE DEF T, ls
<1>3. ASSUME NEW n \in 1 .. count
      PROVE  ls[n] \in TableLine /\ ls[n].date = Day(p + n - 1) /\ ls[n].year = y
  <2>1. T(n) \in Int /\ T(n - 1) \in Int /\ Day(p + n - 1) \in Int
    <3>1. n \in Nat /\ n - 1 \in Nat
      OBVIOUS
    <3> QED BY <1>1, <3>1 DEF Day
  <2> DEFINE d == Day(p + n - 1)
             t == T(n) - T(n - 1)
             r == residual - T(n)
  <2>2. d \in Int /\ t \in Int /\ r \in Int /\ y \in Int
    BY <2>1
  <2>3. ls[n] = [date |-> d, year |-> y, amount |-> t, remaining |-> r]
    BY <1>2
  <2> HIDE DEF d, t, r
  <2>4. ls[n] \in TableLine /\ ls[n].date = d /\ ls[n].year = y
    BY <2>2, <2>3 DEF TableLine
  <2> QED BY <2>4 DEF d
<1>4. ls = [n \in 1 .. count |-> ls[n]]
  BY <1>2
<1>5. CASE count >= 0
  <2>1. ls \in [1 .. count -> TableLine]
    BY <1>3, <1>4
  <2>2. ls \in Seq(TableLine) /\ Len(ls) = count
    BY <1>5, <2>1
  <2> QED BY <1>3, <2>2 DEF ls, InYear
<1>6. CASE ~(count >= 0)
  <2>1. 1 .. count = 1 .. 0
    BY <1>6
  <2>2. ls \in [1 .. 0 -> TableLine]
    BY <1>3, <1>4, <2>1
  <2>3. ls \in Seq(TableLine)
    BY <2>2
  <2> QED BY <1>3, <1>6, <2>3 DEF ls, InYear
<1> QED BY <1>5, <1>6

\* The lines of a year take it from what is left before it.
LEMMA LinesRun ==
  ASSUME NEW a, ProperAsset(a), NEW y \in Nat, NEW p \in Int, NEW count \in Nat, count >= 1,
         NEW residual \in Int, NEW year \in Int, NEW amount \in Int
  PROVE  Runs(LinesOf(a, y, p, count, residual, year, amount), residual, residual - year)
<1> DEFINE ls == LinesOf(a, y, p, count, residual, year, amount)
           T(n) == Taken(a, y, n, count, year, amount)
<1>1. \A n \in Nat : T(n) \in Int
  BY TakenTyped
<1>2. T(0) = 0 /\ T(count) = year
  BY DEF Taken, PeriodAmounts
<1>3. ls = [n \in 1 .. count |-> [date |-> Day(p + n - 1), year |-> y, amount |-> T(n) - T(n - 1),
                                  remaining |-> residual - T(n)]]
  BY DEF LinesOf
<1> HIDE DEF T, ls
<1>4. Len(ls) = count /\ \A n \in 1 .. count : /\ ls[n].amount = T(n) - T(n - 1)
                                              /\ ls[n].remaining = residual - T(n)
  BY <1>3
<1>5. \A n \in 1 .. count + 1 : LeftBefore(ls, residual, n) = residual - T(n - 1)
  <2> TAKE n \in 1 .. count + 1
  <2>1. CASE n = 1
    BY <1>2, <2>1 DEF LeftBefore
  <2>2. CASE n # 1
    <3>1. n - 1 \in 1 .. count
      BY <2>2
    <3> QED BY <1>4, <2>2, <3>1 DEF LeftBefore
  <2> QED BY <2>1, <2>2
<1>6. ASSUME NEW n \in 1 .. count
      PROVE  ls[n].remaining = LeftBefore(ls, residual, n) - ls[n].amount
  <2>1. n \in Nat /\ n - 1 \in Nat /\ n \in 1 .. count + 1
    OBVIOUS
  <2>2. T(n) \in Int /\ T(n - 1) \in Int
    BY <1>1, <2>1
  <2>3. LeftBefore(ls, residual, n) = residual - T(n - 1)
    BY <1>5, <2>1
  <2>4. ls[n].amount = T(n) - T(n - 1) /\ ls[n].remaining = residual - T(n)
    BY <1>4
  <2> QED BY <2>2, <2>3, <2>4
<1>7. count + 1 \in 1 .. count + 1 /\ count + 1 - 1 = count
  OBVIOUS
<1> QED BY <1>2, <1>4, <1>5, <1>6, <1>7 DEF Runs, ls

\* The lines of a year are lines of a table, whatever came before.
LEMMA YearLinesTyped ==
  ASSUME NEW a, ProperAsset(a), NEW y \in 1 .. FiscalYears(a), NEW p \in Int,
         NEW residual \in Int, NEW year \in Int, NEW amount \in Int
  PROVE  /\ LineCount(a, y, p, residual, year, amount) \in Int
         /\ YearLines(a, y, p, residual, year, amount) \in Seq(TableLine)
<1> DEFINE top == y * PeriodsPerYear
           most == Min({top, FinalPeriod(a)}) - p + 1
           enough(n) == LET taken == PeriodAmounts(a, y, n, year, amount)
                        IN  residual = taken \/ (a.method = "degr-linear" /\ year < taken)
           S == {n \in 0 .. most : enough(n)}
           T == {most} \cup S
           count == LineCount(a, y, p, residual, year, amount)
<1>1. top \in Int /\ FinalPeriod(a) \in Int /\ y \in Nat
  BY YearsOfAsset
<1>2. count = Min(T)
  BY DEF LineCount
<1> HIDE DEF enough, top
<1>3. most \in Int
  <2>1. Min({top, FinalPeriod(a)}) = IF top <= FinalPeriod(a) THEN top ELSE FinalPeriod(a)
    BY <1>1, MaxOfTwo
  <2> QED BY <1>1, <2>1
<1> HIDE DEF most
<1>4. IsFiniteSet(S) /\ S \subseteq Int
  <2>1. S \in SUBSET (0 .. most) /\ 0 \in Int
    OBVIOUS
  <2>2. IsFiniteSet(0 .. most)
    BY <1>3, <2>1, FS_Interval
  <2> HIDE DEF S
  <2>3. IsFiniteSet(S)
    BY <2>1, <2>2, FS_Subset
  <2> QED BY <1>3, <2>1, <2>3
<1> HIDE DEF S
<1>5. IsFiniteSet(T) /\ T \subseteq Int /\ T # {}
  <2>1. IsFiniteSet(S \cup {most}) /\ T = S \cup {most}
    BY <1>4, FS_AddElement
  <2> QED BY <1>3, <1>4, <2>1
<1> HIDE DEF T
<1>6. Min(T) \in T
  BY <1>5, FiniteMax
<1>7. count \in Int
  BY <1>2, <1>5, <1>6
<1> HIDE DEF count
<1>8. LinesOf(a, y, p, count, residual, year, amount) \in Seq(TableLine)
  BY <1>1, <1>7, LinesTypedOf DEF InYear
<1> QED BY <1>7, <1>8 DEF YearLines, count

\* The year that ends the table
LEMMA LastYearOf ==
  ASSUME NEW Ys \in Nat, Ys # 0, NEW residual \in [0 .. Ys -> Int]
  PROVE  /\ LastYear(residual) \in 1 .. Ys
         /\ \A y \in 1 .. LastYear(residual) - 1 : residual[y] # 0
         /\ LastYear(residual) = Ys \/ residual[LastYear(residual)] = 0
<1> DEFINE S == {y \in (0 .. Ys) \ {0} : residual[y] = 0}
           T == {Ys} \cup S
<1>1. DOMAIN residual = 0 .. Ys /\ IsFiniteSet(0 .. Ys) /\ (0 .. Ys) \subseteq Int /\ (0 .. Ys) # {}
  <2>1. 0 \in Int /\ Ys \in Int
    OBVIOUS
  <2>2. IsFiniteSet(0 .. Ys)
    BY <2>1, FS_Interval
  <2>3. Ys \in 0 .. Ys
    OBVIOUS
  <2> QED BY <2>2, <2>3
<1>2. Max(0 .. Ys) = Ys
  <2> DEFINE m == Max(0 .. Ys)
  <2>1. m \in 0 .. Ys /\ \A x \in 0 .. Ys : x <= m
    BY <1>1, FiniteMax
  <2> HIDE DEF m
  <2>2. Ys \in 0 .. Ys
    OBVIOUS
  <2>3. m = Ys
    BY <2>1, <2>2
  <2> QED BY <2>3 DEF m
<1>3. LastYear(residual) = Min(T)
  BY <1>1, <1>2 DEF LastYear
<1>4. T \in SUBSET (0 .. Ys) /\ T # {} /\ 0 \notin T
  OBVIOUS
<1>5. /\ \A y \in (0 .. Ys) \ {0} : residual[y] = 0 => y \in T
      /\ \A y \in T : y = Ys \/ residual[y] = 0
  OBVIOUS
<1> HIDE DEF T
<1>6. IsFiniteSet(T) /\ T \subseteq Int
  <2>1. IsFiniteSet(T)
    BY <1>1, <1>4, FS_Subset
  <2> QED BY <1>1, <1>4, <2>1
<1>7. Min(T) \in T /\ \A x \in T : Min(T) <= x
  BY <1>4, <1>6, FiniteMax
<1> DEFINE m == Min(T)
<1>8. m \in T /\ \A x \in T : m <= x
  BY <1>7
<1> HIDE DEF m
<1>9. m \in 1 .. Ys
  BY <1>4, <1>8
<1>10. ASSUME NEW y \in 1 .. m - 1 PROVE residual[y] # 0
  <2>1. y \in (0 .. Ys) \ {0} /\ ~(m <= y)
    BY <1>9
  <2> QED BY <1>5, <1>8, <2>1
<1> QED BY <1>3, <1>5, <1>8, <1>9, <1>10 DEF m

\* What the last year of the table leaves is the end value.
LEMMA LastResidual ==
  ASSUME NEW a, ProperAsset(a)
  PROVE  FyResidual(a)[LastYear(FyResidual(a))] = DepreciationBase(a) - Depreciable(a)
<1> DEFINE Ys == FiscalYears(a)
           res == FyResidual(a)
           Y == LastYear(res)
           over == DepreciationBase(a) - Depreciable(a)
<1>1. /\ res \in [0 .. Ys -> Int] /\ res[Ys] = over
      /\ \A y \in 1 .. Ys : UpToSalvage(a) => res[y] >= a.salvage
  BY Residuals
<1>2. Ys \in Nat /\ Ys # 0
  BY YearsOfAsset
<1>3. a.salvage \in Nat /\ over = IF UpToSalvage(a) THEN a.salvage ELSE 0
  BY AmountsOfAsset DEF ProperAsset, Depreciable
<1> HIDE DEF res, Ys, over
<1>4. Y \in 1 .. Ys /\ (Y = Ys \/ res[Y] = 0)
  BY <1>1, <1>2, LastYearOf
<1> HIDE DEF Y
<1>5. UpToSalvage(a) => res[Y] >= a.salvage
  BY <1>1, <1>4
<1> QED BY <1>1, <1>3, <1>4, <1>5 DEF res, Y, over

-----------------------------------------------------------------------------
YearEnd(y) == y * PeriodsPerYear

\* What the lines of the first years are like
FirstLines(a, s, y) ==
  /\ s \in Seq(TableLine)
  /\ IF y = 0 THEN Len(s) = 0 ELSE FirstPeriod(a) + Len(s) - 1 <= YearEnd(y)
  /\ \A k \in 1 .. Len(s) :
       /\ s[k].date = Day(FirstPeriod(a) + k - 1)
       /\ s[k].year \in 1 .. y
       /\ FirstPeriod(a) + k - 1 <= YearEnd(s[k].year)
  /\ \A z \in 1 .. y : \E k \in 1 .. Len(s) : s[k].year = z
  /\ \E c \in 0 .. Len(s) : \A k \in 1 .. Len(s) : s[k].year = 1 <=> k <= c

\* The lines of one more year
NextLines(a, residual, s, y) ==
  YearLines(a, y, FirstPeriod(a) + Len(s), residual[y - 1], residual[y - 1] - residual[y],
            PeriodAmount(a, residual[y - 1]))

LEMMA PeriodAmountTyped ==
  ASSUME NEW a, ProperAsset(a), NEW r \in Int
  PROVE  PeriodAmount(a, r) \in Int
<1>1. Scale(a) * PeriodsPerYear \in Nat /\ Scale(a) * PeriodsPerYear # 0
  BY AmountsOfAsset
<1>2. YearAmount(a, r) \in Int
  BY YearAmountTyped
<1> QED BY <1>1, <1>2, RoundedTyped DEF PeriodAmount

LEMMA YearAdded ==
  ASSUME NEW a, ProperAsset(a), NEW residual \in [0 .. FiscalYears(a) -> Int],
         NEW y \in 1 .. FiscalYears(a), residual[y - 1] # 0,
         a.method = "degr-linear" => residual[y] <= residual[y - 1],
         NEW s, FirstLines(a, s, y - 1), NEW from, Runs(s, from, residual[y - 1])
  PROVE  /\ FirstLines(a, s \o NextLines(a, residual, s, y), y)
         /\ Runs(s \o NextLines(a, residual, s, y), from, residual[y])
<1> DEFINE F == FirstPeriod(a)
           Ys == FiscalYears(a)
           p == F + Len(s)
           r == residual[y - 1]
           year == residual[y - 1] - residual[y]
           amount == PeriodAmount(a, r)
           count == LineCount(a, y, p, r, year, amount)
           new == LinesOf(a, y, p, count, r, year, amount)
           all == s \o new
<1>1. /\ s \in Seq(TableLine) /\ Len(s) \in Nat
      /\ IF y - 1 = 0 THEN Len(s) = 0 ELSE F + Len(s) - 1 <= YearEnd(y - 1)
      /\ \A k \in 1 .. Len(s) :
           s[k].date = Day(F + k - 1) /\ s[k].year \in 1 .. (y - 1) /\ F + k - 1 <= YearEnd(s[k].year)
      /\ \A z \in 1 .. (y - 1) : \E k \in 1 .. Len(s) : s[k].year = z
      /\ \E c \in 0 .. Len(s) : \A k \in 1 .. Len(s) : s[k].year = 1 <=> k <= c
  BY DEF FirstLines
<1>2. /\ F \in 1 .. PeriodsPerYear /\ FinalPeriod(a) \in Nat /\ F <= FinalPeriod(a)
      /\ PeriodsPerYear \in Nat /\ Ys \in Nat /\ y \in 1 .. Ys
      /\ YearEnd(y) \in Nat /\ YearEnd(y - 1) \in Nat
      /\ YearEnd(y) = YearEnd(y - 1) + PeriodsPerYear
      /\ YearEnd(y - 1) + 1 <= FinalPeriod(a)
  BY YearsOfAsset, DepreciationAssumption DEF YearEnd
<1>3. y \in Nat /\ y - 1 \in Nat /\ y - 1 \in 0 .. Ys /\ y \in 0 .. Ys /\ y >= 1
  BY <1>2
<1> HIDE DEF F, Ys
<1>4. p \in Int /\ p <= YearEnd(y) /\ p <= FinalPeriod(a)
  <2>1. CASE y - 1 = 0
    BY <1>1, <1>2, <2>1
  <2>2. CASE y - 1 # 0
    BY <1>1, <1>2, <2>2
  <2> QED BY <2>1, <2>2
<1>5. r \in Int /\ residual[y] \in Int /\ year \in Int /\ r # 0
      /\ (a.method = "degr-linear" => year >= 0)
  BY <1>3 DEF Ys
<1> HIDE DEF p, r, year
<1>6. amount \in Int
  BY <1>5, PeriodAmountTyped
<1> HIDE DEF amount
<1>7. count \in Nat /\ count >= 1 /\ count <= YearEnd(y) - p + 1
  BY <1>2, <1>4, <1>5, SomeLines DEF YearEnd, Ys
<1> HIDE DEF count
<1>8. new \in Seq(TableLine) /\ Len(new) = count
      /\ \A n \in 1 .. count : new[n].date = Day(p + n - 1) /\ new[n].year = y
  <2>1. count \in Int /\ count >= 0 /\ y \in Nat /\ p \in Int /\ r \in Int /\ year \in Int
        /\ amount \in Int
    BY <1>3, <1>4, <1>5, <1>6, <1>7
  <2>2. InYear(new, y, p, count)
    <3> HIDE DEF p, r, year
    <3> QED BY <2>1, LinesTypedOf
  <2> HIDE DEF new
  <2> QED BY <2>1, <2>2 DEF InYear
<1>8a. Runs(all, from, residual[y])
  <2>1. /\ count \in Nat /\ count >= 1 /\ y \in Nat /\ p \in Int /\ r \in Int /\ year \in Int
        /\ amount \in Int
    BY <1>3, <1>4, <1>5, <1>6, <1>7
  <2>2. Runs(new, r, r - year)
    <3> HIDE DEF p, r, year
    <3> QED BY <2>1, LinesRun
  <2>3. r - year = residual[y] /\ r = residual[y - 1]
    <3>1. residual[y - 1] \in Int /\ residual[y] \in Int
      BY <1>5 DEF r
    <3> QED BY <3>1 DEF r, year
  <2> HIDE DEF new
  <2> QED BY <1>1, <1>8, <2>2, <2>3, RunsJoin
<1> DEFINE L == Len(s)
<1> HIDE DEF new, L
<1>9. L \in Nat /\ p = F + L
  BY <1>1 DEF p, L
<1>10. all \in Seq(TableLine) /\ Len(all) = L + count
       /\ \A k \in 1 .. (L + count) : all[k] = IF k <= L THEN s[k] ELSE new[k - L]
  <2>1. all \in Seq(TableLine)
    BY <1>1, <1>8
  <2>2. Len(all) = L + count
    <3>1. s \in Seq(TableLine) /\ new \in Seq(TableLine)
      BY <1>1, <1>8
    <3>2. Len(s \o new) = Len(s) + Len(new)
      BY <3>1, ConcatProperties
    <3> QED BY <1>8, <3>2 DEF L
  <2>3. ASSUME NEW k \in 1 .. (L + count) PROVE all[k] = IF k <= L THEN s[k] ELSE new[k - L]
    <3>1. k \in 1 .. (Len(s) + Len(new))
      BY <1>1, <1>7, <1>8 DEF L
    <3> QED BY <1>1, <1>8, <3>1, ConcatProperties DEF L
  <2> QED BY <2>1, <2>2, <2>3
<1> HIDE DEF all
<1>11. F + Len(all) - 1 <= YearEnd(y)
  <2>1. Len(all) = L + count
    BY <1>10
  <2> QED BY <1>2, <1>4, <1>7, <1>9, <2>1
<1>12. ASSUME NEW k \in 1 .. Len(all)
       PROVE  /\ all[k].date = Day(F + k - 1) /\ all[k].year \in 1 .. y
              /\ F + k - 1 <= YearEnd(all[k].year)
              /\ k <= L => all[k] = s[k]
              /\ k > L => all[k].year = y
  <2>1. CASE k <= L
    <3>1. k \in 1 .. L /\ all[k] = s[k]
      BY <1>9, <1>10, <2>1
    <3>2. s[k].date = Day(F + k - 1) /\ s[k].year \in 1 .. (y - 1) /\ F + k - 1 <= YearEnd(s[k].year)
      BY <1>1, <3>1 DEF L
    <3> QED BY <1>3, <1>9, <2>1, <3>1, <3>2
  <2>2. CASE k > L
    <3> DEFINE n == k - L
    <3>1. n \in 1 .. count /\ all[k] = new[n]
      BY <1>7, <1>9, <1>10, <2>2
    <3>2. p + n - 1 = F + k - 1
      BY <1>2, <1>9
    <3>3. new[n].date = Day(p + n - 1) /\ new[n].year = y
      BY <1>8, <3>1
    <3> HIDE DEF n
    <3>4. F + k - 1 <= YearEnd(y)
      BY <1>2, <1>4, <1>7, <3>1, <3>2
    <3> QED BY <1>3, <1>9, <2>2, <3>1, <3>2, <3>3, <3>4
  <2> QED BY <1>9, <1>10, <2>1, <2>2
<1>13. ASSUME NEW z \in 1 .. y PROVE \E k \in 1 .. Len(all) : all[k].year = z
  <2>1. CASE z = y
    <3>1. L + 1 \in 1 .. Len(all) /\ L + 1 > L
      BY <1>7, <1>9, <1>10
    <3> QED BY <1>12, <2>1, <3>1
  <2>2. CASE z # y
    <3>1. z \in 1 .. (y - 1)
      BY <1>3, <2>2
    <3>2. PICK k \in 1 .. L : s[k].year = z
      BY <1>1, <3>1 DEF L
    <3>3. k \in 1 .. Len(all) /\ k <= L
      BY <1>7, <1>9, <1>10
    <3> QED BY <1>12, <3>2, <3>3
  <2> QED BY <2>1, <2>2
<1>14. \E c \in 0 .. Len(all) : \A k \in 1 .. Len(all) : all[k].year = 1 <=> k <= c
  <2>1. CASE y = 1
    <3>1. \A k \in 1 .. Len(all) : all[k].year = 1 /\ k <= Len(all)
      BY <1>12, <2>1
    <3>2. Len(all) \in 0 .. Len(all)
      BY <1>7, <1>9, <1>10
    <3> QED BY <3>1, <3>2
  <2>2. CASE y # 1
    <3>1. PICK c \in 0 .. L : \A k \in 1 .. L : s[k].year = 1 <=> k <= c
      BY <1>1 DEF L
    <3>2. c \in 0 .. Len(all)
      BY <1>7, <1>9, <1>10
    <3>3. ASSUME NEW k \in 1 .. Len(all) PROVE all[k].year = 1 <=> k <= c
      <4>1. CASE k <= L
        <5>1. k \in 1 .. L /\ all[k] = s[k]
          BY <1>9, <1>12, <4>1
        <5> QED BY <3>1, <5>1
      <4>2. CASE k > L
        <5>1. all[k].year = y /\ ~(k <= c)
          BY <1>9, <1>12, <3>1, <4>2
        <5> QED BY <2>2, <5>1
      <4> QED BY <1>9, <1>10, <4>1, <4>2
    <3> QED BY <3>2, <3>3
  <2> QED BY <2>1, <2>2
<1>15. FirstLines(a, all, y)
  <2>1. y # 0
    BY <1>3
  <2>2. \A k \in 1 .. Len(all) :
          all[k].date = Day(F + k - 1) /\ all[k].year \in 1 .. y /\ F + k - 1 <= YearEnd(all[k].year)
    BY <1>12
  <2>3. \A z \in 1 .. y : \E k \in 1 .. Len(all) : all[k].year = z
    BY <1>13
  <2> QED BY <1>10, <1>11, <1>14, <2>1, <2>2, <2>3 DEF FirstLines, F
<1>16. all = s \o NextLines(a, residual, s, y)
  BY DEF all, new, count, amount, year, r, p, F, NextLines, YearLines
<1> QED BY <1>15, <1>16, <1>8a

-----------------------------------------------------------------------------
\* The lines of the table, before those of the first year are grouped
LEMMA AllLines ==
  ASSUME NEW a, ProperAsset(a)
  PROVE  /\ LastYear(FyResidual(a)) \in Nat /\ LastYear(FyResidual(a)) >= 1
         /\ FirstLines(a, TableLines(a, FyResidual(a)), LastYear(FyResidual(a)))
         /\ Runs(TableLines(a, FyResidual(a)), DepreciationBase(a), DepreciationBase(a) - Depreciable(a))
<1> DEFINE Ys == FiscalYears(a)
           res == FyResidual(a)
           Y == LastYear(res)
           V == Seq(TableLine)
           step == [y \in 1 .. Y |-> [s \in V |-> s \o NextLines(a, res, s, y)]]
           After(f, y) == IF y = 0 THEN << >> ELSE f[y - 1] \o NextLines(a, res, f[y - 1], y)
           UpTo(f) == f = [y \in 0 .. Y |-> After(f, y)]
<1>1. /\ res \in [0 .. Ys -> Int] /\ res[0] = DepreciationBase(a)
      /\ a.method = "degr-linear" => \A y \in 1 .. Ys : res[y] >= 0 /\ res[y] <= res[y - 1]
  BY Residuals
<1>2. Ys \in Nat /\ Ys # 0 /\ DepreciationBase(a) # 0
  BY YearsOfAsset, AmountsOfAsset
<1>3. Y \in 1 .. Ys /\ \A y \in 1 .. Y - 1 : res[y] # 0
  <2> HIDE DEF res, Ys
  <2> QED BY <1>1, <1>2, LastYearOf
<1> HIDE DEF Y
<1>4. Y \in Nat /\ Y >= 1 /\ Y <= Ys
  BY <1>2, <1>3
<1>5. ASSUME NEW y \in 1 .. Y
      PROVE  /\ y \in 1 .. Ys /\ y - 1 \in 0 .. Ys /\ y \in 0 .. Ys
             /\ res[y - 1] \in Int /\ res[y] \in Int /\ res[y - 1] # 0
             /\ a.method = "degr-linear" => res[y] <= res[y - 1]
  <2>1. y \in 1 .. Ys /\ y - 1 \in 0 .. Ys /\ y \in 0 .. Ys
    BY <1>2, <1>4
  <2> HIDE DEF res, Ys
  <2>2. res[y - 1] \in Int /\ res[y] \in Int /\ (a.method = "degr-linear" => res[y] <= res[y - 1])
    BY <1>1, <2>1
  <2>3. CASE y = 1
    BY <1>1, <1>2, <2>1, <2>2, <2>3
  <2>4. CASE y # 1
    <3>1. y - 1 \in 1 .. Y - 1
      BY <1>4, <2>4
    <3> QED BY <1>3, <2>1, <2>2, <3>1
  <2> QED BY <2>3, <2>4
<1>6. ASSUME NEW y \in 1 .. Y, NEW s \in V PROVE s \o NextLines(a, res, s, y) \in V
  <2> DEFINE p == FirstPeriod(a) + Len(s)
             r == res[y - 1]
             year == res[y - 1] - res[y]
             amount == PeriodAmount(a, r)
  <2>1. p \in Int
    BY YearsOfAsset
  <2>2. r \in Int /\ year \in Int /\ y \in 1 .. Ys
    BY <1>5
  <2> HIDE DEF p, r, year
  <2>3. amount \in Int
    BY <2>2, PeriodAmountTyped
  <2> HIDE DEF amount
  <2>4. YearLines(a, y, p, r, year, amount) \in V
    BY <2>1, <2>2, <2>3, YearLinesTyped
  <2>5. NextLines(a, res, s, y) = YearLines(a, y, p, r, year, amount)
    BY DEF NextLines, p, r, year, amount
  <2>6. s \in Seq(TableLine) /\ NextLines(a, res, s, y) \in Seq(TableLine)
    BY <2>4, <2>5
  <2> QED BY <2>6, ConcatProperties
<1> HIDE DEF res, Ys
<1>7. \A y \in (0 + 1) .. Y : \A s \in V : step[y][s] \in V /\ step[y][s] = s \o NextLines(a, res, s, y)
  BY <1>6
<1> HIDE DEF step
<1>8. << >> \in V
  OBVIOUS
<1> HIDE DEF V
<1>9. PICK f \in [0 .. Y -> V] : f[0] = << >> /\ \A y \in (0 + 1) .. Y : f[y] = step[y][f[y - 1]]
  <2>1. 0 \in Int /\ Y \in Int /\ 0 <= Y
    BY <1>4
  <2>2. Steps(step, 0, Y, V)
    BY <1>7 DEF Steps
  <2>3. \E f \in [0 .. Y -> V] : Stepwise(f, step, 0, Y, << >>)
    BY <1>8, <2>1, <2>2, Recursion
  <2> QED BY <2>3 DEF Stepwise
<1>10. UpTo(f)
  <2>1. ASSUME NEW y \in 0 .. Y PROVE f[y] = After(f, y)
    <3>1. CASE y = 0
      BY <1>9, <3>1
    <3>2. CASE y # 0
      <4>1. y \in (0 + 1) .. Y /\ f[y - 1] \in V
        BY <1>4, <1>9, <3>2
      <4>2. step[y][f[y - 1]] = f[y - 1] \o NextLines(a, res, f[y - 1], y)
        BY <1>7, <4>1
      <4> QED BY <1>9, <3>2, <4>1, <4>2
    <3> QED BY <3>1, <3>2
  <2>2. f = [y \in 0 .. Y |-> f[y]]
    BY <1>9
  <2> HIDE DEF After
  <2> QED BY <2>1, <2>2
<1> DEFINE upTo == CHOOSE g : UpTo(g)
<1>11. TableLines(a, res) = upTo[Y]
  BY DEF TableLines, Y, NextLines
<1>12. UpTo(upTo)
  <2> HIDE DEF UpTo
  <2> QED BY <1>10
<1> HIDE DEF upTo
<1>13. \A y \in 0 .. Y : upTo[y] = After(upTo, y)
  <2> HIDE DEF After
  <2> QED BY <1>12
<1> DEFINE Fine(ls, y) == FirstLines(a, ls, y) /\ Runs(ls, DepreciationBase(a), res[y])
<1>14. Fine(<< >>, 0)
  <2>1. << >> \in Seq(TableLine) /\ Len(<< >>) = 0
    OBVIOUS
  <2>2. \A k \in 1 .. 0 : FALSE
    OBVIOUS
  <2>3. 0 \in 0 .. 0
    OBVIOUS
  <2>4. FirstLines(a, << >>, 0)
    BY <2>1, <2>2, <2>3 DEF FirstLines
  <2>5. Runs(<< >>, DepreciationBase(a), res[0])
    BY <1>1, <2>1, <2>2 DEF Runs, LeftBefore
  <2> QED BY <2>4, <2>5
<1>15. \A y \in 0 .. Y : Fine(upTo[y], y)
  <2> HIDE DEF Fine
  <2> DEFINE Bad == {y \in Nat : y <= Y /\ ~Fine(upTo[y], y)}
  <2>1. ASSUME Bad # {} PROVE FALSE
    <3>1. Bad \in SUBSET Nat
      OBVIOUS
    <3> HIDE DEF Bad
    <3>2. PICK y \in Bad : \A z \in Bad : y <= z
      BY <2>1, <3>1, LeastNat
    <3> USE DEF Bad
    <3>3. y \in Nat /\ y <= Y /\ ~Fine(upTo[y], y) /\ y \in 0 .. Y
      BY <1>4, <3>2
    <3>4. y # 0
      BY <1>13, <1>14, <3>3
    <3>5. y - 1 \in Nat /\ y - 1 <= Y /\ ~(y <= y - 1) /\ y \in 1 .. Y
      BY <1>4, <3>3, <3>4
    <3>6. Fine(upTo[y - 1], y - 1)
      BY <3>2, <3>5
    <3> HIDE DEF Bad
    <3>7. upTo[y] = upTo[y - 1] \o NextLines(a, res, upTo[y - 1], y)
      BY <1>13, <3>3, <3>4
    <3>8. /\ y \in 1 .. Ys /\ res[y - 1] # 0 /\ (a.method = "degr-linear" => res[y] <= res[y - 1])
          /\ res \in [0 .. Ys -> Int]
      BY <1>1, <1>5, <3>5
    <3> DEFINE ls == upTo[y - 1]
    <3>9. FirstLines(a, ls, y - 1) /\ Runs(ls, DepreciationBase(a), res[y - 1])
      BY <3>6 DEF Fine
    <3> HIDE DEF ls
    <3>10. /\ FirstLines(a, ls \o NextLines(a, res, ls, y), y)
           /\ Runs(ls \o NextLines(a, res, ls, y), DepreciationBase(a), res[y])
      BY <3>8, <3>9, YearAdded DEF Ys
    <3> QED BY <3>3, <3>7, <3>10 DEF Fine, ls
  <2>2. \A y \in 0 .. Y : y \in Nat /\ y <= Y
    BY <1>4
  <2> HIDE DEF UpTo
  <2> QED BY <2>1, <2>2
<1>16. Y \in 0 .. Y
  BY <1>4
<1>17. FirstLines(a, TableLines(a, res), Y) /\ Runs(TableLines(a, res), DepreciationBase(a), res[Y])
  BY <1>11, <1>15, <1>16
<1>18. res[Y] = DepreciationBase(a) - Depreciable(a)
  BY LastResidual DEF Y, res
<1> QED BY <1>4, <1>17, <1>18 DEF Y, res

\* What the computation of the board needs of the table
ProperTable(t) ==
  /\ t \in Seq(TableLine) /\ Len(t) \in Nat /\ Len(t) >= 1
  /\ \E c \in Nat : \A k \in 1 .. Len(t) : t[k].date = Day(c + k)
  /\ \E last \in Nat :
       /\ \A k \in 1 .. Len(t) : t[k].year \in 1 .. last /\ t[k].date <= Day(YearEnd(t[k].year))
       /\ \A y \in 1 .. last : \E k \in 1 .. Len(t) : t[k].year = y

LEMMA TableIsProper ==
  ASSUME NEW a, ProperAsset(a)
  PROVE  /\ ProperTable(DepreciationTable(a))
         /\ Runs(DepreciationTable(a), DepreciationBase(a), DepreciationBase(a) - Depreciable(a))
<1> DEFINE all == TableLines(a, FyResidual(a))
           Y == LastYear(FyResidual(a))
           S == {k \in DOMAIN all : all[k].year = 1}
           n == Cardinality(S)
           early == IF a.prorata THEN 1 ELSE Min({a.start + 1, n})
           first == [all[early] EXCEPT !.amount = DepreciationBase(a) - all[early].remaining]
           rest == SubSeq(all, early + 1, Len(all))
           t == <<first>> \o rest
           F == FirstPeriod(a)
<1>1. Y \in Nat /\ Y >= 1 /\ FirstLines(a, all, Y)
  BY AllLines
<1>2. DepreciationTable(a) = t
  BY DEF DepreciationTable, Grouped
<1>3. F \in Nat /\ F >= 1 /\ DepreciationBase(a) \in Int
  BY YearsOfAsset, AmountsOfAsset
<1>4. a.start \in Nat /\ a.prorata \in BOOLEAN
  BY DepreciationAssumption DEF ProperAsset
<1> HIDE DEF all, Y, F
<1> DEFINE L == Len(all)
<1>5. /\ all \in Seq(TableLine) /\ L \in Nat /\ DOMAIN all = 1 .. L
      /\ \A k \in 1 .. L : all[k] \in TableLine
      /\ \A k \in 1 .. L : /\ all[k].date = Day(F + k - 1) /\ all[k].year \in 1 .. Y
                           /\ F + k - 1 <= YearEnd(all[k].year)
      /\ \A z \in 1 .. Y : \E k \in 1 .. L : all[k].year = z
  <2>1. all \in Seq(TableLine)
    BY <1>1 DEF FirstLines
  <2>2. L \in Nat /\ DOMAIN all = 1 .. L /\ \A k \in 1 .. L : all[k] \in TableLine
    BY <2>1
  <2>3. \A k \in 1 .. L : /\ all[k].date = Day(F + k - 1) /\ all[k].year \in 1 .. Y
                           /\ F + k - 1 <= YearEnd(all[k].year)
    BY <1>1 DEF FirstLines, F
  <2>4. \A z \in 1 .. Y : \E k \in 1 .. L : all[k].year = z
    BY <1>1 DEF FirstLines
  <2> QED BY <2>1, <2>2, <2>3, <2>4
<1>6. PICK c \in 0 .. L : \A k \in 1 .. L : all[k].year = 1 <=> k <= c
  BY <1>1 DEF FirstLines
<1> HIDE DEF L
<1>7. c \in Nat /\ c >= 1 /\ c <= L
  <2>1. 1 \in 1 .. Y
    BY <1>1
  <2>2. PICK k \in 1 .. L : all[k].year = 1
    BY <1>5, <2>1
  <2> QED BY <1>5, <1>6, <2>2
<1>8. n = c
  <2>1. S = 1 .. c
    BY <1>5, <1>6, <1>7
  <2>2. 1 \in Int /\ c \in Int
    BY <1>7
  <2>3. Cardinality(1 .. c) = IF 1 > c THEN 0 ELSE c - 1 + 1
    BY <2>2, FS_Interval
  <2> HIDE DEF S
  <2> QED BY <1>7, <2>1, <2>3
<1> HIDE DEF n
<1>9. early \in Nat /\ early >= 1 /\ early <= c
  <2>1. Min({a.start + 1, c}) = IF a.start + 1 <= c THEN a.start + 1 ELSE c
    <3>1. a.start + 1 \in Int /\ c \in Int
      BY <1>4, <1>7
    <3> QED BY <3>1, MaxOfTwo
  <2>2. early = IF a.prorata THEN 1 ELSE Min({a.start + 1, c})
    BY <1>8
  <2> HIDE DEF early
  <2> QED BY <1>4, <1>7, <2>1, <2>2
<1> HIDE DEF early
<1>10. early \in 1 .. L /\ all[early] \in TableLine
  BY <1>5, <1>7, <1>9
<1>11. /\ first \in TableLine /\ first.date = all[early].date /\ first.year = all[early].year
       /\ first.remaining = all[early].remaining
       /\ first.remaining = DepreciationBase(a) - first.amount
  <2> DEFINE row == all[early]
             amount == DepreciationBase(a) - row.remaining
  <2>1. row \in TableLine
    BY <1>10
  <2> HIDE DEF row
  <2>2. amount \in Int
    BY <1>3, <2>1 DEF TableLine
  <2> HIDE DEF amount
  <2>3. [row EXCEPT !.amount = amount] \in TableLine /\ [row EXCEPT !.amount = amount].date = row.date
        /\ [row EXCEPT !.amount = amount].year = row.year
        /\ [row EXCEPT !.amount = amount].remaining = row.remaining
        /\ [row EXCEPT !.amount = amount].amount = amount
    BY <2>1, <2>2 DEF TableLine
  <2>4. row.remaining \in Int
    BY <2>1 DEF TableLine
  <2>5. row.remaining = DepreciationBase(a) - amount
    BY <1>3, <2>4 DEF amount
  <2> QED BY <2>3, <2>5 DEF row, amount
<1> HIDE DEF first
<1>12. rest \in Seq(TableLine) /\ Len(rest) = L - early
       /\ \A k \in 1 .. (L - early) : rest[k] = all[early + k]
  <2>1. early + 1 \in Int /\ L \in Int /\ \A i \in (early + 1) .. L : all[i] \in TableLine
    BY <1>5, <1>9
  <2> DEFINE m == early + 1
             sub == SubSeq(all, m, L)
  <2>2. m \in Int /\ L \in Int /\ \A i \in m .. L : all[i] \in TableLine
    BY <2>1
  <2> HIDE DEF m
  <2>3. /\ sub \in Seq(TableLine) /\ Len(sub) = (IF m <= L THEN L - m + 1 ELSE 0)
        /\ \A i \in 1 .. L - m + 1 : sub[i] = all[m + i - 1]
    BY <2>2, SubSeqProperties
  <2> HIDE DEF sub
  <2>4. rest = sub
    BY DEF sub, m, L
  <2>5. Len(sub) = L - early
    BY <1>5, <1>9, <1>10, <2>3 DEF m
  <2>6. \A k \in 1 .. (L - early) : sub[k] = all[early + k]
    <3> TAKE k \in 1 .. (L - early)
    <3>1. k \in 1 .. L - m + 1 /\ m + k - 1 = early + k
      BY <1>5, <1>9 DEF m
    <3> QED BY <2>3, <3>1
  <2> QED BY <2>3, <2>4, <2>5, <2>6
<1> HIDE DEF rest
<1> DEFINE M == L - early + 1
<1>13. M \in Nat /\ M >= 1
  BY <1>5, <1>10
<1>14. t \in Seq(TableLine) /\ Len(t) = M
       /\ \A k \in 1 .. M : t[k] = IF k = 1 THEN first ELSE all[early + k - 1]
  <2>1. <<first>> \in Seq(TableLine) /\ Len(<<first>>) = 1 /\ <<first>>[1] = first
    BY <1>11
  <2> DEFINE h == <<first>>
  <2>2. h \in Seq(TableLine) /\ Len(h) = 1 /\ h[1] = first
    BY <2>1
  <2> HIDE DEF h
  <2>3. /\ h \o rest \in Seq(TableLine) /\ Len(h \o rest) = Len(h) + Len(rest)
        /\ \A i \in 1 .. Len(h) + Len(rest) :
             (h \o rest)[i] = IF i <= Len(h) THEN h[i] ELSE rest[i - Len(h)]
    BY <1>12, <2>2, ConcatProperties
  <2>4. t = h \o rest
    BY DEF h
  <2> HIDE DEF t
  <2>5. Len(t) = M
    BY <1>5, <1>10, <1>12, <2>2, <2>3, <2>4
  <2>6. ASSUME NEW k \in 1 .. M PROVE t[k] = IF k = 1 THEN first ELSE all[early + k - 1]
    <3>1. k \in 1 .. Len(h) + Len(rest)
      BY <1>5, <1>10, <1>12, <2>2
    <3>2. t[k] = IF k <= 1 THEN h[k] ELSE rest[k - 1]
      BY <2>2, <2>3, <2>4, <3>1
    <3>3. CASE k = 1
      BY <2>2, <3>2, <3>3
    <3>4. CASE k # 1
      <4>1. k - 1 \in 1 .. (L - early) /\ early + (k - 1) = early + k - 1 /\ ~(k <= 1)
        BY <1>5, <1>10, <3>4
      <4> QED BY <1>12, <3>2, <3>4, <4>1
    <3> QED BY <3>3, <3>4
  <2> QED BY <2>3, <2>4, <2>5, <2>6
<1> HIDE DEF t, M
<1>15. ASSUME NEW k \in 1 .. M
       PROVE  /\ early + k - 1 \in 1 .. L
              /\ t[k].date = all[early + k - 1].date /\ t[k].year = all[early + k - 1].year
  <2>1. early + k - 1 \in 1 .. L
    BY <1>5, <1>10, <1>13 DEF M
  <2>2. CASE k = 1
    <3>1. early + k - 1 = early
      BY <1>10, <2>2
    <3> QED BY <1>11, <1>14, <2>1, <2>2, <3>1
  <2>3. CASE k # 1
    BY <1>14, <2>1, <2>3
  <2> QED BY <2>2, <2>3
<1> DEFINE e == F + early - 2
<1>16. e \in Nat /\ \A k \in 1 .. M : t[k].date = Day(e + k)
  <2>1. e \in Nat
    BY <1>3, <1>9
  <2>2. ASSUME NEW k \in 1 .. M PROVE t[k].date = Day(e + k)
    <3>1. t[k].date = Day(F + (early + k - 1) - 1)
      BY <1>5, <1>15
    <3>2. F + (early + k - 1) - 1 = e + k
      BY <1>3, <1>9, <1>13
    <3> QED BY <3>1, <3>2
  <2> QED BY <2>1, <2>2
<1>17. ASSUME NEW k \in 1 .. M PROVE t[k].year \in 1 .. Y /\ t[k].date <= Day(YearEnd(t[k].year))
  <2> DEFINE j == early + k - 1
             y == all[j].year
  <2>1. j \in 1 .. L /\ t[k].date = all[j].date /\ t[k].year = y
    BY <1>15
  <2> HIDE DEF j
  <2>2. all[j].date = Day(F + j - 1) /\ y \in 1 .. Y /\ F + j - 1 <= YearEnd(y)
    BY <1>5, <2>1
  <2> HIDE DEF y
  <2>3. YearEnd(y) \in Int
    BY <1>1, <2>2, DepreciationAssumption, ProductTyped DEF YearEnd
  <2>4. Day(F + j - 1) <= Day(YearEnd(y))
    BY <1>3, <1>5, <2>1, <2>2, <2>3 DEF Day
  <2> QED BY <2>1, <2>2, <2>4
<1>18. ASSUME NEW y \in 1 .. Y PROVE \E k \in 1 .. M : t[k].year = y
  <2>1. PICK j \in 1 .. L : all[j].year = y
    BY <1>5
  <2>2. CASE j >= early
    <3>1. j - early + 1 \in 1 .. M /\ early + (j - early + 1) - 1 = j
      BY <1>5, <1>10, <1>13, <2>2 DEF M
    <3>2. t[j - early + 1].year = all[j].year
      BY <1>15, <3>1
    <3> QED BY <2>1, <3>1, <3>2
  <2>3. CASE ~(j >= early)
    <3>1. j <= c /\ early + 1 - 1 = early /\ 1 \in 1 .. M
      BY <1>7, <1>9, <1>13, <2>3
    <3>2. y = 1 /\ all[early].year = 1
      BY <1>6, <1>9, <1>10, <2>1, <3>1
    <3>3. t[1].year = all[early].year
      BY <1>15, <3>1
    <3> QED BY <3>1, <3>2, <3>3
  <2> QED BY <2>2, <2>3
<1>19. ProperTable(t)
  <2>1. Len(t) = M
    BY <1>14
  <2> HIDE DEF e
  <2>2. \E c1 \in Nat : \A k \in 1 .. M : t[k].date = Day(c1 + k)
    BY <1>16
  <2>3. \E last \in Nat :
          /\ \A k \in 1 .. M : t[k].year \in 1 .. last /\ t[k].date <= Day(YearEnd(t[k].year))
          /\ \A y \in 1 .. last : \E k \in 1 .. M : t[k].year = y
    BY <1>1, <1>17, <1>18
  <2> QED BY <1>13, <1>14, <2>1, <2>2, <2>3 DEF ProperTable
<1>20. Runs(t, DepreciationBase(a), DepreciationBase(a) - Depreciable(a))
  <2> DEFINE b == DepreciationBase(a)
             over == b - Depreciable(a)
  <2>1. /\ \A k \in 1 .. L : all[k].remaining = LeftBefore(all, b, k) - all[k].amount
        /\ LeftBefore(all, b, L + 1) = over
    BY AllLines DEF Runs, all, L
  <2> HIDE DEF b, over
  <2>2. ASSUME NEW k \in 1 .. M + 1, k # 1
        PROVE  LeftBefore(t, b, k) = LeftBefore(all, b, early + k - 1)
    <3> DEFINE j == early + k - 1
               i == k - 1
    <3>1. /\ i \in 1 .. M /\ j \in Int /\ j # 1 /\ early + i - 1 = j - 1
          /\ i = 1 => j - 1 = early
      BY <1>5, <1>10, <1>13, <2>2 DEF M
    <3>2. LeftBefore(t, b, k) = t[i].remaining
      BY <2>2 DEF LeftBefore
    <3> HIDE DEF i, j
    <3>3. t[i] = IF i = 1 THEN first ELSE all[j - 1]
      BY <1>14, <3>1
    <3>4. t[i].remaining = all[j - 1].remaining
      BY <1>11, <3>1, <3>3
    <3>5. LeftBefore(all, b, j) = all[j - 1].remaining
      BY <3>1 DEF LeftBefore
    <3> QED BY <3>2, <3>4, <3>5 DEF j
  <2>3. ASSUME NEW k \in 1 .. M PROVE t[k].remaining = LeftBefore(t, b, k) - t[k].amount
    <3>1. CASE k = 1
      <4>1. t[1] = first
        BY <1>13, <1>14
      <4> QED BY <1>11, <3>1, <4>1 DEF LeftBefore, b
    <3>2. CASE k # 1
      <4> DEFINE j == early + k - 1
      <4>1. t[k] = all[j]
        BY <1>14, <3>2
      <4>2. j \in 1 .. L
        BY <1>15
      <4>3. k \in 1 .. M + 1
        BY <1>13
      <4>4. LeftBefore(t, b, k) = LeftBefore(all, b, j)
        BY <2>2, <3>2, <4>3
      <4> HIDE DEF j
      <4> QED BY <2>1, <4>1, <4>2, <4>4
    <3> QED BY <3>1, <3>2
  <2>4. LeftBefore(t, b, M + 1) = over
    <3>1. M + 1 \in 1 .. M + 1 /\ M + 1 # 1 /\ early + (M + 1) - 1 = L + 1
      BY <1>5, <1>10, <1>13 DEF M
    <3> QED BY <2>1, <2>2, <3>1
  <2> QED BY <1>14, <2>3, <2>4 DEF Runs, b, over
<1> QED BY <1>2, <1>19, <1>20

\* The amounts of a table that leaves to add up to the rest.
LEMMA RunsTotal ==
  ASSUME NEW s \in Seq(TableLine), NEW from \in Int, NEW to \in Int, Runs(s, from, to)
  PROVE  SumFunctionOnSet([k \in 1 .. Len(s) |-> s[k].amount], 1 .. Len(s)) = from - to
<1> DEFINE hi == Len(s)
           u == [k \in 0 .. hi |-> from - LeftBefore(s, from, k + 1)]
<1>1. hi \in Nat /\ \A k \in 1 .. hi : s[k].amount \in Int /\ s[k].remaining \in Int
  <2>1. hi \in Nat /\ \A k \in 1 .. hi : s[k] \in TableLine
    OBVIOUS
  <2> QED BY <2>1 DEF TableLine
<1>2. (\A k \in 1 .. hi : s[k].remaining = LeftBefore(s, from, k) - s[k].amount) /\ LeftBefore(s, from, hi + 1) = to
  BY DEF Runs
<1> HIDE DEF hi
<1>3. LeftBefore(s, from, 1) = from /\ \A k \in 1 .. hi : LeftBefore(s, from, k + 1) = s[k].remaining
  <2>1. \A k \in 1 .. hi : k + 1 # 1 /\ k + 1 - 1 = k
    BY <1>1
  <2> QED BY <2>1 DEF LeftBefore
<1>4. \A k \in 0 .. hi : u[k] \in Int /\ u[k] = from - LeftBefore(s, from, k + 1)
  <2> TAKE k \in 0 .. hi
  <2>1. CASE k = 0
    <3>1. k + 1 = 1
      BY <2>1
    <3> QED BY <1>3, <3>1
  <2>2. CASE k # 0
    <3>1. k \in 1 .. hi
      BY <1>1, <2>2
    <3>2. LeftBefore(s, from, k + 1) = s[k].remaining /\ s[k].remaining \in Int
      BY <1>1, <1>3, <3>1
    <3> QED BY <3>2
  <2> QED BY <2>1, <2>2
<1>5. u[0] = 0 /\ u[hi] = from - to /\ 0 \in Int /\ hi \in Int /\ 0 <= hi
  BY <1>1, <1>2, <1>3
<1> HIDE DEF u
<1>6. SumFunctionOnSet([k \in (0 + 1) .. hi |-> u[k] - u[k - 1]], (0 + 1) .. hi) = u[hi] - u[0]
  BY <1>4, <1>5, Telescope
<1>7. \A k \in 1 .. hi : u[k] - u[k - 1] = s[k].amount
  <2> TAKE k \in 1 .. hi
  <2>1. k \in 0 .. hi /\ k - 1 \in 0 .. hi /\ k - 1 + 1 = k
    BY <1>1
  <2>2. u[k] = from - LeftBefore(s, from, k + 1) /\ u[k - 1] = from - LeftBefore(s, from, k)
        /\ u[k] \in Int /\ u[k - 1] \in Int
    BY <1>4, <2>1
  <2>3. s[k].remaining = LeftBefore(s, from, k) - s[k].amount /\ LeftBefore(s, from, k + 1) = s[k].remaining
    BY <1>2, <1>3
  <2>4. LeftBefore(s, from, k) \in Int
    <3>1. k = 1 \/ k - 1 \in 1 .. hi
      BY <1>1
    <3> QED BY <1>1, <3>1 DEF LeftBefore
  <2>5. s[k].amount \in Int
    BY <1>1
  <2> DEFINE x == LeftBefore(s, from, k)
             y == LeftBefore(s, from, k + 1)
  <2>6. x \in Int /\ y = x - s[k].amount /\ u[k] = from - y /\ u[k - 1] = from - x
    BY <2>2, <2>3, <2>4
  <2> HIDE DEF x, y
  <2> QED BY <2>5, <2>6
<1>8. [k \in 1 .. hi |-> s[k].amount] = [k \in (0 + 1) .. hi |-> u[k] - u[k - 1]]
  BY <1>7
<1>9. (0 + 1) .. hi = 1 .. hi
  OBVIOUS
<1>10. SumFunctionOnSet([k \in 1 .. hi |-> s[k].amount], 1 .. hi) = u[hi] - u[0]
  BY <1>6, <1>8, <1>9
<1> QED BY <1>5, <1>10 DEF hi

\* The depreciation table of every asset (_compute_depreciation_table, and the
\* grouping of its first lines): the amounts add up to the amount to be
\* depreciated, whatever is rounded, cut short or left to the end, and each line
\* leaves what the one before it leaves, less its amount.
THEOREM TableAddsUp ==
  ASSUME NEW a, ProperAsset(a)
  PROVE  LET t == DepreciationTable(a)
         IN  /\ SumFunctionOnSet([k \in 1 .. Len(t) |-> t[k].amount], 1 .. Len(t)) = Depreciable(a)
             /\ \A k \in 1 .. Len(t) :
                  t[k].remaining = LeftBefore(t, DepreciationBase(a), k) - t[k].amount
<1> DEFINE t == DepreciationTable(a)
           b == DepreciationBase(a)
           D == Depreciable(a)
<1>1. b \in Int /\ D \in Int /\ t \in Seq(TableLine) /\ Runs(t, b, b - D)
  BY AmountsOfAsset, TableIsProper DEF ProperTable
<1> HIDE DEF t, b, D
<1>2. b - D \in Int /\ b - (b - D) = D
  BY <1>1
<1>3. SumFunctionOnSet([k \in 1 .. Len(t) |-> t[k].amount], 1 .. Len(t)) = D
  BY <1>1, <1>2, RunsTotal
<1> QED BY <1>1, <1>3 DEF Runs, t, b, D
=============================================================================

------------------------------- MODULE Counting -------------------------------
(***************************************************************************)
(* What the proofs need to know about sums and counts: SumFunctionOnSet of *)
(* the community modules over a finite set, and the number of times that a *)
(* value occurs in a sequence.                                             *)
(*                                                                         *)
(* Induction over a finite set is stated with a set of good subsets in the *)
(* place of a predicate (SetInduction), so that it follows from the        *)
(* well-foundedness of strict inclusion and can be cited for any set.      *)
(***************************************************************************)
EXTENDS Sequences, Functions, FiniteSetTheorems, TLAPS

(* A nonempty set of subsets of a finite set has a minimal element.         *)
LEMMA MinimalSubset ==
    ASSUME NEW S, IsFiniteSet(S), NEW T, T \subseteq SUBSET S, T # {}
    PROVE  \E m \in T : \A t \in T : t \subseteq m => t = m
<1>1. IsWellFoundedOn(StrictSubsetOrdering(S), SUBSET S)
  BY FS_StrictSubsetOrderingWellFounded, FS_FiniteSubsetsOfFinite
<1>2. PICK m \in T : \A t \in T : ~ (<<t, m>> \in StrictSubsetOrdering(S))
  BY <1>1, WFMin
<1>3. \A t \in T : t \subseteq m => t = m
  BY <1>2 DEF StrictSubsetOrdering
<1> QED
  BY <1>3

(* What holds of a set whenever it holds of its strict subsets holds of     *)
(* every finite set.                                                        *)
LEMMA SetInduction ==
    ASSUME NEW S, IsFiniteSet(S), NEW Good,
           \A t \in SUBSET S : (\A u \in SUBSET t : u # t => u \in Good) => t \in Good
    PROVE  \A t \in SUBSET S : t \in Good
<1> DEFINE Bad == {t \in SUBSET S : t \notin Good}
<1>1. ASSUME Bad # {} PROVE FALSE
  <2>1. Bad \subseteq SUBSET S
    OBVIOUS
  <2> HIDE DEF Bad
  <2>2. PICK m \in Bad : \A t \in Bad : t \subseteq m => t = m
    BY <1>1, <2>1, MinimalSubset
  <2> USE DEF Bad
  <2>3. \A u \in SUBSET m : u # m => u \in Good
    BY <2>2
  <2> QED
    BY <2>2, <2>3
<1> QED
  BY <1>1

-----------------------------------------------------------------------------
(* Sums over finite sets *)

Chosen(s) == CHOOSE x \in s : TRUE

(* The recursive function behind the sum, and what it means to solve its    *)
(* equation for the subsets of t.                                           *)
Sums(f, S) == CHOOSE g : g = [s \in SUBSET S |->
                  IF s = {} THEN 0 ELSE f[Chosen(s)] + g[s \ {Chosen(s)}]]

Solves(g, f, t) == \A s \in SUBSET t :
    g[s] = IF s = {} THEN 0 ELSE f[Chosen(s)] + g[s \ {Chosen(s)}]

LEMMA SumIs == ASSUME NEW f, NEW S PROVE SumFunctionOnSet(f, S) = Sums(f, S)[S]
BY DEF SumFunctionOnSet, FoldFunctionOnSet, MapThenFoldSet, Sums, Chosen

LEMMA ChosenIn == ASSUME NEW s, s # {} PROVE Chosen(s) \in s
BY DEF Chosen

LEMMA SolvesLess == ASSUME NEW g, NEW f, NEW t, NEW u \in SUBSET t, Solves(g, f, t)
                    PROVE  Solves(g, f, u)
BY DEF Solves

(* Two solutions agree where both are defined.                              *)
LEMMA SolutionsAgree ==
    ASSUME NEW S, IsFiniteSet(S), NEW f, NEW g, NEW h, Solves(g, f, S), Solves(h, f, S)
    PROVE  g[S] = h[S]
<1> DEFINE Good == {t \in SUBSET S : g[t] = h[t]}
<1>1. ASSUME NEW t \in SUBSET S, \A u \in SUBSET t : u # t => u \in Good
      PROVE  t \in Good
  <2>1. CASE t = {}
    BY <2>1 DEF Solves
  <2>2. CASE t # {}
    <3>1. Chosen(t) \in t
      BY <2>2, ChosenIn
    <3>2. t \ {Chosen(t)} \in SUBSET t /\ t \ {Chosen(t)} # t
      BY <3>1
    <3>3. g[t \ {Chosen(t)}] = h[t \ {Chosen(t)}]
      BY <1>1, <3>2
    <3>4. /\ g[t] = f[Chosen(t)] + g[t \ {Chosen(t)}]
          /\ h[t] = f[Chosen(t)] + h[t \ {Chosen(t)}]
      BY <2>2 DEF Solves
    <3> QED
      BY <3>3, <3>4
  <2> QED
    BY <2>1, <2>2
<1> HIDE DEF Good
<1>2. \A t \in SUBSET S : t \in Good
  BY <1>1, SetInduction
<1> QED
  BY <1>2 DEF Good

(* There is a solution for every finite set.                                *)
LEMMA SolutionExists ==
    ASSUME NEW S, IsFiniteSet(S), NEW f
    PROVE  \E g : Solves(g, f, S)
<1> DEFINE Good == {t \in SUBSET S : \E g : Solves(g, f, t)}
<1>1. ASSUME NEW t \in SUBSET S, \A u \in SUBSET t : u # t => u \in Good
      PROVE  \E g : Solves(g, f, t)
  <2> DEFINE rest(s) == s \ {Chosen(s)}
             part(u) == CHOOSE g : Solves(g, f, u)
             whole == [s \in SUBSET t |-> IF s = {} THEN 0
                                          ELSE f[Chosen(s)] + part(rest(s))[rest(s)]]
  <2>1. ASSUME NEW s \in SUBSET t, s # {}
        PROVE  /\ rest(s) \in SUBSET s /\ rest(s) \in SUBSET t /\ rest(s) # t
               /\ Solves(part(rest(s)), f, rest(s))
    <3>1. Chosen(s) \in s
      BY <2>1, ChosenIn
    <3>2. rest(s) \in SUBSET s /\ rest(s) \in SUBSET t /\ rest(s) # t
      BY <3>1
    <3>3. \E g : Solves(g, f, rest(s))
      BY <1>1, <3>2
    <3> QED
      BY <3>2, <3>3
  <2>2. ASSUME NEW s \in SUBSET t, s # {}
        PROVE  whole[rest(s)] = part(rest(s))[rest(s)]
    <3> DEFINE r == rest(s)
    <3>1. r \in SUBSET t /\ Solves(part(r), f, r) /\ IsFiniteSet(r)
      BY <2>1, <2>2, FS_Subset
    <3>2. CASE r = {}
      BY <3>1, <3>2 DEF Solves
    <3>3. CASE r # {}
      <4>1. /\ rest(r) \in SUBSET r /\ Solves(part(rest(r)), f, rest(r))
        BY <2>1, <3>1, <3>3
      <4>2. Solves(part(r), f, rest(r)) /\ IsFiniteSet(rest(r))
        BY <3>1, <4>1, SolvesLess, FS_Subset
      <4> HIDE DEF rest, part
      <4>3. part(r)[rest(r)] = part(rest(r))[rest(r)]
        BY <4>1, <4>2, SolutionsAgree
      <4>4. part(r)[r] = f[Chosen(r)] + part(r)[rest(r)]
        BY <3>1, <3>3 DEF Solves, rest
      <4>5. whole[r] = f[Chosen(r)] + part(rest(r))[rest(r)]
        BY <3>1, <3>3
      <4> QED
        BY <4>3, <4>4, <4>5
    <3> QED
      BY <3>2, <3>3
  <2>3. ASSUME NEW s \in SUBSET t
        PROVE  whole[s] = IF s = {} THEN 0 ELSE f[Chosen(s)] + whole[rest(s)]
    <3> HIDE DEF rest, part
    <3>1. whole[s] = IF s = {} THEN 0 ELSE f[Chosen(s)] + part(rest(s))[rest(s)]
      OBVIOUS
    <3>2. s # {} => whole[rest(s)] = part(rest(s))[rest(s)]
      BY <2>2
    <3> HIDE DEF whole
    <3> QED
      BY <3>1, <3>2
  <2> HIDE DEF whole
  <2>4. Solves(whole, f, t)
    BY <2>3 DEF Solves
  <2> QED
    BY <2>4
<1> HIDE DEF Good
<1>2. \A t \in SUBSET S : t \in Good
  <2>1. ASSUME NEW t \in SUBSET S, \A u \in SUBSET t : u # t => u \in Good PROVE t \in Good
    BY <1>1, <2>1 DEF Good
  <2> QED
    BY <2>1, SetInduction
<1> QED
  BY <1>2 DEF Good

(* The recursion that the sum follows.                                      *)
LEMMA SumsSolve == ASSUME NEW S, IsFiniteSet(S), NEW f PROVE Solves(Sums(f, S), f, S)
<1> DEFINE eq(g) == g = [s \in SUBSET S |->
                  IF s = {} THEN 0 ELSE f[Chosen(s)] + g[s \ {Chosen(s)}]]
<1>1. PICK g : Solves(g, f, S)
  BY SolutionExists
<1> DEFINE h == [s \in SUBSET S |-> g[s]]
<1>2. ASSUME NEW s \in SUBSET S
      PROVE  h[s] = IF s = {} THEN 0 ELSE f[Chosen(s)] + h[s \ {Chosen(s)}]
  <2>1. s \ {Chosen(s)} \in SUBSET S
    OBVIOUS
  <2> QED
    BY <1>1, <2>1 DEF Solves
<1>3. eq(h)
  BY <1>2
<1>4. eq(Sums(f, S))
  BY <1>3 DEF Sums
<1> QED
  BY <1>4 DEF Solves

LEMMA SumRecursion ==
    ASSUME NEW S, IsFiniteSet(S), NEW f
    PROVE  /\ SumFunctionOnSet(f, {}) = 0
           /\ S # {} => SumFunctionOnSet(f, S)
                           = f[Chosen(S)] + SumFunctionOnSet(f, S \ {Chosen(S)})
<1>1. SumFunctionOnSet(f, {}) = 0
  BY FS_EmptySet, SumIs, SumsSolve DEF Solves
<1>2. ASSUME S # {}
      PROVE  SumFunctionOnSet(f, S) = f[Chosen(S)] + SumFunctionOnSet(f, S \ {Chosen(S)})
  <2> DEFINE r == S \ {Chosen(S)}
  <2>1. r \in SUBSET S /\ IsFiniteSet(r)
    BY FS_Subset
  <2>2. Solves(Sums(f, S), f, S) /\ Solves(Sums(f, S), f, r) /\ Solves(Sums(f, r), f, r)
    BY <2>1, SumsSolve, SolvesLess
  <2>3. Sums(f, S)[S] = f[Chosen(S)] + Sums(f, S)[r]
    BY <1>2, <2>2 DEF Solves
  <2>4. Sums(f, S)[r] = Sums(f, r)[r]
    BY <2>1, <2>2, SolutionsAgree
  <2> QED
    BY <2>3, <2>4, SumIs
<1> QED
  BY <1>1, <1>2

LEMMA SumEmpty == ASSUME NEW f PROVE SumFunctionOnSet(f, {}) = 0
BY SumRecursion, FS_EmptySet

(* Sums of natural numbers are natural numbers.                             *)
LEMMA SumNat ==
    ASSUME NEW S, IsFiniteSet(S), NEW f, \A x \in S : f[x] \in Nat
    PROVE  SumFunctionOnSet(f, S) \in Nat
<1> DEFINE Good == {t \in SUBSET S : SumFunctionOnSet(f, t) \in Nat}
<1>1. ASSUME NEW t \in SUBSET S, \A u \in SUBSET t : u # t => u \in Good
      PROVE  SumFunctionOnSet(f, t) \in Nat
  <2>1. IsFiniteSet(t)
    BY FS_Subset
  <2>2. CASE t = {}
    BY <2>2, SumEmpty
  <2>3. CASE t # {}
    <3>1. Chosen(t) \in t
      BY <2>3, ChosenIn
    <3>2. SumFunctionOnSet(f, t \ {Chosen(t)}) \in Nat
      BY <1>1, <3>1
    <3>3. SumFunctionOnSet(f, t) = f[Chosen(t)] + SumFunctionOnSet(f, t \ {Chosen(t)})
      BY <2>1, <2>3, SumRecursion
    <3> QED
      BY <3>1, <3>2, <3>3
  <2> QED
    BY <2>2, <2>3
<1> HIDE DEF Good
<1>2. \A t \in SUBSET S : t \in Good
  <2>1. ASSUME NEW t \in SUBSET S, \A u \in SUBSET t : u # t => u \in Good PROVE t \in Good
    BY <1>1, <2>1 DEF Good
  <2> QED
    BY <2>1, SetInduction
<1> QED
  BY <1>2 DEF Good

(* Only the values on the set count.                                        *)
LEMMA SumSame ==
    ASSUME NEW S, IsFiniteSet(S), NEW f, NEW g, \A x \in S : f[x] = g[x]
    PROVE  SumFunctionOnSet(f, S) = SumFunctionOnSet(g, S)
<1> DEFINE Good == {t \in SUBSET S : SumFunctionOnSet(f, t) = SumFunctionOnSet(g, t)}
<1>1. ASSUME NEW t \in SUBSET S, \A u \in SUBSET t : u # t => u \in Good
      PROVE  SumFunctionOnSet(f, t) = SumFunctionOnSet(g, t)
  <2>1. IsFiniteSet(t)
    BY FS_Subset
  <2>2. CASE t = {}
    BY <2>2, SumEmpty
  <2>3. CASE t # {}
    <3>1. Chosen(t) \in t
      BY <2>3, ChosenIn
    <3>2. SumFunctionOnSet(f, t \ {Chosen(t)}) = SumFunctionOnSet(g, t \ {Chosen(t)})
      BY <1>1, <3>1
    <3>3. /\ SumFunctionOnSet(f, t) = f[Chosen(t)] + SumFunctionOnSet(f, t \ {Chosen(t)})
          /\ SumFunctionOnSet(g, t) = g[Chosen(t)] + SumFunctionOnSet(g, t \ {Chosen(t)})
      BY <2>1, <2>3, SumRecursion
    <3> QED
      BY <3>1, <3>2, <3>3
  <2> QED
    BY <2>2, <2>3
<1> HIDE DEF Good
<1>2. \A t \in SUBSET S : t \in Good
  <2>1. ASSUME NEW t \in SUBSET S, \A u \in SUBSET t : u # t => u \in Good PROVE t \in Good
    BY <1>1, <2>1 DEF Good
  <2> QED
    BY <2>1, SetInduction
<1> QED
  BY <1>2 DEF Good

(* Any element may be taken out of the sum, not the chosen one only.        *)
LEMMA SumTakeOut ==
    ASSUME NEW S, IsFiniteSet(S), NEW f, \A y \in S : f[y] \in Nat, NEW x \in S
    PROVE  SumFunctionOnSet(f, S) = f[x] + SumFunctionOnSet(f, S \ {x})
<1> DEFINE Sum(t) == SumFunctionOnSet(f, t)
           Good == {t \in SUBSET S : \A y \in t : Sum(t) = f[y] + Sum(t \ {y})}
<1> HIDE DEF Sum
<1>1. ASSUME NEW t \in SUBSET S, \A u \in SUBSET t : u # t => u \in Good, NEW y \in t
      PROVE  Sum(t) = f[y] + Sum(t \ {y})
  <2> DEFINE c == Chosen(t)
  <2>1. IsFiniteSet(t) /\ c \in t
    BY FS_Subset, ChosenIn
  <2>2. Sum(t) = f[c] + Sum(t \ {c})
    BY <2>1, SumRecursion DEF Sum
  <2>3. CASE y = c
    BY <2>2, <2>3
  <2>4. CASE y # c
    <3> HIDE DEF c
    <3>1. t \ {c} \in Good /\ y \in t \ {c} /\ t \ {y} \in Good /\ c \in t \ {y}
      BY <1>1, <2>1, <2>4
    <3>2. Sum(t \ {c}) = f[y] + Sum((t \ {c}) \ {y})
      BY <3>1
    <3>3. Sum(t \ {y}) = f[c] + Sum((t \ {y}) \ {c})
      BY <3>1
    <3>4. (t \ {c}) \ {y} = (t \ {y}) \ {c}
      OBVIOUS
    <3>5. f[y] \in Nat /\ f[c] \in Nat
      BY <2>1
    <3>6. Sum((t \ {y}) \ {c}) \in Nat
      <4>1. (t \ {y}) \ {c} \in SUBSET t
        OBVIOUS
      <4>2. IsFiniteSet((t \ {y}) \ {c})
        BY <2>1, <4>1, FS_Subset
      <4>3. \A z \in (t \ {y}) \ {c} : f[z] \in Nat
        OBVIOUS
      <4> QED
        BY <4>2, <4>3, SumNat DEF Sum
    <3> DEFINE n == Sum((t \ {y}) \ {c})
    <3>7. Sum(t \ {c}) = f[y] + n
      BY <3>2, <3>4
    <3>8. Sum(t \ {y}) = f[c] + n
      BY <3>3
    <3>9. n \in Nat
      BY <3>6
    <3> HIDE DEF n
    <3>10. Sum(t) = f[c] + (f[y] + n)
      BY <2>2, <3>7
    <3>11. f[c] + (f[y] + n) = f[y] + (f[c] + n)
      BY <3>5, <3>9
    <3> QED
      BY <3>8, <3>10, <3>11
  <2> QED
    BY <2>3, <2>4
<1> HIDE DEF Good
<1>2. \A t \in SUBSET S : t \in Good
  <2>1. ASSUME NEW t \in SUBSET S, \A u \in SUBSET t : u # t => u \in Good PROVE t \in Good
    BY <1>1, <2>1 DEF Good
  <2> QED
    BY <2>1, SetInduction
<1>3. \A y \in S : Sum(S) = f[y] + Sum(S \ {y})
  BY <1>2 DEF Good
<1> QED
  BY <1>3 DEF Sum

(* A sum follows the one value that changes.                                *)
LEMMA SumChange ==
    ASSUME NEW S, IsFiniteSet(S), NEW f, NEW g, NEW x \in S,
           \A y \in S : f[y] \in Nat /\ g[y] \in Nat,
           \A y \in S \ {x} : g[y] = f[y]
    PROVE  SumFunctionOnSet(g, S) + f[x] = SumFunctionOnSet(f, S) + g[x]
<1> DEFINE n == SumFunctionOnSet(f, S \ {x})
<1>1. IsFiniteSet(S \ {x}) /\ \A y \in S \ {x} : f[y] \in Nat
  BY FS_RemoveElement
<1>2. n \in Nat /\ n = SumFunctionOnSet(g, S \ {x})
  BY <1>1, SumNat, SumSame
<1>3. SumFunctionOnSet(f, S) = f[x] + n
  BY SumTakeOut
<1>4. SumFunctionOnSet(g, S) = g[x] + n
  BY <1>2, SumTakeOut
<1>5. f[x] \in Nat /\ g[x] \in Nat
  OBVIOUS
<1> HIDE DEF n
<1> QED
  BY <1>2, <1>3, <1>4, <1>5

(* A sum over a set with one element more.                                  *)
LEMMA SumAdd ==
    ASSUME NEW S, IsFiniteSet(S), NEW x, x \notin S, NEW f, \A y \in S \cup {x} : f[y] \in Nat
    PROVE  SumFunctionOnSet(f, S \cup {x}) = SumFunctionOnSet(f, S) + f[x]
<1>1. IsFiniteSet(S \cup {x}) /\ x \in S \cup {x} /\ (S \cup {x}) \ {x} = S
  BY FS_AddElement
<1>2. SumFunctionOnSet(f, S \cup {x}) = f[x] + SumFunctionOnSet(f, S)
  BY <1>1, SumTakeOut
<1>3. SumFunctionOnSet(f, S) \in Nat /\ f[x] \in Nat
  BY SumNat
<1> QED
  BY <1>2, <1>3

LEMMA SumZero ==
    ASSUME NEW S, IsFiniteSet(S), NEW f, \A x \in S : f[x] = 0
    PROVE  SumFunctionOnSet(f, S) = 0
<1> DEFINE Good == {t \in SUBSET S : SumFunctionOnSet(f, t) = 0}
<1>1. ASSUME NEW t \in SUBSET S, \A u \in SUBSET t : u # t => u \in Good
      PROVE  SumFunctionOnSet(f, t) = 0
  <2>1. CASE t = {}
    BY <2>1, SumEmpty
  <2>2. CASE t # {}
    <3>1. Chosen(t) \in t /\ IsFiniteSet(t)
      BY <2>2, ChosenIn, FS_Subset
    <3>2. SumFunctionOnSet(f, t \ {Chosen(t)}) = 0
      BY <1>1, <3>1
    <3> QED
      BY <2>2, <3>1, <3>2, SumRecursion
  <2> QED
    BY <2>1, <2>2
<1> HIDE DEF Good
<1>2. \A t \in SUBSET S : t \in Good
  <2>1. ASSUME NEW t \in SUBSET S, \A u \in SUBSET t : u # t => u \in Good PROVE t \in Good
    BY <1>1, <2>1 DEF Good
  <2> QED
    BY <2>1, SetInduction
<1> QED
  BY <1>2 DEF Good

-----------------------------------------------------------------------------
(* How often a value occurs in a sequence *)

Places(s, e) == {k \in DOMAIN s : s[k] = e}

LEMMA PlacesFinite ==
    ASSUME NEW S, NEW s \in Seq(S), NEW e
    PROVE  IsFiniteSet(Places(s, e)) /\ Cardinality(Places(s, e)) \in Nat
<1>1. DOMAIN s = 1..Len(s) /\ Len(s) \in Nat
  OBVIOUS
<1>2. IsFiniteSet(DOMAIN s)
  BY <1>1, FS_Interval
<1> QED
  BY <1>2, FS_Subset, FS_CardinalityType DEF Places

LEMMA PlacesAppend ==
    ASSUME NEW S, NEW s \in Seq(S), NEW a \in S, NEW e
    PROVE  /\ a = e => Cardinality(Places(Append(s, a), e)) = Cardinality(Places(s, e)) + 1
           /\ a # e => Places(Append(s, a), e) = Places(s, e)
<1>1. a = e => Places(Append(s, a), e) = Places(s, e) \cup {Len(s) + 1}
  BY DEF Places
<1>2. a # e => Places(Append(s, a), e) = Places(s, e)
  BY DEF Places
<1>3. Len(s) + 1 \notin Places(s, e)
  BY DEF Places
<1> QED
  BY <1>1, <1>2, <1>3, PlacesFinite, FS_AddElement

LEMMA PlacesTail ==
    ASSUME NEW S, NEW s \in Seq(S), s # <<>>, NEW e
    PROVE  Cardinality(Places(s, e)) =
               Cardinality(Places(Tail(s), e)) + (IF Head(s) = e THEN 1 ELSE 0)
<1> DEFINE P == Places(Tail(s), e)
           Q == Places(s, e) \ {1}
           up == [k \in P |-> k + 1]
<1>1. Tail(s) \in Seq(S) /\ Len(s) \in Nat /\ Len(s) > 0 /\ Head(s) = s[1]
      /\ DOMAIN s = 1..Len(s) /\ DOMAIN Tail(s) = 1..(Len(s) - 1)
      /\ \A k \in 1..(Len(s) - 1) : Tail(s)[k] = s[k + 1]
  OBVIOUS
<1>2. IsFiniteSet(P) /\ IsFiniteSet(Places(s, e))
      /\ Cardinality(P) \in Nat /\ Cardinality(Places(s, e)) \in Nat
  BY <1>1, PlacesFinite
<1>3. \A k \in P : k \in Int /\ k + 1 \in Q
  BY <1>1 DEF Places
<1>4. \A j \in Q : j - 1 \in P /\ j = (j - 1) + 1
  BY <1>1 DEF Places
<1>5. up \in Bijection(P, Q)
  <2> HIDE DEF P, Q
  <2>1. up \in [P -> Q] /\ (\A a, b \in P : up[a] = up[b] => a = b)
    BY <1>3
  <2>2. \A j \in Q : \E k \in P : up[k] = j
    BY <1>4
  <2> QED
    BY <2>1, <2>2 DEF Bijection, Injection, Surjection, IsInjective
<1>6. Cardinality(Q) = Cardinality(P)
  BY <1>2, <1>5, FS_Bijection DEF ExistsBijection
<1>7. 1 \in Places(s, e) <=> Head(s) = e
  BY <1>1 DEF Places
<1>8. /\ Head(s) = e => Cardinality(Q) = Cardinality(Places(s, e)) - 1
      /\ Head(s) # e => Q = Places(s, e)
  <2> DEFINE R == Places(s, e)
  <2>1. IsFiniteSet(R) /\ (1 \in R <=> Head(s) = e)
    BY <1>2, <1>7
  <2> HIDE DEF R
  <2>2. Cardinality(R \ {1}) = IF 1 \in R THEN Cardinality(R) - 1 ELSE Cardinality(R)
    BY <2>1, FS_RemoveElement
  <2>3. Head(s) # e => R \ {1} = R
    BY <2>1
  <2>4. Head(s) = e => Cardinality(R \ {1}) = Cardinality(R) - 1
    BY <2>1, <2>2
  <2> QED
    BY <2>3, <2>4 DEF R
<1> HIDE DEF P, Q
<1>9. CASE Head(s) = e
  BY <1>2, <1>6, <1>8, <1>9 DEF P
<1>10. CASE Head(s) # e
  BY <1>2, <1>6, <1>8, <1>10 DEF P
<1> QED
  BY <1>9, <1>10
=============================================================================

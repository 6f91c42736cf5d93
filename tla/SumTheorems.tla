----------------------------- MODULE SumTheorems -----------------------------
(***************************************************************************)
(* What the models need to know of SumFunctionOnSet: it is the sum of the  *)
(* values of a function on a finite set, in whichever order they are       *)
(* added.                                                                  *)
(***************************************************************************)
EXTENDS Integers, Functions, FiniteSetTheorems, TLAPS

(* What holds of a finite set whenever it holds of its proper subsets.     *)
LEMMA SubsetInduction ==
  ASSUME NEW S, IsFiniteSet(S), NEW Good,
         \A s \in SUBSET S :
           (\A u \in SUBSET s : u # s => u \in Good) => s \in Good
  PROVE  \A s \in SUBSET S : s \in Good
<1> DEFINE Bad == {s \in SUBSET S : s \notin Good}
<1>1. SUFFICES ASSUME Bad # {} PROVE FALSE
  OBVIOUS
<1>2. Bad \subseteq FiniteSubsetsOf(S)
  BY FS_Subset DEF FiniteSubsetsOf
<1>3. IsWellFoundedOn(StrictSubsetOrdering(S), FiniteSubsetsOf(S))
  BY FS_StrictSubsetOrderingWellFounded
<1>4. PICK s \in Bad : \A u \in Bad : ~(<<u, s>> \in StrictSubsetOrdering(S))
  <2> HIDE DEF Bad
  <2> QED
    BY <1>1, <1>2, <1>3, WFMin
<1>5. \A u \in SUBSET s : u # s => u \in Good
  BY <1>4 DEF StrictSubsetOrdering
<1> QED
  BY <1>4, <1>5

Summand(s) == CHOOSE x \in s : TRUE

(* g adds up the values of f on every subset of S. *)
AddsUp(f, S, g) ==
  g = [s \in SUBSET S |->
         IF s = {} THEN 0 ELSE f[Summand(s)] + g[s \ {Summand(s)}]]

LEMMA SumIs ==
  ASSUME NEW f, NEW S
  PROVE  SumFunctionOnSet(f, S) = (CHOOSE g : AddsUp(f, S, g))[S]
BY DEF SumFunctionOnSet, FoldFunctionOnSet, MapThenFoldSet, AddsUp, Summand

LEMMA SummandIn ==
  ASSUME NEW s, s # {}
  PROVE  Summand(s) \in s
BY DEF Summand

LEMMA AddsUpAt ==
  ASSUME NEW f, NEW S, NEW g, AddsUp(f, S, g), NEW s \in SUBSET S
  PROVE  /\ s = {} => g[s] = 0
         /\ s # {} => g[s] = f[Summand(s)] + g[s \ {Summand(s)}]
<1>1. g[s] = IF s = {} THEN 0 ELSE f[Summand(s)] + g[s \ {Summand(s)}]
  BY Zenon DEF AddsUp
<1> QED
  BY <1>1, Zenon

(* There is one way to add up at most. *)
LEMMA AddsUpOnce ==
  ASSUME NEW f, NEW S, IsFiniteSet(S), NEW g, NEW h,
         AddsUp(f, S, g), AddsUp(f, S, h)
  PROVE  \A s \in SUBSET S : g[s] = h[s]
<1> DEFINE Good == {s \in SUBSET S : g[s] = h[s]}
<1>1. ASSUME NEW s \in SUBSET S, \A u \in SUBSET s : u # s => u \in Good
      PROVE  s \in Good
  <2>1. CASE s = {}
    BY <2>1, AddsUpAt
  <2>2. CASE s # {}
    <3>1. PICK x : x = Summand(s)
      OBVIOUS
    <3>2. x \in s
      BY <2>2, <3>1, SummandIn
    <3>3. s \ {x} \in Good
      BY <1>1, <3>2
    <3>4. g[s] = f[x] + g[s \ {x}] /\ h[s] = f[x] + h[s \ {x}]
      BY <2>2, <3>1, AddsUpAt
    <3> QED
      BY <3>3, <3>4
  <2> QED
    BY <2>1, <2>2
<1>2. \A s \in SUBSET S : s \in Good
  <2> HIDE DEF Good
  <2> QED
    BY <1>1, SubsetInduction
<1> QED
  BY <1>2

(* What adds up on a set adds up on its subsets. *)
LEMMA AddsUpBelow ==
  ASSUME NEW f, NEW S, NEW g, AddsUp(f, S, g), NEW u \in SUBSET S
  PROVE  AddsUp(f, u, [s \in SUBSET u |-> g[s]])
<1> DEFINE h == [s \in SUBSET u |-> g[s]]
<1>1. ASSUME NEW s \in SUBSET u
      PROVE  h[s] = IF s = {} THEN 0 ELSE f[Summand(s)] + h[s \ {Summand(s)}]
  <2>1. s \in SUBSET S /\ s \ {Summand(s)} \in SUBSET u
    OBVIOUS
  <2>2. h[s] = g[s] /\ h[s \ {Summand(s)}] = g[s \ {Summand(s)}]
    BY <2>1
  <2> QED
    BY <2>1, <2>2, AddsUpAt
<1> QED
  BY <1>1, Zenon DEF AddsUp

(* The sum on a subset is what was added up there. *)
LEMMA SumBelow ==
  ASSUME NEW f, NEW S, IsFiniteSet(S), NEW g, AddsUp(f, S, g),
         NEW u \in SUBSET S
  PROVE  SumFunctionOnSet(f, u) = g[u]
<1> DEFINE h == [s \in SUBSET u |-> g[s]]
           chosen == CHOOSE k : AddsUp(f, u, k)
<1>1. AddsUp(f, u, h)
  BY AddsUpBelow
<1>2. AddsUp(f, u, chosen)
  BY <1>1, Zenon
<1>3. IsFiniteSet(u)
  BY FS_Subset
<1>4. u \in SUBSET u /\ h[u] = g[u]
  OBVIOUS
<1> HIDE DEF h, chosen
<1>5. chosen[u] = h[u]
  BY <1>1, <1>2, <1>3, <1>4, AddsUpOnce
<1> QED
  BY <1>4, <1>5, SumIs DEF chosen

(* Some function adds up on every finite set. *)
LEMMA AddsUpExists ==
  ASSUME NEW f, NEW S, IsFiniteSet(S)
  PROVE  \E g : AddsUp(f, S, g)
<1> DEFINE Good == {s \in SUBSET S : \E g : AddsUp(f, s, g)}
<1>1. ASSUME NEW s \in SUBSET S, \A u \in SUBSET s : u # s => u \in Good
      PROVE  s \in Good
  <2> DEFINE h == [u \in SUBSET s |->
                     IF u = {} THEN 0
                     ELSE f[Summand(u)] + SumFunctionOnSet(f, u \ {Summand(u)})]
  <2>1. ASSUME NEW u \in SUBSET s, u # s
        PROVE  h[u] = SumFunctionOnSet(f, u)
    <3>1. PICK g : AddsUp(f, u, g)
      BY <1>1, <2>1
    <3>2. IsFiniteSet(u)
      BY FS_Subset
    <3>3. u \in SUBSET u /\ u \ {Summand(u)} \in SUBSET u
      OBVIOUS
    <3>4. /\ SumFunctionOnSet(f, u) = g[u]
          /\ SumFunctionOnSet(f, u \ {Summand(u)}) = g[u \ {Summand(u)}]
      BY <3>1, <3>2, <3>3, SumBelow
    <3>5. /\ u = {} => g[u] = 0
          /\ u # {} => g[u] = f[Summand(u)] + g[u \ {Summand(u)}]
      BY <3>1, <3>3, AddsUpAt
    <3> QED
      BY <3>4, <3>5
  <2>2. ASSUME NEW u \in SUBSET s
        PROVE  h[u] = IF u = {} THEN 0
                      ELSE f[Summand(u)] + h[u \ {Summand(u)}]
    <3>1. CASE u = {}
      BY <3>1
    <3>2. CASE u # {}
      <4>1. Summand(u) \in u
        BY <3>2, SummandIn
      <4>2. u \ {Summand(u)} \in SUBSET s /\ u \ {Summand(u)} # s
        BY <4>1
      <4>3. h[u \ {Summand(u)}] = SumFunctionOnSet(f, u \ {Summand(u)})
        BY <2>1, <4>2
      <4>4. h[u] = f[Summand(u)] + SumFunctionOnSet(f, u \ {Summand(u)})
        BY <3>2
      <4> HIDE DEF h
      <4> QED
        BY <3>2, <4>3, <4>4
    <3> QED
      BY <3>1, <3>2
  <2>3. AddsUp(f, s, h)
    BY <2>2, Zenon DEF AddsUp
  <2> QED
    BY <2>3
<1>2. \A s \in SUBSET S : s \in Good
  <2> HIDE DEF Good
  <2> QED
    BY <1>1, SubsetInduction
<1> QED
  BY <1>2

(* The sum, unfolded at the element the definition takes first. *)
LEMMA SumUnfolds ==
  ASSUME NEW f, NEW S, IsFiniteSet(S)
  PROVE  /\ S = {} => SumFunctionOnSet(f, S) = 0
         /\ S # {} => SumFunctionOnSet(f, S)
                        = f[Summand(S)] + SumFunctionOnSet(f, S \ {Summand(S)})
<1>1. PICK g : AddsUp(f, S, g)
  BY AddsUpExists
<1>2. S \in SUBSET S /\ S \ {Summand(S)} \in SUBSET S
  OBVIOUS
<1>3. /\ SumFunctionOnSet(f, S) = g[S]
      /\ SumFunctionOnSet(f, S \ {Summand(S)}) = g[S \ {Summand(S)}]
  BY <1>1, <1>2, SumBelow
<1> QED
  BY <1>1, <1>2, <1>3, AddsUpAt

(* The sum of integers is an integer, of naturals a natural. *)
THEOREM SumType ==
  ASSUME NEW f, NEW S, IsFiniteSet(S)
  PROVE  /\ (\A x \in S : f[x] \in Int) => SumFunctionOnSet(f, S) \in Int
         /\ (\A x \in S : f[x] \in Nat) => SumFunctionOnSet(f, S) \in Nat
<1> DEFINE Good == {s \in SUBSET S :
                      /\ (\A x \in s : f[x] \in Int) => SumFunctionOnSet(f, s) \in Int
                      /\ (\A x \in s : f[x] \in Nat) => SumFunctionOnSet(f, s) \in Nat}
<1>1. ASSUME NEW s \in SUBSET S, \A u \in SUBSET s : u # s => u \in Good
      PROVE  s \in Good
  <2>1. IsFiniteSet(s)
    BY FS_Subset
  <2>2. CASE s = {}
    <3>1. SumFunctionOnSet(f, s) = 0
      BY <2>1, <2>2, SumUnfolds
    <3> QED
      BY <3>1
  <2>3. CASE s # {}
    <3>1. PICK x : x = Summand(s)
      OBVIOUS
    <3>2. x \in s
      BY <2>3, <3>1, SummandIn
    <3>3. s \ {x} \in Good
      BY <1>1, <3>2
    <3>4. PICK rest : rest = SumFunctionOnSet(f, s \ {x})
      OBVIOUS
    <3>5. SumFunctionOnSet(f, s) = f[x] + rest
      BY <2>1, <2>3, <3>1, <3>4, SumUnfolds
    <3> QED
      BY <3>2, <3>3, <3>4, <3>5
  <2> QED
    BY <2>2, <2>3
<1>2. \A s \in SUBSET S : s \in Good
  <2> HIDE DEF Good
  <2> QED
    BY <1>1, SubsetInduction
<1> QED
  BY <1>2

(* Any element can be taken out of the sum: the order does not matter. *)
THEOREM SumTakesOut ==
  ASSUME NEW f, NEW S, IsFiniteSet(S), \A x \in S : f[x] \in Int, NEW x \in S
  PROVE  SumFunctionOnSet(f, S) = f[x] + SumFunctionOnSet(f, S \ {x})
<1> DEFINE Good == {s \in SUBSET S :
                      \A y \in s : SumFunctionOnSet(f, s)
                                     = f[y] + SumFunctionOnSet(f, s \ {y})}
<1>1. ASSUME NEW s \in SUBSET S, \A u \in SUBSET s : u # s => u \in Good
      PROVE  s \in Good
  <2> SUFFICES ASSUME NEW y \in s
               PROVE  SumFunctionOnSet(f, s) = f[y] + SumFunctionOnSet(f, s \ {y})
    OBVIOUS
  <2>1. IsFiniteSet(s)
    BY FS_Subset
  <2>2. PICK z : z = Summand(s)
    OBVIOUS
  <2>3. z \in s /\ SumFunctionOnSet(f, s) = f[z] + SumFunctionOnSet(f, s \ {z})
    BY <2>1, <2>2, SummandIn, SumUnfolds
  <2>4. CASE y # z
    <3>1. SumFunctionOnSet(f, s \ {z})
            = f[y] + SumFunctionOnSet(f, (s \ {z}) \ {y})
      BY <1>1, <2>3, <2>4
    <3>2. SumFunctionOnSet(f, s \ {y})
            = f[z] + SumFunctionOnSet(f, (s \ {y}) \ {z})
      BY <1>1, <2>3, <2>4
    <3>3. (s \ {z}) \ {y} = (s \ {y}) \ {z}
      OBVIOUS
    <3>4. SumFunctionOnSet(f, (s \ {y}) \ {z}) \in Int
      BY <2>1, FS_RemoveElement, SumType
    <3>5. f[y] \in Int /\ f[z] \in Int
      BY <2>3
    <3>6. PICK rest \in Int : rest = SumFunctionOnSet(f, (s \ {y}) \ {z})
      BY <3>4
    <3>7. /\ SumFunctionOnSet(f, s \ {z}) = f[y] + rest
          /\ SumFunctionOnSet(f, s \ {y}) = f[z] + rest
      BY <3>1, <3>2, <3>3, <3>6
    <3>8. PICK fy \in Int, fz \in Int : fy = f[y] /\ fz = f[z]
      BY <3>5
    <3>9. SumFunctionOnSet(f, s) = fz + (fy + rest)
      BY <2>3, <3>7, <3>8
    <3> QED
      BY <3>7, <3>8, <3>9
  <2> QED
    BY <2>3, <2>4
<1>2. \A s \in SUBSET S : s \in Good
  <2> HIDE DEF Good
  <2> QED
    BY <1>1, SubsetInduction
<1> QED
  BY <1>2

(* Functions that agree on a set have the same sum there. *)
THEOREM SumAgrees ==
  ASSUME NEW f, NEW g, NEW S, IsFiniteSet(S), \A x \in S : f[x] = g[x]
  PROVE  SumFunctionOnSet(f, S) = SumFunctionOnSet(g, S)
<1> DEFINE Good == {s \in SUBSET S :
                      SumFunctionOnSet(f, s) = SumFunctionOnSet(g, s)}
<1>1. ASSUME NEW s \in SUBSET S, \A u \in SUBSET s : u # s => u \in Good
      PROVE  s \in Good
  <2>1. IsFiniteSet(s)
    BY FS_Subset
  <2>2. CASE s = {}
    BY <2>1, <2>2, SumUnfolds
  <2>3. CASE s # {}
    <3>1. PICK x : x = Summand(s)
      OBVIOUS
    <3>2. x \in s
      BY <2>3, <3>1, SummandIn
    <3>3. s \ {x} \in Good
      BY <1>1, <3>2
    <3>4. /\ SumFunctionOnSet(f, s) = f[x] + SumFunctionOnSet(f, s \ {x})
          /\ SumFunctionOnSet(g, s) = g[x] + SumFunctionOnSet(g, s \ {x})
      BY <2>1, <2>3, <3>1, SumUnfolds
    <3> QED
      BY <3>2, <3>3, <3>4
  <2> QED
    BY <2>2, <2>3
<1>2. \A s \in SUBSET S : s \in Good
  <2> HIDE DEF Good
  <2> QED
    BY <1>1, SubsetInduction
<1> QED
  BY <1>2

(* What one element contributes to the sum over S. *)
Share(f, S, x) == IF x \in S THEN f[x] ELSE 0

(* Two sums that differ in one element at most differ by its shares. *)
LEMMA SumChangesAt ==
  ASSUME NEW f, NEW S, IsFiniteSet(S), \A y \in S : f[y] \in Int,
         NEW g, NEW T, IsFiniteSet(T), \A y \in T : g[y] \in Int,
         NEW x, S \ {x} = T \ {x}, \A y \in S \ {x} : f[y] = g[y]
  PROVE  SumFunctionOnSet(g, T) - Share(g, T, x)
           = SumFunctionOnSet(f, S) - Share(f, S, x)
<1>1. /\ IsFiniteSet(S \ {x})
      /\ \A y \in S \ {x} : f[y] \in Int
  BY FS_Subset
<1>2. PICK rest \in Int : rest = SumFunctionOnSet(f, S \ {x})
  BY <1>1, SumType
<1>3. SumFunctionOnSet(g, T \ {x}) = rest
  BY <1>1, <1>2, SumAgrees
<1>4. SumFunctionOnSet(f, S) = Share(f, S, x) + rest
  <2>1. CASE x \in S
    BY <1>2, <2>1, SumTakesOut DEF Share
  <2>2. CASE x \notin S
    <3>1. S \ {x} = S
      BY <2>2
    <3>2. Share(f, S, x) = 0
      BY <2>2 DEF Share
    <3>3. SumFunctionOnSet(f, S) = rest
      BY <1>2, <3>1
    <3> QED
      BY <3>2, <3>3
  <2> QED
    BY <2>1, <2>2
<1>5. SumFunctionOnSet(g, T) = Share(g, T, x) + rest
  <2>1. CASE x \in T
    BY <1>3, <2>1, SumTakesOut DEF Share
  <2>2. CASE x \notin T
    <3>1. T \ {x} = T
      BY <2>2
    <3>2. Share(g, T, x) = 0
      BY <2>2 DEF Share
    <3>3. SumFunctionOnSet(g, T) = rest
      BY <1>3, <3>1
    <3> QED
      BY <3>2, <3>3
  <2> QED
    BY <2>1, <2>2
<1>6. PICK a \in Int, b \in Int : a = Share(f, S, x) /\ b = Share(g, T, x)
  BY DEF Share
<1> QED
  BY <1>2, <1>4, <1>5, <1>6
==============================================================================

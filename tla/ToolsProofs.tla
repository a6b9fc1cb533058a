----------------------------- MODULE ToolsProofs -----------------------------
(***************************************************************************)
(* What holds of the tools for every set of prices, quantities, amounts,   *)
(* item lists and thresholds: what goes through without a human is small,  *)
(* a token binds the amount that Stripe moves, the reconciler repeats the  *)
(* request of the call, and no call that comes with a token is asked for   *)
(* another one.                                                            *)
(*                                                                         *)
(* The first two are about sums: that the tools add up, item by item in    *)
(* the order of the call, what Stripe adds up when it executes, and that a *)
(* sum does not depend on the order.  The sums of the community modules    *)
(* are unfolded to recursive functions on finite sets, which are shown to  *)
(* exist by taking a smallest counterexample.                              *)
(***************************************************************************)
EXTENDS Tools, FiniteSetTheorems, SequenceTheorems, TLAPS

----------------------------------------------------------------------------
(* Recursion over finite sets: what the folds of the community modules are. *)

\* A set of finite sets has a smallest member.
LEMMA SmallestSet ==
  ASSUME NEW S, IsFiniteSet(S), NEW T, T \subseteq SUBSET S, T # {}
  PROVE  \E x \in T : \A y \in T : y \subseteq x => y = x
<1>1. IsWellFoundedOn(StrictSubsetOrdering(S), FiniteSubsetsOf(S))
  BY FS_StrictSubsetOrderingWellFounded
<1>2. T \subseteq FiniteSubsetsOf(S)
  BY FS_FiniteSubsetsOfFinite
<1>3. PICK x \in T : \A y \in T : <<y, x>> \notin StrictSubsetOrdering(S)
  BY <1>1, <1>2, WFMin
<1>4. ASSUME NEW y \in T, y \subseteq x, y # x PROVE FALSE
  <2>1. <<y, x>> \in StrictSubsetOrdering(S)
    BY <1>4 DEF StrictSubsetOrdering
  <2> QED
    BY <2>1, <1>3
<1> QED
  BY <1>4

\* h is defined on the subsets of S by recursion: base for the empty set, and from
\* the value without the element picked for any other.
Recursive(h, S, base, pick, F) ==
  h = [s \in SUBSET S |-> IF s = {} THEN base ELSE F[<<pick[s], h[s \ {pick[s]}]>>]]

\* Two such functions agree where both are defined.
LEMMA RecursiveUnique ==
  ASSUME NEW S, IsFiniteSet(S), NEW T \in SUBSET S, NEW U \in SUBSET S,
         NEW base, NEW pick, NEW F, \A s \in SUBSET S : s # {} => pick[s] \in s,
         NEW g, NEW h, Recursive(g, T, base, pick, F), Recursive(h, U, base, pick, F),
         NEW s \in SUBSET (T \cap U)
  PROVE  g[s] = h[s]
<1> DEFINE differ == {r \in SUBSET (T \cap U) : g[r] # h[r]}
<1> SUFFICES ASSUME differ # {} PROVE FALSE
  OBVIOUS
<1>1. differ \subseteq SUBSET S
  OBVIOUS
<1>2. PICK x \in differ : \A y \in differ : y \subseteq x => y = x
  <2> HIDE DEF differ
  <2> QED
    BY <1>1, SmallestSet
<1>3. x # {}
  BY DEF Recursive
<1>4. pick[x] \in x /\ x \ {pick[x]} \notin differ
  BY <1>1, <1>2, <1>3
<1>5. g[x \ {pick[x]}] = h[x \ {pick[x]}]
  BY <1>4
<1>6. g[x] = F[<<pick[x], g[x \ {pick[x]}]>>] /\ h[x] = F[<<pick[x], h[x \ {pick[x]}]>>]
  BY <1>3 DEF Recursive
<1> QED
  BY <1>5, <1>6

\* There is one, with values of the type of its step.
LEMMA RecursiveExists ==
  ASSUME NEW S, IsFiniteSet(S), NEW V, NEW base \in V, NEW pick, NEW F \in [S \X V -> V],
         \A s \in SUBSET S : s # {} => pick[s] \in s
  PROVE  \E h \in [SUBSET S -> V] : Recursive(h, S, base, pick, F)
<1> DEFINE Good(t, h) == h \in [SUBSET t -> V] /\ Recursive(h, t, base, pick, F)
           bad == {t \in SUBSET S : ~ \E h : Good(t, h)}
<1> SUFFICES ASSUME bad # {} PROVE FALSE
  OBVIOUS
<1>1. PICK t \in bad : \A y \in bad : y \subseteq t => y = t
  <2>1. bad \subseteq SUBSET S
    OBVIOUS
  <2> HIDE DEF bad
  <2> QED
    BY <2>1, SmallestSet
<1>2. t \in SUBSET S
  BY <1>1
<1> DEFINE H(u) == CHOOSE h : Good(u, h)
           Value(s) == IF s = {} THEN base
                       ELSE F[<<pick[s], H(s \ {pick[s]})[s \ {pick[s]}]>>]
           h == [s \in SUBSET t |-> Value(s)]
<1>3. ASSUME NEW u \in SUBSET t, u # t PROVE Good(u, H(u))
  <2>1. u \notin bad
    BY <1>1, <1>3
  <2>2. \E g : Good(u, g)
    BY <1>2, <2>1
  <2> HIDE DEF Good
  <2> QED
    BY <2>2
<1>4. ASSUME NEW u \in SUBSET t, u # t PROVE h[u] = H(u)[u] /\ h[u] \in V
  <2>1. Good(u, H(u))
    BY <1>3, <1>4
  <2>2. CASE u = {}
    <3> HIDE DEF H
    <3> QED
      BY <2>1, <2>2 DEF Recursive
  <2>3. CASE u # {}
    <3> DEFINE w == u \ {pick[u]}
    <3>1. pick[u] \in u /\ w \in SUBSET t /\ w # t
      BY <1>2, <2>3
    <3>2. Good(w, H(w))
      BY <1>3, <3>1
    <3>3. H(u)[w] = H(w)[w]
      <4>1. u \in SUBSET S /\ w \in SUBSET S /\ w \in SUBSET (u \cap w)
        BY <1>2
      <4>2. Recursive(H(u), u, base, pick, F) /\ Recursive(H(w), w, base, pick, F)
        BY <2>1, <3>2
      <4> HIDE DEF H, w
      <4> QED
        BY <4>1, <4>2, RecursiveUnique
    <3>4. H(u)[u] = F[<<pick[u], H(u)[w]>>]
      <4> HIDE DEF H
      <4> QED
        BY <2>1, <2>3 DEF Recursive
    <3>5. h[u] = F[<<pick[u], H(w)[w]>>]
      <4> HIDE DEF H
      <4> QED
        BY <2>3
    <3>6. H(u)[u] \in V
      <4> HIDE DEF H
      <4> QED
        BY <2>1
    <3> QED
      BY <3>3, <3>4, <3>5, <3>6
  <2> QED
    BY <2>2, <2>3
<1>5. ASSUME NEW s \in SUBSET t, s # {}
      PROVE  h[s] = F[<<pick[s], h[s \ {pick[s]}]>>] /\ h[s] \in V
  <2> DEFINE w == s \ {pick[s]}
  <2>1. pick[s] \in s /\ pick[s] \in S /\ w \in SUBSET t /\ w # t
    BY <1>2, <1>5
  <2>2. h[w] = H(w)[w] /\ h[w] \in V
    BY <1>4, <2>1
  <2>3. h[s] = F[<<pick[s], H(w)[w]>>]
    <3> HIDE DEF H
    <3> QED
      BY <1>5
  <2> HIDE DEF h, H
  <2> QED
    BY <2>1, <2>2, <2>3
<1>6. h[{}] = base
  OBVIOUS
<1>7. h = [s \in SUBSET t |-> h[s]]
  OBVIOUS
<1> HIDE DEF h
<1>8. Good(t, h)
  BY <1>5, <1>6, <1>7 DEF Recursive
<1> QED
  BY <1>1, <1>8

----------------------------------------------------------------------------
(* Sums.                                                                    *)

\* What SumFunction unfolds to.
Sums(f, h) ==
  h = [s \in SUBSET DOMAIN f |->
         IF s = {} THEN 0 ELSE LET x == CHOOSE x \in s : TRUE IN f[x] + h[s \ {x}]]

\* The sums over the subsets of a finite domain exist.
LEMMA SumsExist ==
  ASSUME NEW S, IsFiniteSet(S), NEW f \in [S -> Nat]
  PROVE  \E h \in [SUBSET S -> Nat] :
            /\ Sums(f, h)
            /\ Recursive(h, S, 0, [s \in SUBSET S |-> CHOOSE x \in s : TRUE],
                         [p \in S \X Nat |-> f[p[1]] + p[2]])
<1> DEFINE pick == [s \in SUBSET S |-> CHOOSE x \in s : TRUE]
           F == [p \in S \X Nat |-> f[p[1]] + p[2]]
<1>1. \A s \in SUBSET S : s # {} => pick[s] \in s
  OBVIOUS
<1>2. F \in [S \X Nat -> Nat]
  OBVIOUS
<1>3. PICK h \in [SUBSET S -> Nat] : Recursive(h, S, 0, pick, F)
  <2> HIDE DEF pick, F
  <2> QED
    BY <1>1, <1>2, RecursiveExists
<1>4. \A s \in SUBSET S : s # {} =>
         F[<<pick[s], h[s \ {pick[s]}]>>] = f[pick[s]] + h[s \ {pick[s]}]
  <2>1. ASSUME NEW s \in SUBSET S, s # {}
        PROVE  pick[s] \in S /\ h[s \ {pick[s]}] \in Nat
    <3> HIDE DEF pick
    <3> QED
      BY <1>1, <2>1
  <2> HIDE DEF pick
  <2> QED
    BY <2>1
<1>5. Sums(f, h)
  <2>1. h = [s \in SUBSET S |-> IF s = {} THEN 0 ELSE f[pick[s]] + h[s \ {pick[s]}]]
    <3> HIDE DEF pick, F
    <3> QED
      BY <1>3, <1>4 DEF Recursive
  <2> QED
    BY <2>1 DEF Sums
<1> QED
  BY <1>3, <1>5

\* A sum over a part of the domain is in the table of the whole.
LEMMA SumOfPart ==
  ASSUME NEW S, IsFiniteSet(S), NEW f \in [S -> Nat], NEW h, Sums(f, h), NEW T \in SUBSET S
  PROVE  SumFunction([x \in T |-> f[x]]) = h[T]
<1> DEFINE part == [x \in T |-> f[x]]
           g == CHOOSE g : Sums(part, g)
<1>1. IsFiniteSet(T) /\ part \in [T -> Nat]
  BY FS_Subset
<1>2. SumFunction(part) = g[T]
  BY DEF SumFunction, SumFunctionOnSet, FoldFunctionOnSet, MapThenFoldSet, Sums
<1>3. Sums(part, g)
  <2>1. \E k : Sums(part, k)
    <3> HIDE DEF part
    <3> QED
      BY <1>1, SumsExist
  <2> HIDE DEF part
  <2> QED
    BY <2>1
<1> DEFINE differ == {r \in SUBSET T : g[r] # h[r]}
<1> SUFFICES ASSUME differ # {} PROVE FALSE
  BY <1>2
<1>4. PICK x \in differ : \A y \in differ : y \subseteq x => y = x
  <2>1. differ \subseteq SUBSET T
    OBVIOUS
  <2> HIDE DEF differ
  <2> QED
    BY <1>1, <2>1, SmallestSet
<1> HIDE DEF g
<1>5. x # {}
  BY <1>3 DEF Sums
<1> DEFINE e == CHOOSE e \in x : TRUE
<1>6. e \in x /\ x \ {e} \notin differ /\ e \in T
  BY <1>4, <1>5
<1>7. g[x \ {e}] = h[x \ {e}]
  BY <1>6
<1>8. g[x] = part[e] + g[x \ {e}] /\ h[x] = f[e] + h[x \ {e}]
  BY <1>3, <1>5 DEF Sums
<1>9. part[e] = f[e]
  BY <1>6
<1> QED
  BY <1>7, <1>8, <1>9

\* A sum is a number; the empty one is 0; any term may be taken out of it.
LEMMA SumRules ==
  ASSUME NEW S, IsFiniteSet(S), NEW f \in [S -> Nat]
  PROVE  /\ SumFunction(f) \in Nat
         /\ S = {} => SumFunction(f) = 0
         /\ \A x \in S : /\ SumFunction([y \in S \ {x} |-> f[y]]) \in Nat
                         /\ SumFunction(f) = f[x] + SumFunction([y \in S \ {x} |-> f[y]])
<1>1. PICK h \in [SUBSET S -> Nat] : Sums(f, h)
  BY SumsExist
<1>2. f = [x \in S |-> f[x]]
  OBVIOUS
<1>3. SumFunction(f) = h[S]
  BY <1>1, <1>2, SumOfPart
<1>4. \A x \in S : SumFunction([y \in S \ {x} |-> f[y]]) = h[S \ {x}]
  BY <1>1, SumOfPart
<1>5. S = {} => h[S] = 0
  BY <1>1 DEF Sums
<1>6. \A x \in S : h[S] = f[x] + h[S \ {x}]
  <2> DEFINE bad == {s \in SUBSET S : \E x \in s : h[s] # f[x] + h[s \ {x}]}
  <2> SUFFICES ASSUME bad # {} PROVE FALSE
    OBVIOUS
  <2>1. PICK s \in bad : \A y \in bad : y \subseteq s => y = s
    <3>1. bad \subseteq SUBSET S
      OBVIOUS
    <3> HIDE DEF bad
    <3> QED
      BY <3>1, SmallestSet
  <2>2. PICK x \in s : h[s] # f[x] + h[s \ {x}]
    BY <2>1
  <2> DEFINE e == CHOOSE e \in s : TRUE
             rest == s \ {e}
             less == s \ {x}
             both == (s \ {e}) \ {x}
  <2>3. e \in s /\ s \in SUBSET S
    BY <2>1, <2>2
  <2>4. h[s] = f[e] + h[rest]
    BY <1>1, <2>2, <2>3 DEF Sums
  <2>5. x # e
    BY <2>2, <2>4
  <2>6. rest \notin bad /\ less \notin bad /\ x \in rest /\ e \in less
    BY <2>1, <2>2, <2>3, <2>5
  <2>7. rest \in SUBSET S /\ less \in SUBSET S /\ both \in SUBSET S /\ less \ {e} = both
    BY <2>3
  <2>8. h[rest] = f[x] + h[both]
    BY <2>6, <2>7
  <2>9. h[less] = f[e] + h[both]
    BY <2>6, <2>7
  <2>10. f[x] \in Nat /\ f[e] \in Nat /\ h[both] \in Nat
    BY <2>2, <2>3, <2>7
  <2> HIDE DEF e, rest, less, both
  <2>11. h[s] = f[x] + h[less]
    BY <2>4, <2>8, <2>9, <2>10
  <2> QED
    BY <2>2, <2>11 DEF less
<1> QED
  BY <1>3, <1>4, <1>5, <1>6

\* rest is f without its term x.
Takes(f, x, rest) ==
  /\ IsFiniteSet(DOMAIN f) /\ f \in [DOMAIN f -> Nat] /\ x \in DOMAIN f
  /\ rest \in [DOMAIN f \ {x} -> Nat] /\ \A y \in DOMAIN rest : rest[y] = f[y]

\* The same, for a rest that is given.
LEMMA SumTakes ==
  ASSUME NEW f, NEW x, NEW rest, Takes(f, x, rest)
  PROVE  SumFunction(f) = f[x] + SumFunction(rest) /\ SumFunction(rest) \in Nat
<1>1. rest = [y \in DOMAIN f \ {x} |-> f[y]]
  BY DEF Takes
<1> QED
  BY <1>1, SumRules DEF Takes

\* A sum does not depend on how its terms are named.
LEMMA SumRenamed ==
  ASSUME NEW S, IsFiniteSet(S), NEW T, NEW f \in [S -> Nat], NEW g \in [T -> Nat],
         NEW b \in Bijection(S, T), \A x \in S : f[x] = g[b[x]]
  PROVE  SumFunction(f) = SumFunction(g)
<1> DEFINE image(s) == {b[x] : x \in s}
           F(s) == SumFunction([x \in s |-> f[x]])
           G(s) == SumFunction([y \in image(s) |-> g[y]])
           bad == {s \in SUBSET S : F(s) # G(s)}
<1>1. /\ b \in [S -> T] /\ \A x, y \in S : b[x] = b[y] => x = y
      /\ \A y \in T : \E x \in S : b[x] = y
  BY DEF Bijection, Injection, Surjection, IsInjective
<1>2. image(S) = T
  BY <1>1
<1>3. \A s \in SUBSET S : IsFiniteSet(s) /\ IsFiniteSet(image(s)) /\ image(s) \subseteq T
  <2> TAKE s \in SUBSET S
  <2>1. IsFiniteSet(s)
    BY FS_Subset
  <2>2. IsFiniteSet(T)
    <3>1. ExistsBijection(S, T)
      BY DEF ExistsBijection
    <3> QED
      BY <3>1, FS_Bijection
  <2>3. image(s) \subseteq T
    BY <1>1
  <2> HIDE DEF image
  <2> QED
    BY <2>1, <2>2, <2>3, FS_Subset
<1>4. bad = {}
  <2> SUFFICES ASSUME bad # {} PROVE FALSE
    OBVIOUS
  <2>1. PICK s \in bad : \A y \in bad : y \subseteq s => y = s
    <3>1. bad \subseteq SUBSET S
      OBVIOUS
    <3> HIDE DEF bad
    <3> QED
      BY <3>1, SmallestSet
  <2>2. s \in SUBSET S /\ F(s) # G(s)
    BY <2>1
  <2> DEFINE fs == [x \in s |-> f[x]]
             gs == [y \in image(s) |-> g[y]]
  <2>3. fs \in [s -> Nat] /\ gs \in [image(s) -> Nat]
    BY <1>3, <2>2
  <2>4. s # {}
    <3>1. s = {} => image(s) = {}
      OBVIOUS
    <3> HIDE DEF image, fs, gs
    <3>2. SUFFICES ASSUME s = {} PROVE FALSE
      OBVIOUS
    <3>3. SumFunction(fs) = 0 /\ SumFunction(gs) = 0
      BY <1>3, <2>2, <2>3, <3>1, <3>2, SumRules
    <3> QED
      BY <2>2, <3>3 DEF fs, gs
  <2>5. PICK x \in s : TRUE
    BY <2>4
  <2>6. s \ {x} \notin bad /\ s \ {x} \in SUBSET S
    BY <2>1, <2>2
  <2>7. F(s \ {x}) = G(s \ {x})
    BY <2>6
  <2>8. b[x] \in image(s) /\ image(s \ {x}) = image(s) \ {b[x]} /\ g[b[x]] = f[x]
    BY <1>1, <2>2
  <2>9. F(s) = f[x] + F(s \ {x})
    <3> DEFINE less == [y \in s \ {x} |-> fs[y]]
    <3>1. SumFunction(fs) = fs[x] + SumFunction(less)
      <4>1. less \in [s \ {x} -> Nat] /\ \A y \in s \ {x} : less[y] = fs[y]
        BY <2>2
      <4> HIDE DEF fs, less
      <4> QED
        <5>1. IsFiniteSet(s) /\ x \in s /\ fs \in [s -> Nat]
          BY <1>3, <2>2, <2>3
        <5>2. Takes(fs, x, less)
          BY <4>1, <5>1 DEF Takes
        <5> QED
          BY <5>2, SumTakes
    <3>2. less = [y \in s \ {x} |-> f[y]] /\ fs[x] = f[x]
      OBVIOUS
    <3> HIDE DEF less
    <3> QED
      BY <3>1, <3>2
  <2>10. G(s) = g[b[x]] + G(s \ {x})
    <3> DEFINE less == [y \in image(s) \ {b[x]} |-> gs[y]]
    <3>1. SumFunction(gs) = gs[b[x]] + SumFunction(less)
      <4>1. /\ less \in [image(s) \ {b[x]} -> Nat]
            /\ \A y \in image(s) \ {b[x]} : less[y] = gs[y]
        BY <1>3, <2>2
      <4> HIDE DEF gs, less, image
      <4> QED
        <5>1. IsFiniteSet(image(s)) /\ b[x] \in image(s) /\ gs \in [image(s) -> Nat]
          BY <1>3, <2>2, <2>3, <2>8
        <5>2. Takes(gs, b[x], less)
          BY <4>1, <5>1 DEF Takes
        <5> QED
          BY <5>2, SumTakes
    <3>2. less = [y \in image(s \ {x}) |-> g[y]] /\ gs[b[x]] = g[b[x]]
      <4> HIDE DEF image
      <4> QED
        BY <2>8
    <3> HIDE DEF less
    <3> QED
      BY <3>1, <3>2
  <2> HIDE DEF F, G, bad
  <2> QED
    BY <2>2, <2>7, <2>8, <2>9, <2>10
<1>5. F(S) = G(S)
  BY <1>4
<1>6. f = [x \in S |-> f[x]] /\ g = [y \in T |-> g[y]]
  OBVIOUS
<1> HIDE DEF image
<1> QED
  BY <1>2, <1>5, <1>6

----------------------------------------------------------------------------
(* The projection of updateSubscription, item by item.                      *)

\* A set of numbers has a smallest member.
LEMMA SmallestNumber ==
  ASSUME NEW T, T \subseteq Nat, T # {}
  PROVE  \E x \in T : \A y \in T : x <= y
<1>1. PICK x \in T : \A y \in T : <<y, x>> \notin OpToRel(<, Nat)
  BY NatLessThanWellFounded, WFMin
<1>2. \A y \in T : ~(y < x)
  BY <1>1 DEF OpToRel
<1> QED
  BY <1>2

\* What a list of items goes through as FoldLeft goes through it.
Stages(items, sub, Acc, at) ==
  /\ at \in [0..Len(items) -> Acc]
  /\ at[0] = Unprojected(sub)
  /\ \A k \in 1..Len(items) : at[k] = ProjectItem(at[k - 1], items[k])
  /\ Project(items, sub) = at[Len(items)]

\* What FoldLeft unfolds to.
Folds(items, sub, h) ==
  h = [s \in SUBSET DOMAIN items |->
         IF s = {} THEN Unprojected(sub)
         ELSE LET x == Max(s) IN ProjectItem(h[s \ {x}], items[x])]

\* The stages exist, in any set of accumulators that the step does not leave.
LEMMA StagesExist ==
  ASSUME NEW Items, NEW items \in Seq(Items), NEW sub, NEW Acc, Unprojected(sub) \in Acc,
         \A acc \in Acc, item \in Items : ProjectItem(acc, item) \in Acc
  PROVE  \E at : Stages(items, sub, Acc, at)
<1> DEFINE D == 1..Len(items)
           pick == [s \in SUBSET D |-> Max(s)]
           F == [p \in D \X Acc |-> ProjectItem(p[2], items[p[1]])]
<1>1. Len(items) \in Nat /\ DOMAIN items = D /\ \A n \in D : items[n] \in Items
  OBVIOUS
<1>2. IsFiniteSet(D)
  BY <1>1, FS_Interval
<1>3. \A s \in SUBSET D : s # {} => Max(s) \in s
  <2> SUFFICES ASSUME NEW s \in SUBSET D, s # {} PROVE Max(s) \in s
    OBVIOUS
  <2> DEFINE above == {Len(items) - n : n \in s}
  <2>1. above \subseteq Nat /\ above # {}
    <3>1. \A n \in s : Len(items) - n \in Nat
      BY <1>1
    <3> QED
      BY <3>1
  <2>2. PICK a \in above : \A c \in above : a <= c
    <3> HIDE DEF above
    <3> QED
      BY <2>1, SmallestNumber
  <2>3. PICK n \in s : a = Len(items) - n
    BY <2>2
  <2>4. \A m \in s : n >= m
    <3> TAKE m \in s
    <3>1. Len(items) - n <= Len(items) - m
      BY <2>2, <2>3
    <3> QED
      BY <1>1, <3>1
  <2>5. \E x \in s : \A y \in s : x >= y
    BY <2>4
  <2> QED
    BY <2>5 DEF Max
<1>4. \A s \in SUBSET D : s # {} => pick[s] \in s /\ pick[s] = Max(s)
  BY <1>3
<1>5. F \in [D \X Acc -> Acc]
  BY <1>1
<1>6. PICK h \in [SUBSET D -> Acc] : Recursive(h, D, Unprojected(sub), pick, F)
  <2> HIDE DEF D, pick, F
  <2> QED
    BY <1>2, <1>4, <1>5, RecursiveExists
<1>7. \A s \in SUBSET D : s # {} =>
         F[<<pick[s], h[s \ {pick[s]}]>>] = ProjectItem(h[s \ {Max(s)}], items[Max(s)])
  <2>1. ASSUME NEW s \in SUBSET D, s # {}
        PROVE  pick[s] = Max(s) /\ Max(s) \in D /\ h[s \ {Max(s)}] \in Acc
    <3> HIDE DEF pick, D
    <3> QED
      BY <1>4, <2>1
  <2> HIDE DEF pick, D
  <2> QED
    BY <2>1
<1>8. Folds(items, sub, h)
  <2>1. h = [s \in SUBSET D |-> IF s = {} THEN Unprojected(sub)
                                ELSE ProjectItem(h[s \ {Max(s)}], items[Max(s)])]
    <3> HIDE DEF D, pick, F
    <3> QED
      BY <1>6, <1>7 DEF Recursive
  <2> QED
    BY <1>1, <2>1 DEF Folds
<1> DEFINE g == CHOOSE g : Folds(items, sub, g)
<1>9. Project(items, sub) = g[D]
  BY <1>1 DEF Project, FoldLeft, MapThenFoldSet, Folds
<1>10. Folds(items, sub, g)
  BY <1>8
<1> DEFINE at == [k \in 0..Len(items) |-> g[1..k]]
           differ == {k \in 0..Len(items) : g[1..k] # h[1..k]}
<1> HIDE DEF g, D, pick, F
<1>11. g[1..0] = Unprojected(sub) /\ h[1..0] = Unprojected(sub)
  BY <1>8, <1>10, <1>1 DEF Folds
<1>12. ASSUME NEW k \in 1..Len(items)
       PROVE  /\ g[1..k] = ProjectItem(g[1..(k - 1)], items[k])
              /\ h[1..k] = ProjectItem(h[1..(k - 1)], items[k])
  <2> k \in Nat /\ k >= 1
    BY <1>1
  <2>1. Max(1..k) = k
    <3>1. k \in 1..k /\ \A y \in 1..k : k >= y
      OBVIOUS
    <3>2. ASSUME NEW x \in 1..k, \A y \in 1..k : x >= y PROVE x = k
      <4>1. x >= k
        BY <3>1, <3>2
      <4> QED
        BY <4>1
    <3> QED
      BY <3>1, <3>2 DEF Max
  <2>2. 1..k \in SUBSET DOMAIN items /\ 1..k # {} /\ (1..k) \ {k} = 1..(k - 1)
    <3>1. 1..k \subseteq DOMAIN items
      BY <1>1 DEF D
    <3>2. \A n : n \in (1..k) \ {k} <=> n \in 1..(k - 1)
      OBVIOUS
    <3>3. (1..k) \ {k} = 1..(k - 1)
      BY <3>2
    <3>4. k \in 1..k
      OBVIOUS
    <3> QED
      BY <3>1, <3>3, <3>4
  <2> QED
    BY <2>1, <2>2, <1>8, <1>10 DEF Folds
<1>13. differ = {}
  <2> SUFFICES ASSUME differ # {} PROVE FALSE
    OBVIOUS
  <2>1. PICK k \in differ : \A j \in differ : k <= j
    <3>1. differ \subseteq Nat
      BY <1>1
    <3> HIDE DEF differ
    <3> QED
      BY <3>1, SmallestNumber
  <2>2. k # 0
    BY <2>1, <1>11
  <2>3. k \in 1..Len(items) /\ k - 1 \in 0..Len(items) /\ k - 1 \notin differ
    BY <1>1, <2>1, <2>2
  <2>4. g[1..(k - 1)] = h[1..(k - 1)]
    BY <2>3
  <2> QED
    BY <2>1, <2>3, <2>4, <1>12
<1>14. at \in [0..Len(items) -> Acc]
  <2>1. \A k \in 0..Len(items) : g[1..k] = h[1..k] /\ 1..k \in SUBSET D
    BY <1>1, <1>13 DEF D
  <2> QED
    BY <2>1
<1>15. \A k \in 1..Len(items) : at[k] = ProjectItem(at[k - 1], items[k])
  BY <1>1, <1>12
<1>16. at[0] = Unprojected(sub) /\ Project(items, sub) = at[Len(items)]
  BY <1>1, <1>9, <1>11 DEF D
<1> HIDE DEF at
<1> QED
  BY <1>14, <1>15, <1>16 DEF Stages

----------------------------------------------------------------------------
(* Fields: which are there, and with which values.                          *)

Requires(schema, field) == \A params \in schema : Has(params, field)
Allows(schema, field, values) ==
  \A params \in schema : Has(params, field) => params[field] \in values

\* A field that is not in a plain schema is not there.
LEMMA PlainAllows ==
  ASSUME NEW required, NEW optional, NEW field, field \notin required \cup optional, NEW values
  PROVE  Allows(Plain(required, optional), field, values)
BY DEF Allows, Plain, Has

\* With adds a field, and leaves the others as they are.
LEMMA WithAllows ==
  ASSUME NEW schema, NEW field, NEW values
  PROVE  /\ Requires(With(schema, field, values), field)
         /\ Allows(With(schema, field, values), field, values)
         /\ \A other : other # field /\ Requires(schema, other)
                          => Requires(With(schema, field, values), other)
         /\ \A other, range : other # field /\ Allows(schema, other, range)
                                 => Allows(With(schema, field, values), other, range)
<1>1. ASSUME NEW params \in With(schema, field, values)
      PROVE  \E p \in schema, v \in values :
               /\ DOMAIN params = DOMAIN p \cup {field}
               /\ params[field] = v
               /\ \A other \in DOMAIN p : other # field => params[other] = p[other]
  <2>1. PICK p \in schema, v \in values : params = Put(p, field, v)
    BY <1>1 DEF With
  <2>2. /\ DOMAIN params = DOMAIN p \cup {field}
        /\ params[field] = v
        /\ \A other \in DOMAIN p : other # field => params[other] = p[other]
    BY <2>1 DEF Put
  <2> QED
    BY <2>2
<1>2. Requires(With(schema, field, values), field)
  BY <1>1 DEF Requires, Has
<1>3. Allows(With(schema, field, values), field, values)
  BY <1>1 DEF Allows
<1>4. ASSUME NEW other, other # field, Requires(schema, other)
      PROVE  Requires(With(schema, field, values), other)
  BY <1>1, <1>4 DEF Requires, Has
<1>5. ASSUME NEW other, NEW range, other # field, Allows(schema, other, range)
      PROVE  Allows(With(schema, field, values), other, range)
  BY <1>1, <1>5 DEF Allows, Has
<1> QED
  BY <1>2, <1>3, <1>4, <1>5

\* Maybe adds it to some.
LEMMA MaybeAllows ==
  ASSUME NEW schema, NEW field, NEW values
  PROVE  /\ Allows(schema, field, values) => Allows(Maybe(schema, field, values), field, values)
         /\ \A other : other # field /\ Requires(schema, other)
                          => Requires(Maybe(schema, field, values), other)
         /\ \A other, range : other # field /\ Allows(schema, other, range)
                                 => Allows(Maybe(schema, field, values), other, range)
BY WithAllows DEF Requires, Allows, Maybe

\* What an item of a new subscription has.
LEMMA ItemFields ==
  /\ Requires(SubscriptionItemSchema, "price")
  /\ Allows(SubscriptionItemSchema, "price", Prices)
  /\ Allows(SubscriptionItemSchema, "quantity", Quantities)
  /\ Allows(SubscriptionItemSchema, "id", {})
  /\ Allows(SubscriptionItemSchema, "deleted", {})
<1> DEFINE P == Plain({}, {})
           W == With(P, "price", Prices)
<1>1. \A field, values : Allows(P, field, values)
  BY PlainAllows
<1>2. /\ Requires(W, "price") /\ Allows(W, "price", Prices)
      /\ Allows(W, "quantity", Quantities) /\ Allows(W, "id", {}) /\ Allows(W, "deleted", {})
  BY <1>1, WithAllows
<1> HIDE DEF W
<1>3. SubscriptionItemSchema = Maybe(W, "quantity", Quantities)
  BY DEF SubscriptionItemSchema, W
<1> QED
  BY <1>2, <1>3, MaybeAllows

\* What a change of an item has.
LEMMA ChangeFields ==
  ASSUME NEW item \in SubscriptionChangeSchema
  PROVE  /\ Has(item, "price") /\ item.price \in Prices
         /\ Has(item, "quantity") => item.quantity \in Quantities
         /\ Has(item, "id") => item.id \in ItemIds
         /\ Has(item, "deleted") => Has(item, "id")
<1> DEFINE I == SubscriptionItemSchema
           M == Maybe(I, "id", ItemIds)
           D == Maybe(M, "deleted", {TRUE})
<1>1. Allows(I, "id", ItemIds)
  BY ItemFields DEF Allows
<1>2. /\ Requires(M, "price") /\ Allows(M, "price", Prices)
      /\ Allows(M, "quantity", Quantities) /\ Allows(M, "id", ItemIds)
  BY <1>1, ItemFields, MaybeAllows
<1> HIDE DEF I, M
<1>3. /\ Requires(D, "price") /\ Allows(D, "price", Prices)
      /\ Allows(D, "quantity", Quantities) /\ Allows(D, "id", ItemIds)
  BY <1>2, MaybeAllows
<1> HIDE DEF D
<1>4. item \in D /\ ("deleted" \in DOMAIN item => "id" \in DOMAIN item)
  BY DEF SubscriptionChangeSchema, D, M, I
<1> QED
  BY <1>3, <1>4 DEF Requires, Allows, Has

\* An item of a new subscription is a change without id.
LEMMA ItemIsChange ==
  ASSUME NEW item \in SubscriptionItemSchema
  PROVE  item \in SubscriptionChangeSchema /\ ~Has(item, "id") /\ ~Has(item, "deleted")
<1>1. ~Has(item, "id") /\ ~Has(item, "deleted")
  BY ItemFields DEF Allows
<1>2. item \in Maybe(Maybe(SubscriptionItemSchema, "id", ItemIds), "deleted", {TRUE})
  BY DEF Maybe
<1> QED
  BY <1>1, <1>2 DEF SubscriptionChangeSchema, Has

----------------------------------------------------------------------------
(* The worth of a subscription after an update.                             *)

\* The items of a subscription, or of none.
Subs == UNION {[ids -> Entries] : ids \in SUBSET ItemIds}
Changes == Seq(SubscriptionChangeSchema)
Accs == [kept : Subs, added : Changes, unknown : BOOLEAN]

Named(items) == {n \in DOMAIN items : Has(items[n], "id")}
Legal(items, sub) ==
  /\ \A n \in Named(items) : items[n].id \in DOMAIN sub
  /\ \A n, m \in Named(items) : items[n].id = items[m].id => n = m

\* After k items: the ids named, what is left of the old items and what has come.
Ids(items, k) == {items[n].id : n \in {m \in 1..k : Has(items[m], "id")}}
Left(items, sub, k) ==
  [i \in DOMAIN sub \ Ids(items, k) |-> UnitAmount[sub[i].price] * sub[i].quantity]
Live(items, k) == {n \in 1..k : ~Has(items[n], "deleted")}
NewQuantity(items, sub, n) ==
  Quantity(items[n], IF Has(items[n], "id") THEN sub[items[n].id].quantity ELSE 1)
Came(items, sub, k) ==
  [n \in Live(items, k) |-> UnitAmount[items[n].price] * NewQuantity(items, sub, n)]
Values(entries) ==
  [n \in DOMAIN entries |-> UnitAmount[entries[n].price] * Quantity(entries[n], 1)]

\* Amounts are numbers.
LEMMA ProductIsNat ==
  ASSUME NEW price \in Prices, NEW quantity \in Quantities \cup {1}
  PROVE  UnitAmount[price] * quantity \in Nat
BY ToolsAssumption

\* A subscription has finitely many items, with prices and quantities.
LEMMA SubsAreFinite ==
  ASSUME NEW sub \in Subs
  PROVE  /\ IsFiniteSet(DOMAIN sub) /\ DOMAIN sub \subseteq ItemIds
         /\ sub = [i \in DOMAIN sub |-> sub[i]]
         /\ \A i \in DOMAIN sub : /\ sub[i] \in Entries /\ sub[i].price \in Prices
                                  /\ sub[i].quantity \in Quantities
                                  /\ Has(sub[i], "quantity")
<1>1. PICK ids \in SUBSET ItemIds : sub \in [ids -> Entries]
  BY DEF Subs
<1>2. IsFiniteSet(ids)
  BY ToolsAssumption, FS_Subset
<1> QED
  BY <1>1, <1>2 DEF Entries, Has

\* The values of the items of a subscription and of a list are numbers.
LEMMA ValuesAreNat ==
  /\ \A sub \in Subs : Values(sub) \in [DOMAIN sub -> Nat]
  /\ \A items \in Changes : /\ Values(items) \in [DOMAIN items -> Nat]
                            /\ IsFiniteSet(DOMAIN items) /\ DOMAIN items = 1..Len(items)
                            /\ Len(items) \in Nat
<1>1. ASSUME NEW sub \in Subs PROVE Values(sub) \in [DOMAIN sub -> Nat]
  <2>1. \A i \in DOMAIN sub : UnitAmount[sub[i].price] * Quantity(sub[i], 1) \in Nat
    BY SubsAreFinite, ProductIsNat DEF Quantity
  <2> QED
    BY <2>1 DEF Values
<1>2. ASSUME NEW items \in Changes
      PROVE  /\ Values(items) \in [DOMAIN items -> Nat]
             /\ IsFiniteSet(DOMAIN items) /\ DOMAIN items = 1..Len(items)
             /\ Len(items) \in Nat
  <2>1. Len(items) \in Nat /\ DOMAIN items = 1..Len(items)
        /\ \A n \in DOMAIN items : items[n] \in SubscriptionChangeSchema
    BY DEF Changes
  <2>2. \A n \in DOMAIN items : UnitAmount[items[n].price] * Quantity(items[n], 1) \in Nat
    BY <2>1, ChangeFields, ProductIsNat DEF Quantity
  <2>3. IsFiniteSet(1..Len(items))
    BY <2>1, FS_Interval
  <2> QED
    BY <2>1, <2>2, <2>3 DEF Values
<1> QED
  BY <1>1, <1>2

\* What is left and what has come are numbers.
LEMMA TermsAreNat ==
  ASSUME NEW items \in Changes, NEW sub \in Subs, Legal(items, sub), NEW k \in 0..Len(items)
  PROVE  /\ Left(items, sub, k) \in [DOMAIN sub \ Ids(items, k) -> Nat]
         /\ Came(items, sub, k) \in [Live(items, k) -> Nat]
         /\ IsFiniteSet(DOMAIN sub \ Ids(items, k)) /\ IsFiniteSet(Live(items, k))
<1>1. Len(items) \in Nat /\ DOMAIN items = 1..Len(items) /\ IsFiniteSet(DOMAIN items)
  BY ValuesAreNat
<1>2. \A n \in 1..k : n \in DOMAIN items /\ items[n] \in SubscriptionChangeSchema
  BY <1>1 DEF Changes
<1>3. \A i \in DOMAIN sub : UnitAmount[sub[i].price] * sub[i].quantity \in Nat
  BY SubsAreFinite, ProductIsNat
<1>4. ASSUME NEW n \in 1..k
      PROVE  UnitAmount[items[n].price] * NewQuantity(items, sub, n) \in Nat
  <2>1. items[n] \in SubscriptionChangeSchema
    BY <1>2
  <2>2. Has(items[n], "id") => items[n].id \in DOMAIN sub
    BY <1>2 DEF Legal, Named
  <2>3. NewQuantity(items, sub, n) \in Quantities \cup {1}
    BY <2>1, <2>2, ChangeFields, SubsAreFinite DEF NewQuantity, Quantity
  <2> QED
    BY <2>1, <2>3, ChangeFields, ProductIsNat
<1>5. IsFiniteSet(DOMAIN sub \ Ids(items, k))
  BY SubsAreFinite, FS_Subset
<1>6. IsFiniteSet(Live(items, k))
  <2>1. Live(items, k) \subseteq DOMAIN items
    BY <1>2 DEF Live
  <2> QED
    BY <1>1, <2>1, FS_Subset
<1>7. Left(items, sub, k) \in [DOMAIN sub \ Ids(items, k) -> Nat]
  BY <1>3 DEF Left
<1>8. Came(items, sub, k) \in [Live(items, k) -> Nat]
  BY <1>4 DEF Came, Live
<1> QED
  BY <1>5, <1>6, <1>7, <1>8

\* The step stays within the accumulators.
LEMMA ProjectItemType ==
  ASSUME NEW acc \in Accs, NEW item \in SubscriptionChangeSchema
  PROVE  ProjectItem(acc, item) \in Accs
<1>1. acc.kept \in Subs /\ acc.added \in Changes /\ acc.unknown \in BOOLEAN
      /\ acc = [kept |-> acc.kept, added |-> acc.added, unknown |-> acc.unknown]
  BY DEF Accs
<1>2. CASE ~Has(item, "id")
  <2>1. Append(acc.added, item) \in Changes
    BY <1>1 DEF Changes
  <2> QED
    BY <1>1, <1>2, <2>1 DEF ProjectItem, Accs
<1>3. CASE Has(item, "id") /\ item.id \notin DOMAIN acc.kept
  BY <1>1, <1>3 DEF ProjectItem, Accs
<1>4. CASE Has(item, "id") /\ item.id \in DOMAIN acc.kept /\ Has(item, "deleted")
  <2>1. Omit(acc.kept, {item.id}) \in Subs
    <3>1. PICK ids \in SUBSET ItemIds : acc.kept \in [ids -> Entries]
      BY <1>1 DEF Subs
    <3>2. Omit(acc.kept, {item.id}) \in [ids \ {item.id} -> Entries]
      BY <3>1 DEF Omit, Restrict
    <3>3. ids \ {item.id} \in SUBSET ItemIds
      OBVIOUS
    <3> QED
      BY <3>2, <3>3 DEF Subs
  <2>2. ProjectItem(acc, item) = [acc EXCEPT !.kept = Omit(acc.kept, {item.id})]
    BY <1>4 DEF ProjectItem
  <2> QED
    BY <1>1, <2>1, <2>2 DEF Accs
<1>5. CASE Has(item, "id") /\ item.id \in DOMAIN acc.kept /\ ~Has(item, "deleted")
  <2> DEFINE i == item.id
             new == [price |-> item.price, quantity |-> Quantity(item, acc.kept[i].quantity)]
             kept == [acc.kept EXCEPT ![i] = new]
  <2>1. new \in Entries
    <3>1. acc.kept[i].quantity \in Quantities
      BY <1>1, <1>5, SubsAreFinite
    <3> QED
      BY <3>1, ChangeFields DEF Entries, Quantity
  <2>2. kept \in Subs
    <3>1. PICK ids \in SUBSET ItemIds : acc.kept \in [ids -> Entries]
      BY <1>1 DEF Subs
    <3> HIDE DEF new
    <3>2. kept \in [ids -> Entries]
      BY <2>1, <3>1
    <3> QED
      BY <3>2 DEF Subs
  <2>3. ProjectItem(acc, item) = [kept |-> kept, added |-> acc.added, unknown |-> acc.unknown]
    BY <1>1, <1>5 DEF ProjectItem
  <2> HIDE DEF kept
  <2> QED
    BY <1>1, <2>2, <2>3 DEF Accs
<1> QED
  BY <1>2, <1>3, <1>4, <1>5

\* After k items the projection is worth what is left of the subscription and what
\* has come, and holds these.
Along(items, sub, acc, k) ==
  /\ ItemsValue(acc.kept) + ItemsValue(acc.added)
       = SumFunction(Left(items, sub, k)) + SumFunction(Came(items, sub, k))
  /\ \A i \in DOMAIN sub \ Ids(items, k) : i \in DOMAIN acc.kept /\ acc.kept[i] = sub[i]
  /\ \A n \in Live(items, k) :
       IF Has(items[n], "id")
       THEN items[n].id \in DOMAIN acc.kept /\ acc.kept[items[n].id].price = items[n].price
       ELSE \E j \in DOMAIN acc.added : acc.added[j] = items[n]

\* It is so at the start.
LEMMA AlongStarts ==
  ASSUME NEW items \in Changes, NEW sub \in Subs, Legal(items, sub)
  PROVE  Along(items, sub, Unprojected(sub), 0)
<1>1. Ids(items, 0) = {} /\ Live(items, 0) = {}
  BY DEF Ids, Live
<1>2. ItemsValue(sub) = SumFunction(Left(items, sub, 0))
  <2>1. \A i \in DOMAIN sub : Quantity(sub[i], 1) = sub[i].quantity
    BY SubsAreFinite DEF Quantity
  <2>2. Left(items, sub, 0)
          = [i \in DOMAIN sub |-> UnitAmount[sub[i].price] * Quantity(sub[i], 1)]
    BY <1>1, <2>1 DEF Left
  <2> QED
    BY <2>2 DEF ItemsValue
<1>3. ItemsValue(<<>>) = 0 /\ SumFunction(Came(items, sub, 0)) = 0
  <2>1. <<>> \in Changes /\ DOMAIN <<>> = {}
    BY DEF Changes
  <2>2. Values(<<>>) \in [{} -> Nat] /\ IsFiniteSet({})
    BY <2>1, ValuesAreNat, FS_EmptySet
  <2>3. SumFunction(Values(<<>>)) = 0
    BY <2>2, SumRules
  <2>4. Len(items) \in Nat
    BY ValuesAreNat
  <2>5. Came(items, sub, 0) \in [{} -> Nat]
    <3>1. 0 \in 0..Len(items)
      BY <2>4
    <3> QED
      BY <1>1, <3>1, TermsAreNat
  <2>6. SumFunction(Came(items, sub, 0)) = 0
    BY <2>2, <2>5, SumRules
  <2> QED
    BY <2>3, <2>6 DEF ItemsValue, Values
<1>4. Unprojected(sub).kept = sub /\ Unprojected(sub).added = <<>>
  BY DEF Unprojected
<1>5. ItemsValue(sub) \in Nat
  BY SubsAreFinite, ValuesAreNat, SumRules DEF ItemsValue, Values
<1> QED
  BY <1>1, <1>2, <1>3, <1>4, <1>5 DEF Along

\* Every item keeps it so: a new one is appended, a deleted one goes, and another
\* takes the place of the one it names, which nothing before has touched.
LEMMA AlongGoesOn ==
  ASSUME NEW items \in Changes, NEW sub \in Subs, Legal(items, sub), NEW k \in 1..Len(items),
         NEW acc \in Accs, Along(items, sub, acc, k - 1)
  PROVE  Along(items, sub, ProjectItem(acc, items[k]), k)
<1> DEFINE item == items[k]
           id == item.id
           next == ProjectItem(acc, item)
           left == SumFunction(Left(items, sub, k - 1))
           came == SumFunction(Came(items, sub, k - 1))
           left2 == SumFunction(Left(items, sub, k))
           came2 == SumFunction(Came(items, sub, k))
           worth == UnitAmount[item.price] * NewQuantity(items, sub, k)
           old == UnitAmount[sub[id].price] * sub[id].quantity
<1>1. /\ Len(items) \in Nat /\ DOMAIN items = 1..Len(items) /\ k \in Nat /\ k >= 1
      /\ k \in DOMAIN items /\ k - 1 \in 0..Len(items) /\ k \in 0..Len(items)
      /\ 1..k = (1..(k - 1)) \cup {k} /\ k \notin 1..(k - 1) /\ 1..k \subseteq DOMAIN items
  BY ValuesAreNat
<1>2. item \in SubscriptionChangeSchema
  BY <1>1 DEF Changes
<1>3. next \in Accs
  BY <1>2, ProjectItemType
<1>4. /\ acc.kept \in Subs /\ acc.added \in Changes
      /\ acc = [kept |-> acc.kept, added |-> acc.added, unknown |-> acc.unknown]
  BY DEF Accs
<1>5. /\ ItemsValue(acc.kept) \in Nat /\ ItemsValue(acc.added) \in Nat
      /\ left \in Nat /\ came \in Nat /\ left2 \in Nat /\ came2 \in Nat
  <2>1. ItemsValue(acc.kept) \in Nat
    BY <1>4, SubsAreFinite, ValuesAreNat, SumRules DEF ItemsValue, Values
  <2>2. ItemsValue(acc.added) \in Nat
    BY <1>4, ValuesAreNat, SumRules DEF ItemsValue, Values
  <2>3. left \in Nat /\ came \in Nat
    BY <1>1, TermsAreNat, SumRules
  <2>4. left2 \in Nat /\ came2 \in Nat
    BY <1>1, TermsAreNat, SumRules
  <2> QED
    BY <2>1, <2>2, <2>3, <2>4
<1>6. ItemsValue(acc.kept) + ItemsValue(acc.added) = left + came
  BY DEF Along
<1>7. ASSUME ~Has(item, "deleted")
      PROVE  Live(items, k) = Live(items, k - 1) \cup {k} /\ came2 = worth + came /\ worth \in Nat
  <2>1. Live(items, k) = Live(items, k - 1) \cup {k} /\ k \notin Live(items, k - 1)
    BY <1>1, <1>7 DEF Live
  <2>2. /\ Came(items, sub, k - 1) \in [Live(items, k) \ {k} -> Nat]
        /\ \A n \in Live(items, k) \ {k} : Came(items, sub, k - 1)[n] = Came(items, sub, k)[n]
    <3>1. Came(items, sub, k - 1) \in [Live(items, k - 1) -> Nat]
      BY <1>1, TermsAreNat
    <3>2. Live(items, k) \ {k} = Live(items, k - 1)
      BY <2>1
    <3> QED
      BY <3>1, <3>2 DEF Came
  <2>3. Came(items, sub, k)[k] = worth
    BY <2>1 DEF Came
  <2>4. Came(items, sub, k) \in [Live(items, k) -> Nat] /\ IsFiniteSet(Live(items, k))
        /\ k \in Live(items, k)
    BY <1>1, <2>1, TermsAreNat
  <2>5. SumFunction(Came(items, sub, k))
          = Came(items, sub, k)[k] + SumFunction(Came(items, sub, k - 1))
    <3>1. Takes(Came(items, sub, k), k, Came(items, sub, k - 1))
      BY <2>2, <2>4 DEF Takes
    <3> QED
      BY <3>1, SumTakes
  <2> QED
    BY <2>1, <2>3, <2>4, <2>5
<1>8. ASSUME Has(item, "id")
      PROVE  /\ Ids(items, k) = Ids(items, k - 1) \cup {id} /\ id \notin Ids(items, k - 1)
             /\ id \in DOMAIN sub /\ id \in DOMAIN acc.kept /\ acc.kept[id] = sub[id]
             /\ left = old + left2 /\ old \in Nat
             /\ \A n \in 1..(k - 1) : Has(items[n], "id") => items[n].id # id
  <2>1. id \in DOMAIN sub
    BY <1>1, <1>8 DEF Legal, Named
  <2>2. \A n \in 1..(k - 1) : Has(items[n], "id") => items[n].id # id
    BY <1>1, <1>8 DEF Legal, Named
  <2>3. Ids(items, k) = Ids(items, k - 1) \cup {id}
    BY <1>1, <1>8 DEF Ids
  <2>4. id \notin Ids(items, k - 1)
    BY <2>2 DEF Ids
  <2> DEFINE D == DOMAIN sub \ Ids(items, k - 1)
  <2>5. id \in D /\ DOMAIN sub \ Ids(items, k) = D \ {id}
    BY <2>1, <2>3, <2>4
  <2>6. /\ Left(items, sub, k) \in [D \ {id} -> Nat]
        /\ \A i \in D \ {id} : Left(items, sub, k)[i] = Left(items, sub, k - 1)[i]
    <3>1. Left(items, sub, k) \in [D \ {id} -> Nat]
      BY <1>1, <2>5, TermsAreNat
    <3> QED
      BY <2>5, <3>1 DEF Left
  <2>7. Left(items, sub, k - 1)[id] = old
    BY <2>5 DEF Left
  <2>8. Left(items, sub, k - 1) \in [D -> Nat] /\ IsFiniteSet(D)
    BY <1>1, TermsAreNat
  <2> HIDE DEF D
  <2>9. SumFunction(Left(items, sub, k - 1))
          = Left(items, sub, k - 1)[id] + SumFunction(Left(items, sub, k))
    <3>1. Takes(Left(items, sub, k - 1), id, Left(items, sub, k))
      BY <2>5, <2>6, <2>8 DEF Takes
    <3> QED
      BY <3>1, SumTakes
  <2>10. id \in DOMAIN acc.kept /\ acc.kept[id] = sub[id]
    BY <2>1, <2>4 DEF Along
  <2>11. Left(items, sub, k - 1)[id] \in Nat
    BY <2>5, <2>8
  <2> QED
    BY <2>1, <2>2, <2>3, <2>4, <2>7, <2>9, <2>10, <2>11
<1> HIDE DEF left, came, left2, came2, worth, old, item
<1>9. CASE ~Has(item, "id")
  <2>1. ~Has(item, "deleted")
    BY <1>2, <1>9, ChangeFields
  <2>2. Ids(items, k) = Ids(items, k - 1)
    BY <1>1, <1>9 DEF Ids, item
  <2>3. left2 = left
    BY <2>2 DEF left, left2, Left
  <2>4. next.kept = acc.kept /\ next.added = Append(acc.added, item)
    BY <1>4, <1>9 DEF ProjectItem
  <2> DEFINE size == Len(acc.added)
             longer == Append(acc.added, item)
  <2>5. /\ size \in Nat /\ DOMAIN acc.added = 1..size /\ DOMAIN longer = 1..(size + 1)
        /\ longer[size + 1] = item /\ \A j \in 1..size : longer[j] = acc.added[j]
        /\ longer \in Changes
    BY <1>2, <1>4 DEF Changes
  <2> HIDE DEF longer, size
  <2>6. ItemsValue(longer) = worth + ItemsValue(acc.added)
    <3>1. Values(longer) \in [DOMAIN longer -> Nat] /\ IsFiniteSet(DOMAIN longer)
      BY <2>5, ValuesAreNat
    <3>2. size + 1 \in DOMAIN longer /\ DOMAIN longer \ {size + 1} = 1..size
      BY <2>5
    <3>3. /\ Values(acc.added) \in [DOMAIN longer \ {size + 1} -> Nat]
          /\ \A j \in DOMAIN longer \ {size + 1} : Values(acc.added)[j] = Values(longer)[j]
      <4>1. Values(acc.added) \in [DOMAIN longer \ {size + 1} -> Nat]
        BY <1>4, <2>5, <3>2, ValuesAreNat
      <4> QED
        BY <2>5, <3>2, <4>1 DEF Values
    <3>4. Values(longer)[size + 1] = worth
      <4>1. NewQuantity(items, sub, k) = Quantity(item, 1)
        BY <1>9 DEF NewQuantity, item
      <4> QED
        BY <2>5, <3>2, <4>1 DEF Values, worth
    <3>5. SumFunction(Values(longer))
            = Values(longer)[size + 1] + SumFunction(Values(acc.added))
      <4>1. Takes(Values(longer), size + 1, Values(acc.added))
        BY <3>1, <3>2, <3>3 DEF Takes
      <4> QED
        BY <4>1, SumTakes
    <3> QED
      BY <3>4, <3>5 DEF ItemsValue, Values
  <2>7. ItemsValue(next.kept) + ItemsValue(next.added) = left2 + came2
    <3>1. ItemsValue(next.kept) = ItemsValue(acc.kept)
      BY <2>4
    <3>2. ItemsValue(next.added) = worth + ItemsValue(acc.added)
      BY <2>4, <2>6 DEF longer
    <3>3. came2 = worth + came /\ worth \in Nat
      BY <1>7, <2>1
    <3> HIDE DEF next
    <3> QED
      BY <1>5, <1>6, <2>3, <3>1, <3>2, <3>3
  <2>8. \A i \in DOMAIN sub \ Ids(items, k) : i \in DOMAIN next.kept /\ next.kept[i] = sub[i]
    BY <2>2, <2>4 DEF Along
  <2>9. ASSUME NEW n \in Live(items, k)
        PROVE  IF Has(items[n], "id")
               THEN /\ items[n].id \in DOMAIN next.kept
                    /\ next.kept[items[n].id].price = items[n].price
               ELSE \E j \in DOMAIN next.added : next.added[j] = items[n]
    <3>1. CASE n = k
      <4>1. size + 1 \in DOMAIN longer /\ longer[size + 1] = items[n]
        BY <2>5, <3>1 DEF item
      <4> QED
        BY <1>9, <2>4, <3>1, <4>1 DEF item, longer
    <3>2. CASE n # k
      <4>1. n \in Live(items, k - 1)
        BY <1>7, <2>1, <3>2
      <4>2. CASE Has(items[n], "id")
        BY <2>4, <4>1, <4>2 DEF Along
      <4>3. CASE ~Has(items[n], "id")
        <5>1. PICK j \in DOMAIN acc.added : acc.added[j] = items[n]
          BY <4>1, <4>3 DEF Along
        <5>2. j \in DOMAIN longer /\ longer[j] = items[n]
          BY <2>5, <5>1
        <5> QED
          BY <2>4, <4>3, <5>2 DEF longer
      <4> QED
        BY <4>2, <4>3
    <3> QED
      BY <3>1, <3>2
  <2> QED
    BY <2>7, <2>8, <2>9 DEF Along, left2, came2, item
<1>10. CASE Has(item, "id") /\ Has(item, "deleted")
  <2>1. Live(items, k) = Live(items, k - 1)
    BY <1>1, <1>10 DEF Live, item
  <2>2. came2 = came
    BY <2>1 DEF came, came2, Came
  <2> DEFINE fewer == Omit(acc.kept, {id})
  <2>3. next.kept = fewer /\ next.added = acc.added
    BY <1>4, <1>8, <1>10 DEF ProjectItem
  <2>4. DOMAIN fewer = DOMAIN acc.kept \ {id} /\ \A i \in DOMAIN fewer : fewer[i] = acc.kept[i]
    BY DEF Omit, Restrict
  <2> HIDE DEF fewer, next
  <2>5. ItemsValue(acc.kept) = old + ItemsValue(fewer) /\ ItemsValue(fewer) \in Nat
    <3>1. Values(acc.kept) \in [DOMAIN acc.kept -> Nat] /\ IsFiniteSet(DOMAIN acc.kept)
          /\ id \in DOMAIN acc.kept
      BY <1>4, <1>8, <1>10, ValuesAreNat, SubsAreFinite
    <3>2. /\ Values(fewer) \in [DOMAIN acc.kept \ {id} -> Nat]
          /\ \A i \in DOMAIN acc.kept \ {id} : Values(fewer)[i] = Values(acc.kept)[i]
      <4>1. fewer \in Subs
        BY <1>3, <2>3 DEF Accs
      <4>2. Values(fewer) \in [DOMAIN acc.kept \ {id} -> Nat]
        BY <2>4, <4>1, ValuesAreNat
      <4> QED
        BY <2>4, <4>2 DEF Values
    <3>3. Values(acc.kept)[id] = old
      <4>1. Quantity(sub[id], 1) = sub[id].quantity
        BY <1>8, <1>10, SubsAreFinite DEF Quantity
      <4> QED
        BY <1>8, <1>10, <3>1, <4>1 DEF Values, old
    <3>4. SumFunction(Values(acc.kept))
            = Values(acc.kept)[id] + SumFunction(Values(fewer)) /\ SumFunction(Values(fewer)) \in Nat
      <4>1. Takes(Values(acc.kept), id, Values(fewer))
        BY <3>1, <3>2 DEF Takes
      <4> QED
        BY <4>1, SumTakes
    <3> QED
      BY <3>3, <3>4 DEF ItemsValue, Values
  <2>6. ItemsValue(next.kept) + ItemsValue(next.added) = left2 + came2
    <3>1. ItemsValue(next.kept) = ItemsValue(fewer) /\ ItemsValue(next.added) = ItemsValue(acc.added)
      BY <2>3
    <3>2. left = old + left2 /\ old \in Nat
      BY <1>8, <1>10
    <3> QED
      BY <1>5, <1>6, <2>2, <2>5, <3>1, <3>2
  <2>7. \A i \in DOMAIN sub \ Ids(items, k) : i \in DOMAIN next.kept /\ next.kept[i] = sub[i]
    BY <1>8, <1>10, <2>3, <2>4 DEF Along
  <2>8. ASSUME NEW n \in Live(items, k)
        PROVE  IF Has(items[n], "id")
               THEN /\ items[n].id \in DOMAIN next.kept
                    /\ next.kept[items[n].id].price = items[n].price
               ELSE \E j \in DOMAIN next.added : next.added[j] = items[n]
    <3>1. n \in Live(items, k - 1) /\ n \in 1..(k - 1)
      BY <2>1 DEF Live
    <3>2. CASE Has(items[n], "id")
      <4>1. items[n].id # id
        BY <1>8, <1>10, <3>1, <3>2
      <4> QED
        BY <2>3, <2>4, <3>1, <3>2, <4>1 DEF Along
    <3>3. CASE ~Has(items[n], "id")
      BY <2>3, <3>1, <3>3 DEF Along
    <3> QED
      BY <3>2, <3>3
  <2> QED
    BY <2>6, <2>7, <2>8 DEF Along, left2, came2, next, item
<1>11. CASE Has(item, "id") /\ ~Has(item, "deleted")
  <2> DEFINE new == [price |-> item.price, quantity |-> Quantity(item, sub[id].quantity)]
             other == [acc.kept EXCEPT ![id] = new]
  <2>1. next.kept = other /\ next.added = acc.added
    BY <1>4, <1>8, <1>11 DEF ProjectItem
  <2>2. /\ DOMAIN other = DOMAIN acc.kept /\ other[id] = new
        /\ \A i \in DOMAIN other : i # id => other[i] = acc.kept[i]
    BY <1>8, <1>11
  <2>3. new.price = item.price /\ new.quantity = Quantity(item, sub[id].quantity)
        /\ Quantity(new, 1) = new.quantity
    BY DEF Quantity, Has
  <2>4. other \in Subs
    BY <1>3, <2>1 DEF Accs
  <2> HIDE DEF other, new, next
  <2>10. PICK rest : rest = [i \in DOMAIN acc.kept \ {id} |-> Values(acc.kept)[i]]
    OBVIOUS
  <2>5. ItemsValue(acc.kept) = old + SumFunction(rest) /\ SumFunction(rest) \in Nat
    <3>1. Values(acc.kept) \in [DOMAIN acc.kept -> Nat] /\ IsFiniteSet(DOMAIN acc.kept)
          /\ id \in DOMAIN acc.kept
      BY <1>4, <1>8, <1>11, ValuesAreNat, SubsAreFinite
    <3>2. /\ rest \in [DOMAIN acc.kept \ {id} -> Nat]
          /\ \A i \in DOMAIN acc.kept \ {id} : rest[i] = Values(acc.kept)[i]
      BY <2>10, <3>1
    <3>3. Values(acc.kept)[id] = old
      <4>1. Quantity(sub[id], 1) = sub[id].quantity
        BY <1>8, <1>11, SubsAreFinite DEF Quantity
      <4> QED
        BY <1>8, <1>11, <3>1, <4>1 DEF Values, old
    <3>4. SumFunction(Values(acc.kept)) = Values(acc.kept)[id] + SumFunction(rest)
          /\ SumFunction(rest) \in Nat
      <4>1. Takes(Values(acc.kept), id, rest)
        BY <3>1, <3>2 DEF Takes
      <4> QED
        BY <4>1, SumTakes
    <3> QED
      BY <3>3, <3>4 DEF ItemsValue, Values
  <2>6. ItemsValue(other) = worth + SumFunction(rest)
    <3>1. Values(other) \in [DOMAIN other -> Nat] /\ IsFiniteSet(DOMAIN other)
          /\ id \in DOMAIN other
      BY <1>8, <1>11, <2>2, <2>4, ValuesAreNat, SubsAreFinite
    <3>2. /\ rest \in [DOMAIN other \ {id} -> Nat]
          /\ \A i \in DOMAIN other \ {id} : rest[i] = Values(other)[i]
      <4>1. \A i \in DOMAIN other \ {id} : rest[i] = Values(other)[i]
        BY <2>2, <2>10 DEF Values
      <4>2. DOMAIN rest = DOMAIN other \ {id}
        BY <2>2, <2>10
      <4>3. rest = [i \in DOMAIN rest |-> rest[i]]
        BY <2>10
      <4> QED
        BY <3>1, <4>1, <4>2, <4>3
    <3>3. Values(other)[id] = worth
      <4>1. NewQuantity(items, sub, k) = Quantity(item, sub[id].quantity)
        BY <1>11 DEF NewQuantity, item
      <4> QED
        BY <2>2, <2>3, <3>1, <4>1 DEF Values, worth
    <3>4. SumFunction(Values(other)) = Values(other)[id] + SumFunction(rest)
      <4>1. Takes(Values(other), id, rest)
        BY <3>1, <3>2 DEF Takes
      <4> QED
        BY <4>1, SumTakes
    <3> QED
      BY <3>3, <3>4 DEF ItemsValue, Values
  <2>7. ItemsValue(next.kept) + ItemsValue(next.added) = left2 + came2
    <3>1. ItemsValue(next.kept) = ItemsValue(other) /\ ItemsValue(next.added) = ItemsValue(acc.added)
      BY <2>1
    <3>2. left = old + left2 /\ old \in Nat
      BY <1>8, <1>11
    <3>3. came2 = worth + came /\ worth \in Nat
      BY <1>7, <1>11
    <3> DEFINE r == SumFunction(rest)
    <3>4. r \in Nat /\ ItemsValue(acc.kept) = old + r /\ ItemsValue(other) = worth + r
      BY <2>5, <2>6
    <3> HIDE DEF r
    <3>5. r + ItemsValue(acc.added) = left2 + came
      <4>1. ItemsValue(acc.kept) + ItemsValue(acc.added) = left + came
        BY <1>6
      <4>2. left = old + left2 /\ ItemsValue(acc.kept) = old + r
        BY <3>2, <3>4
      <4>3. /\ ItemsValue(acc.added) \in Nat /\ came \in Nat /\ left2 \in Nat
            /\ old \in Nat /\ r \in Nat
        BY <1>5, <3>2, <3>4
      <4>4. (old + r) + ItemsValue(acc.added) = (old + left2) + came
        BY <4>1, <4>2
      <4> QED
        BY <4>3, <4>4
    <3> QED
      BY <1>5, <3>1, <3>3, <3>4, <3>5
  <2>8. \A i \in DOMAIN sub \ Ids(items, k) : i \in DOMAIN next.kept /\ next.kept[i] = sub[i]
    BY <1>8, <1>11, <2>1, <2>2 DEF Along
  <2>9. ASSUME NEW n \in Live(items, k)
        PROVE  IF Has(items[n], "id")
               THEN /\ items[n].id \in DOMAIN next.kept
                    /\ next.kept[items[n].id].price = items[n].price
               ELSE \E j \in DOMAIN next.added : next.added[j] = items[n]
    <3>1. CASE n = k
      BY <1>8, <1>11, <2>1, <2>2, <2>3, <3>1 DEF item
    <3>2. CASE n # k
      <4>1. n \in Live(items, k - 1) /\ n \in 1..(k - 1)
        BY <1>7, <1>11, <3>2 DEF Live
      <4>2. CASE Has(items[n], "id")
        <5>1. items[n].id # id
          BY <1>8, <1>11, <4>1, <4>2
        <5> QED
          BY <2>1, <2>2, <4>1, <4>2, <5>1 DEF Along
      <4>3. CASE ~Has(items[n], "id")
        BY <2>1, <4>1, <4>3 DEF Along
      <4> QED
        BY <4>2, <4>3
    <3> QED
      BY <3>1, <3>2
  <2> QED
    BY <2>7, <2>8, <2>9 DEF Along, left2, came2, next, item
<1> QED
  BY <1>9, <1>10, <1>11

\* WorthAfter in the terms above.
LEMMA WorthUnfolds ==
  ASSUME NEW items \in Changes, NEW sub
  PROVE  WorthAfter(items, sub) =
           IF ~Legal(items, sub) THEN 0
           ELSE SumFunction([i \in DOMAIN sub \ Ids(items, Len(items)) |->
                               Worth(sub[i].price, sub[i].quantity)])
                + SumFunction([n \in Live(items, Len(items)) |->
                                 Worth(items[n].price, NewQuantity(items, sub, n))])
<1> DEFINE named == {n \in DOMAIN items : Has(items[n], "id")}
           Before(n) == IF n \in named THEN sub[items[n].id].quantity ELSE 1
<1>1. DOMAIN items = 1..Len(items)
  BY ValuesAreNat
<1>2. Ids(items, Len(items)) = {items[n].id : n \in named}
  BY <1>1 DEF Ids
<1>3. Live(items, Len(items)) = {m \in DOMAIN items : ~Has(items[m], "deleted")}
  BY <1>1 DEF Live
<1>4. \A n \in Live(items, Len(items)) : Quantity(items[n], Before(n)) = NewQuantity(items, sub, n)
  BY <1>3 DEF NewQuantity
<1>5. [n \in Live(items, Len(items)) |-> Worth(items[n].price, NewQuantity(items, sub, n))]
        = [n \in Live(items, Len(items)) |-> Worth(items[n].price, Quantity(items[n], Before(n)))]
  BY <1>4
<1> QED
  BY <1>2, <1>3, <1>5 DEF WorthAfter, Legal, Named

\* What a list of changes leaves of a subscription is worth what Stripe charges for
\* it, if the list is legal and no price is metered.
LEMMA ProjectionIsWorth ==
  ASSUME NEW items \in Changes, NEW sub \in Subs, Legal(items, sub),
         Priced(Project(items, sub).kept), Priced(Project(items, sub).added)
  PROVE  WorthAfter(items, sub)
           = ItemsValue(Project(items, sub).kept) + ItemsValue(Project(items, sub).added)
<1> DEFINE size == Len(items)
           end == Project(items, sub)
<1>1. size \in Nat /\ DOMAIN items = 1..size
  BY ValuesAreNat
<1>2. PICK at : Stages(items, sub, Accs, at)
  <2>1. Unprojected(sub) \in Accs
    <3>1. <<>> \in Changes
      BY DEF Changes
    <3> QED
      BY <3>1 DEF Unprojected, Accs
  <2> QED
    BY <2>1, ProjectItemType, StagesExist DEF Changes
<1>3. /\ at \in [0..size -> Accs] /\ at[0] = Unprojected(sub) /\ end = at[size]
      /\ \A k \in 1..size : at[k] = ProjectItem(at[k - 1], items[k])
  BY <1>2 DEF Stages
<1> DEFINE bad == {k \in 0..size : ~Along(items, sub, at[k], k)}
<1>4. bad = {}
  <2> SUFFICES ASSUME bad # {} PROVE FALSE
    OBVIOUS
  <2>1. PICK k \in bad : \A j \in bad : k <= j
    <3>1. bad \subseteq Nat
      BY <1>1
    <3> HIDE DEF bad
    <3> QED
      BY <3>1, SmallestNumber
  <2>2. k # 0
    BY <1>3, <2>1, AlongStarts
  <2>3. k \in 1..size /\ k - 1 \in 0..size /\ k - 1 \notin bad
    BY <1>1, <2>1, <2>2
  <2>4. Along(items, sub, at[k - 1], k - 1)
    BY <2>3
  <2>5. Along(items, sub, at[k], k)
    BY <1>3, <2>3, <2>4, AlongGoesOn
  <2> QED
    BY <2>1, <2>5
<1>5. Along(items, sub, end, size) /\ end \in Accs
  BY <1>1, <1>3, <1>4
<1> HIDE DEF end
<1>6. \A i \in DOMAIN sub \ Ids(items, size) : sub[i].price \notin Metered
  BY <1>5 DEF Along, Priced, Range, end
<1>7. ASSUME NEW n \in Live(items, size) PROVE items[n].price \notin Metered
  <2>1. CASE Has(items[n], "id")
    BY <1>5, <2>1 DEF Along, Priced, Range, end
  <2>2. CASE ~Has(items[n], "id")
    BY <1>5, <2>2 DEF Along, Priced, Range, end
  <2> QED
    BY <2>1, <2>2
<1>8. [i \in DOMAIN sub \ Ids(items, size) |-> Worth(sub[i].price, sub[i].quantity)]
        = Left(items, sub, size)
  BY <1>6 DEF Worth, Left
<1>9. [n \in Live(items, size) |-> Worth(items[n].price, NewQuantity(items, sub, n))]
        = Came(items, sub, size)
  BY <1>7 DEF Worth, Came
<1>10. WorthAfter(items, sub)
         = SumFunction(Left(items, sub, size)) + SumFunction(Came(items, sub, size))
  BY <1>8, <1>9, WorthUnfolds
<1> QED
  BY <1>5, <1>10 DEF Along, end

\* The empty list is worth nothing and changes nothing.
LEMMA NoChanges ==
  ASSUME NEW sub \in Subs
  PROVE  /\ <<>> \in Changes /\ Legal(<<>>, sub) /\ Priced(<<>>) /\ ItemsValue(<<>>) = 0
         /\ Project(<<>>, sub) = Unprojected(sub)
<1>1. <<>> \in Changes /\ DOMAIN <<>> = {} /\ Len(<<>>) = 0
  BY DEF Changes
<1>2. Legal(<<>>, sub) /\ Priced(<<>>)
  BY <1>1 DEF Legal, Named, Priced, Range
<1>3. ItemsValue(<<>>) = 0
  <2>1. Values(<<>>) \in [{} -> Nat] /\ IsFiniteSet({})
    BY <1>1, ValuesAreNat, FS_EmptySet
  <2> QED
    BY <2>1, SumRules DEF ItemsValue, Values
<1>4. Project(<<>>, sub) = Unprojected(sub)
  <2>1. Unprojected(sub) \in Accs
    BY <1>1 DEF Unprojected, Accs
  <2>2. PICK at : Stages(<<>>, sub, Accs, at)
    BY <1>1, <2>1, ProjectItemType, StagesExist DEF Changes
  <2> QED
    BY <1>1, <2>2 DEF Stages
<1> QED
  BY <1>1, <1>2, <1>3, <1>4

\* To cancel a subscription whose prices are known is worth what its items are.
LEMMA CancelledIsWorth ==
  ASSUME NEW sub \in Subs, Priced(sub)
  PROVE  WorthAfter(<<>>, sub) = ItemsValue(sub)
<1>1. Project(<<>>, sub).kept = sub /\ Project(<<>>, sub).added = <<>>
  BY NoChanges DEF Unprojected
<1>2. WorthAfter(<<>>, sub) = ItemsValue(sub) + 0
  BY <1>1, NoChanges, ProjectionIsWorth
<1>3. ItemsValue(sub) \in Nat
  BY SubsAreFinite, ValuesAreNat, SumRules DEF ItemsValue, Values
<1> QED
  BY <1>2, <1>3

\* A new subscription is worth what its items are.
LEMMA CreatedIsWorth ==
  ASSUME NEW items \in Seq(SubscriptionItemSchema), Priced(items)
  PROVE  WorthAfter(items, <<>>) = ItemsValue(items) /\ items \in Changes
<1>1. Len(items) \in Nat /\ DOMAIN items = 1..Len(items)
      /\ \A n \in 1..Len(items) : /\ items[n] \in SubscriptionChangeSchema
                                  /\ ~Has(items[n], "id") /\ ~Has(items[n], "deleted")
  BY ItemIsChange
<1>2. items \in Changes
  BY <1>1 DEF Changes
<1>3. Legal(items, <<>>)
  BY <1>1 DEF Legal, Named
<1>4. DOMAIN <<>> \ Ids(items, Len(items)) = {} /\ Live(items, Len(items)) = DOMAIN items
  BY <1>1 DEF Live
<1> DEFINE none == [i \in DOMAIN <<>> \ Ids(items, Len(items)) |->
                      Worth(<<>>[i].price, <<>>[i].quantity)]
<1>5. SumFunction(none) = 0
  <2>1. none \in [{} -> Nat] /\ IsFiniteSet({})
    BY <1>4, FS_EmptySet
  <2> HIDE DEF none
  <2> QED
    BY <2>1, SumRules
<1>6. [n \in Live(items, Len(items)) |-> Worth(items[n].price, NewQuantity(items, <<>>, n))]
        = Values(items)
  <2>1. ASSUME NEW n \in DOMAIN items
        PROVE  Worth(items[n].price, NewQuantity(items, <<>>, n))
                 = UnitAmount[items[n].price] * Quantity(items[n], 1)
    <3>1. NewQuantity(items, <<>>, n) = Quantity(items[n], 1)
      BY <1>1 DEF NewQuantity
    <3>2. items[n].price \notin Metered
      BY DEF Priced, Range
    <3> QED
      BY <3>1, <3>2 DEF Worth
  <2> QED
    BY <1>4, <2>1 DEF Values
<1>7. SumFunction(Values(items)) \in Nat
  BY <1>2, ValuesAreNat, SumRules
<1>8. WorthAfter(items, <<>>) = SumFunction(none) + SumFunction(Values(items))
  BY <1>2, <1>3, <1>6, WorthUnfolds
<1> HIDE DEF none
<1> QED
  BY <1>2, <1>5, <1>7, <1>8 DEF ItemsValue, Values

----------------------------------------------------------------------------
(* Parameters.  A schema yields functions whose fields it knows.            *)

Known(params, fields) ==
  /\ params = [f \in DOMAIN params |-> params[f]]
  /\ DOMAIN params \subseteq fields

Knows(schema, fields) == \A params \in schema : Known(params, fields)

\* A plain schema knows its required and its optional fields.
LEMMA PlainKnows ==
  ASSUME NEW required, NEW optional, NEW fields, required \cup optional \subseteq fields
  PROVE  Knows(Plain(required, optional), fields)
BY DEF Knows, Known, Plain

\* A field may be added to all calls if it is known.
LEMMA WithKnows ==
  ASSUME NEW schema, NEW fields, NEW field \in fields, NEW values, Knows(schema, fields)
  PROVE  Knows(With(schema, field, values), fields)
<1> SUFFICES ASSUME NEW params \in schema, NEW v \in values
             PROVE  Known(Put(params, field, v), fields)
  BY DEF Knows, With
<1>1. DOMAIN params \subseteq fields
  BY DEF Knows, Known
<1>2. DOMAIN Put(params, field, v) = DOMAIN params \cup {field}
  BY DEF Put
<1>3. Put(params, field, v) =
        [f \in DOMAIN Put(params, field, v) |-> Put(params, field, v)[f]]
  BY DEF Put
<1> QED
  BY <1>1, <1>2, <1>3 DEF Known

\* Or to some of them.
LEMMA MaybeKnows ==
  ASSUME NEW schema, NEW fields, NEW field \in fields, NEW values, Knows(schema, fields)
  PROVE  Knows(Maybe(schema, field, values), fields)
<1>1. Knows(With(schema, field, values), fields)
  BY WithKnows
<1> QED
  BY <1>1 DEF Knows, Maybe

\* Picking all fields there may be is taking the parameters as they are.
LEMMA PickAll ==
  ASSUME NEW params, NEW fields, Known(params, fields)
  PROVE  Pick(params, fields) = params
<1>1. DOMAIN params \cap fields = DOMAIN params
  BY DEF Known
<1> QED
  BY <1>1 DEF Known, Pick, Restrict

\* Picking some fields is omitting the others.
LEMMA PickIsOmit ==
  ASSUME NEW params, NEW picked, NEW omitted,
         Known(params, picked \cup omitted), picked \cap omitted = {}
  PROVE  Pick(params, picked) = Omit(params, omitted)
<1>1. DOMAIN params \cap picked = DOMAIN params \ omitted
  BY DEF Known
<1> QED
  BY <1>1 DEF Pick, Omit

\* The fields of each tool's parameters: those it sends, and those that name the
\* object.
Sends(tool) ==
  CASE tool \in {"create_customer", "update_customer"} ->
         {"email", "name", "description", "phone", "metadata"}
    [] tool = "create_payment_intent" ->
         {"amount", "currency", "customer", "description", "payment_method_types", "metadata"}
    [] tool = "confirm_payment_intent" -> {"payment_method"}
    [] tool = "cancel_payment_intent" -> {"cancellation_reason"}
    [] tool = "pay_invoice" -> {"payment_method", "forgive", "off_session"}
    [] tool = "create_subscription" ->
         {"customer", "items", "payment_behavior", "collection_method", "metadata"}
    [] tool = "update_subscription" ->
         {"items", "cancel_at_period_end", "proration_behavior", "metadata"}
    [] tool = "cancel_subscription" -> {"invoice_now", "prorate"}
    [] tool = "create_product" ->
         {"name", "description", "active", "images", "metadata", "default_price_data"}
    [] tool = "create_price" ->
         {"unit_amount", "currency", "product", "nickname", "metadata", "recurring"}
    [] tool = "create_refund" -> {"payment_intent", "charge", "amount", "reason", "metadata"}

\* No schema lets a field pass that neither is sent nor names the object.
LEMMA SchemasKnow ==
  /\ Knows(CreateCustomerSchema, Sends("create_customer"))
  /\ Knows(UpdateCustomerSchema, Sends("update_customer") \cup {"customer_id"})
  /\ Knows(CreatePaymentIntentSchema, Sends("create_payment_intent"))
  /\ Knows(ConfirmPaymentIntentSchema,
           Sends("confirm_payment_intent") \cup {"payment_intent_id"})
  /\ Knows(CancelPaymentIntentSchema,
           Sends("cancel_payment_intent") \cup {"payment_intent_id"})
  /\ Knows(PayInvoiceSchema, Sends("pay_invoice") \cup {"invoice_id"})
  /\ Knows(CreateSubscriptionSchema, Sends("create_subscription"))
  /\ Knows(UpdateSubscriptionSchema, Sends("update_subscription") \cup {"subscription_id"})
  /\ Knows(CancelSubscriptionSchema,
           Sends("cancel_subscription") \cup {"subscription_id", "cancel_at_period_end"})
  /\ Knows(CreateProductSchema, Sends("create_product"))
  /\ Knows(CreatePriceSchema, Sends("create_price"))
  /\ Knows(CreateRefundFields, Sends("create_refund"))
  /\ Knows(DeleteCustomerSchema, {"customer_id", "force"})
<1>1. Knows(CreateCustomerSchema, Sends("create_customer"))
  <2> DEFINE fields == Sends("create_customer")
  <2>1. Knows(Plain({}, {"email", "name", "description", "phone", "metadata"}), fields)
    BY PlainKnows DEF Sends
  <2> QED
    BY <2>1 DEF CreateCustomerSchema
<1>2. Knows(UpdateCustomerSchema, Sends("update_customer") \cup {"customer_id"})
  <2> DEFINE fields == Sends("update_customer") \cup {"customer_id"}
  <2>1. Knows(Plain({"customer_id"}, {"email", "name", "description", "phone", "metadata"}), fields)
    BY PlainKnows DEF Sends
  <2> QED
    BY <2>1 DEF UpdateCustomerSchema
<1>3. Knows(CreatePaymentIntentSchema, Sends("create_payment_intent"))
  <2> DEFINE fields == Sends("create_payment_intent")
  <2>1. Knows(Plain({"currency"}, {"customer", "description", "payment_method_types", "metadata"}), fields)
    BY PlainKnows DEF Sends
  <2>2. "amount" \in fields
    BY DEF Sends
  <2>3. SUFFICES Knows(CreatePaymentIntentSchema, fields)
    OBVIOUS
  <2> HIDE DEF fields
  <2> QED
    BY <2>1, <2>2, WithKnows DEF CreatePaymentIntentSchema
<1>4. Knows(ConfirmPaymentIntentSchema, Sends("confirm_payment_intent") \cup {"payment_intent_id"})
  <2> DEFINE fields == Sends("confirm_payment_intent") \cup {"payment_intent_id"}
  <2>1. Knows(Plain({"payment_intent_id"}, {"payment_method"}), fields)
    BY PlainKnows DEF Sends
  <2> QED
    BY <2>1 DEF ConfirmPaymentIntentSchema
<1>5. Knows(CancelPaymentIntentSchema, Sends("cancel_payment_intent") \cup {"payment_intent_id"})
  <2> DEFINE fields == Sends("cancel_payment_intent") \cup {"payment_intent_id"}
  <2>1. Knows(Plain({"payment_intent_id"}, {"cancellation_reason"}), fields)
    BY PlainKnows DEF Sends
  <2> QED
    BY <2>1 DEF CancelPaymentIntentSchema
<1>6. Knows(PayInvoiceSchema, Sends("pay_invoice") \cup {"invoice_id"})
  <2> DEFINE fields == Sends("pay_invoice") \cup {"invoice_id"}
  <2>1. Knows(Plain({"invoice_id"}, {"payment_method", "forgive", "off_session"}), fields)
    BY PlainKnows DEF Sends
  <2> QED
    BY <2>1 DEF PayInvoiceSchema
<1>7. Knows(CreateSubscriptionSchema, Sends("create_subscription"))
  <2> DEFINE fields == Sends("create_subscription")
  <2>1. Knows(Plain({"customer"}, {"payment_behavior", "collection_method", "metadata"}), fields)
    BY PlainKnows DEF Sends
  <2>2. "items" \in fields
    BY DEF Sends
  <2>3. SUFFICES Knows(CreateSubscriptionSchema, fields)
    OBVIOUS
  <2> HIDE DEF fields
  <2> QED
    BY <2>1, <2>2, WithKnows DEF CreateSubscriptionSchema
<1>8. Knows(UpdateSubscriptionSchema, Sends("update_subscription") \cup {"subscription_id"})
  <2> DEFINE fields == Sends("update_subscription") \cup {"subscription_id"}
  <2>1. Knows(Plain({"subscription_id"}, {"proration_behavior", "metadata"}), fields)
    BY PlainKnows DEF Sends
  <2>2. "cancel_at_period_end" \in fields /\ "items" \in fields
    BY DEF Sends
  <2>3. SUFFICES Knows(UpdateSubscriptionSchema, fields)
    OBVIOUS
  <2> HIDE DEF fields
  <2> QED
    BY <2>1, <2>2, MaybeKnows DEF UpdateSubscriptionSchema
<1>9. Knows(CancelSubscriptionSchema, Sends("cancel_subscription") \cup {"subscription_id", "cancel_at_period_end"})
  <2> DEFINE fields == Sends("cancel_subscription") \cup {"subscription_id", "cancel_at_period_end"}
  <2>1. Knows(Plain({"subscription_id"}, {"invoice_now", "prorate"}), fields)
    BY PlainKnows DEF Sends
  <2>2. "cancel_at_period_end" \in fields
    BY DEF Sends
  <2>3. SUFFICES Knows(CancelSubscriptionSchema, fields)
    OBVIOUS
  <2> HIDE DEF fields
  <2> QED
    BY <2>1, <2>2, MaybeKnows DEF CancelSubscriptionSchema
<1>10. Knows(CreateProductSchema, Sends("create_product"))
  <2> DEFINE fields == Sends("create_product")
  <2>1. Knows(Plain({"name"}, {"description", "active", "images", "metadata"}), fields)
    BY PlainKnows DEF Sends
  <2>2. "default_price_data" \in fields
    BY DEF Sends
  <2>3. SUFFICES Knows(CreateProductSchema, fields)
    OBVIOUS
  <2> HIDE DEF fields
  <2> QED
    BY <2>1, <2>2, MaybeKnows DEF CreateProductSchema
<1>11. Knows(CreatePriceSchema, Sends("create_price"))
  <2> DEFINE fields == Sends("create_price")
  <2>1. Knows(Plain({"currency", "product"}, {"recurring", "nickname", "metadata"}), fields)
    BY PlainKnows DEF Sends
  <2>2. "unit_amount" \in fields
    BY DEF Sends
  <2>3. SUFFICES Knows(CreatePriceSchema, fields)
    OBVIOUS
  <2> HIDE DEF fields
  <2> QED
    BY <2>1, <2>2, WithKnows DEF CreatePriceSchema
<1>12. Knows(CreateRefundFields, Sends("create_refund"))
  <2> DEFINE fields == Sends("create_refund")
  <2>1. Knows(Plain({}, {"reason", "metadata"}), fields)
    BY PlainKnows DEF Sends
  <2>2. "payment_intent" \in fields /\ "charge" \in fields /\ "amount" \in fields
    BY DEF Sends
  <2>3. SUFFICES Knows(CreateRefundFields, fields)
    OBVIOUS
  <2> HIDE DEF fields
  <2> QED
    BY <2>1, <2>2, MaybeKnows DEF CreateRefundFields
<1>13. Knows(DeleteCustomerSchema, {"customer_id", "force"})
  <2>1. Knows(Plain({"customer_id"}, {}), {"customer_id", "force"})
    BY PlainKnows
  <2> QED
    BY <2>1, WithKnows DEF DeleteCustomerSchema
<1> QED
  BY <1>1, <1>2, <1>3, <1>4, <1>5, <1>6, <1>7, <1>8, <1>9, <1>10, <1>11, <1>12, <1>13

----------------------------------------------------------------------------
(* Amounts: what a tool resolves covers what Stripe moves.                  *)

\* On the object the tool has seen, if it has looked at one, Stripe moves at most
\* the amount that is judged.
Covers(tool, params, seen, amount, request) ==
  /\ amount \in Nat
  /\ \A now \in Objects(tool, params) :
       Range(seen) \in {{}, {now}} => Effect(request, now) \in 0..amount

\* An amount that was read from the object has to cover that object only.
LEMMA CoversTheSeen ==
  ASSUME NEW tool, NEW params, NEW seen, NEW amount \in Nat, NEW request,
         Effect(request, seen) \in 0..amount
  PROVE  Covers(tool, params, <<seen>>, amount, request)
<1>1. \A now : Range(<<seen>>) \in {{}, {now}} => now = seen
  BY DEF Range
<1> QED
  BY <1>1 DEF Covers

\* What is picked keeps its value.
LEMMA PickKeeps ==
  ASSUME NEW params, NEW fields, NEW field \in fields
  PROVE  /\ Has(Pick(params, fields), field) <=> Has(params, field)
         /\ Has(params, field) => Pick(params, fields)[field] = params[field]
BY DEF Pick, Has, Restrict

\* The amounts a call may carry are numbers.
LEMMA AmountFields ==
  /\ \A params \in CreatePaymentIntentSchema : Has(params, "amount") /\ params.amount \in Nat
  /\ \A params \in CreatePriceSchema : Has(params, "unit_amount") /\ params.unit_amount \in Nat
  /\ \A params \in CreateProductSchema :
       Has(params, "default_price_data") => params.default_price_data.unit_amount \in Nat
  /\ \A params \in CreateRefundFields : Has(params, "amount") => params.amount \in Nat
<1>1. Amounts \subseteq Nat
  BY ToolsAssumption
<1>2. \A params \in CreatePaymentIntentSchema : Has(params, "amount") /\ params.amount \in Nat
  <2>1. /\ Requires(CreatePaymentIntentSchema, "amount")
        /\ Allows(CreatePaymentIntentSchema, "amount", Amounts \ {0})
    BY WithAllows DEF CreatePaymentIntentSchema
  <2> QED
    BY <1>1, <2>1 DEF Requires, Allows
<1>3. \A params \in CreatePriceSchema : Has(params, "unit_amount") /\ params.unit_amount \in Nat
  <2>1. /\ Requires(CreatePriceSchema, "unit_amount")
        /\ Allows(CreatePriceSchema, "unit_amount", Amounts)
    BY WithAllows DEF CreatePriceSchema
  <2> QED
    BY <1>1, <2>1 DEF Requires, Allows
<1>4. \A params \in CreateProductSchema :
        Has(params, "default_price_data") => params.default_price_data.unit_amount \in Nat
  <2>1. Requires(PriceData, "unit_amount") /\ Allows(PriceData, "unit_amount", Amounts)
    BY WithAllows DEF PriceData
  <2>2. \A data \in PriceData : data.unit_amount \in Nat
    BY <1>1, <2>1 DEF Requires, Allows
  <2> DEFINE P == Plain({"name"}, {"description", "active", "images", "metadata"})
  <2>3. Allows(P, "default_price_data", PriceData)
    BY PlainAllows
  <2> HIDE DEF P
  <2>4. Allows(CreateProductSchema, "default_price_data", PriceData)
    BY <2>3, MaybeAllows DEF CreateProductSchema, P
  <2> QED
    BY <2>2, <2>4 DEF Allows
<1>5. \A params \in CreateRefundFields : Has(params, "amount") => params.amount \in Nat
  <2> DEFINE P == Plain({}, {"reason", "metadata"})
             M == Maybe(P, "payment_intent", {"v"})
             N == Maybe(M, "charge", {"v"})
  <2>1. Allows(P, "amount", Amounts \ {0})
    BY PlainAllows
  <2> HIDE DEF P
  <2>2. Allows(M, "amount", Amounts \ {0})
    BY <2>1, MaybeAllows
  <2> HIDE DEF M
  <2>3. Allows(N, "amount", Amounts \ {0})
    BY <2>2, MaybeAllows
  <2> HIDE DEF N
  <2>4. Allows(CreateRefundFields, "amount", Amounts \ {0})
    BY <2>3, MaybeAllows DEF CreateRefundFields, N, M, P
  <2> QED
    BY <1>1, <2>4 DEF Allows
<1> QED
  BY <1>2, <1>3, <1>4, <1>5

\* The items a call may carry are lists of what the schema takes.
LEMMA ItemsFields ==
  /\ \A params \in CreateSubscriptionSchema :
       Has(params, "items") /\ params.items \in Seq(SubscriptionItemSchema)
  /\ \A params \in UpdateSubscriptionSchema : Has(params, "items") => params.items \in Changes
<1>1. ASSUME NEW items \in ItemLists, NEW Items, Range(items) \subseteq Items
      PROVE  items \in Seq(Items)
  <2>1. items \in Seq(Range(items))
    BY ToolsAssumption
  <2> HIDE DEF Range
  <2>2. /\ Len(items) \in Nat /\ items = [n \in 1..Len(items) |-> items[n]]
        /\ \A n \in 1..Len(items) : items[n] \in Items
    BY <1>1, <2>1
  <2> QED
    BY <2>2
<1>2. \A params \in CreateSubscriptionSchema :
        Has(params, "items") /\ params.items \in Seq(SubscriptionItemSchema)
  <2> DEFINE lists == {items \in ItemLists :
                         items # <<>> /\ Range(items) \subseteq SubscriptionItemSchema}
  <2>1. lists \subseteq Seq(SubscriptionItemSchema)
    BY <1>1
  <2> HIDE DEF lists
  <2>2. Requires(CreateSubscriptionSchema, "items") /\ Allows(CreateSubscriptionSchema, "items", lists)
    BY WithAllows DEF CreateSubscriptionSchema, lists
  <2> QED
    BY <2>1, <2>2 DEF Requires, Allows
<1>3. \A params \in UpdateSubscriptionSchema : Has(params, "items") => params.items \in Changes
  <2> DEFINE lists == {items \in ItemLists : Range(items) \subseteq SubscriptionChangeSchema}
             P == Plain({"subscription_id"}, {"proration_behavior", "metadata"})
             M == Maybe(P, "cancel_at_period_end", {TRUE})
  <2>1. lists \subseteq Changes
    BY <1>1 DEF Changes
  <2> HIDE DEF lists
  <2>2. Allows(P, "items", lists)
    BY PlainAllows
  <2> HIDE DEF P
  <2>3. Allows(M, "items", lists)
    BY <2>2, MaybeAllows
  <2> HIDE DEF M
  <2>4. Allows(UpdateSubscriptionSchema, "items", lists)
    BY <2>3, MaybeAllows DEF UpdateSubscriptionSchema, M, P, lists
  <2> QED
    BY <2>1, <2>4 DEF Allows
<1> QED
  BY <1>2, <1>3

\* Customers, payment intents and invoices: what is asked for is on the call or on
\* the object.
LEMMA PaymentsAreCovered ==
  /\ \A params \in CreatePaymentIntentSchema :
       Covers("create_payment_intent", params, <<>>, params.amount,
              Request("paymentIntents.create", Pick(params, Sends("create_payment_intent"))))
  /\ \A params, body : \A seen \in PaymentIntents :
       /\ Covers("confirm_payment_intent", params, <<seen>>, seen.amount,
                 Request("paymentIntents.confirm", body))
       /\ Covers("cancel_payment_intent", params, <<seen>>, seen.amount,
                 Request("paymentIntents.cancel", body))
  /\ \A params, body : \A seen \in Invoices :
       Covers("pay_invoice", params, <<seen>>, seen.amount_remaining,
              Request("invoices.pay", body))
<1>1. Amounts \subseteq Nat
  BY ToolsAssumption
<1>2. ASSUME NEW params \in CreatePaymentIntentSchema
      PROVE  Covers("create_payment_intent", params, <<>>, params.amount,
                    Request("paymentIntents.create",
                            Pick(params, Sends("create_payment_intent"))))
  <2>1. Has(params, "amount") /\ params.amount \in Nat
    BY AmountFields
  <2>2. Pick(params, Sends("create_payment_intent")).amount = params.amount
    BY <2>1, PickKeeps DEF Sends
  <2> QED
    BY <2>1, <2>2 DEF Covers, Effect, Request
<1>3. ASSUME NEW params, NEW seen \in PaymentIntents, NEW body
      PROVE  /\ Covers("confirm_payment_intent", params, <<seen>>, seen.amount,
                       Request("paymentIntents.confirm", body))
             /\ Covers("cancel_payment_intent", params, <<seen>>, seen.amount,
                       Request("paymentIntents.cancel", body))
  <2>1. seen.amount \in Nat
    BY <1>1 DEF PaymentIntents
  <2>2. /\ Effect(Request("paymentIntents.confirm", body), seen) = seen.amount
        /\ Effect(Request("paymentIntents.cancel", body), seen) = seen.amount
    BY DEF Effect, Request
  <2> QED
    BY <2>1, <2>2, CoversTheSeen
<1>4. ASSUME NEW params, NEW seen \in Invoices, NEW body
      PROVE  Covers("pay_invoice", params, <<seen>>, seen.amount_remaining,
                    Request("invoices.pay", body))
  <2>1. seen.amount_remaining \in Nat
    BY <1>1 DEF Invoices
  <2>2. Effect(Request("invoices.pay", body), seen) = seen.amount_remaining
    BY DEF Effect, Request
  <2> QED
    BY <2>1, <2>2, CoversTheSeen
<1> QED
  BY <1>2, <1>3, <1>4

\* Products and prices: the amount is on the call.
LEMMA PricesAreCovered ==
  /\ \A params \in CreateProductSchema :
       Covers("create_product", params, <<>>,
              IF Has(params, "default_price_data")
              THEN params.default_price_data.unit_amount ELSE 0,
              Request("products.create", Pick(params, Sends("create_product"))))
  /\ \A params \in CreatePriceSchema :
       Covers("create_price", params, <<>>, params.unit_amount,
              Request("prices.create", Pick(params, Sends("create_price"))))
<1>1. ASSUME NEW params \in CreateProductSchema
      PROVE  Covers("create_product", params, <<>>,
                    IF Has(params, "default_price_data")
                    THEN params.default_price_data.unit_amount ELSE 0,
                    Request("products.create", Pick(params, Sends("create_product"))))
  <2> DEFINE body == Pick(params, Sends("create_product"))
  <2>1. /\ Has(body, "default_price_data") <=> Has(params, "default_price_data")
        /\ Has(params, "default_price_data")
             => body.default_price_data = params.default_price_data
    BY PickKeeps DEF Sends
  <2>2. Has(params, "default_price_data") => params.default_price_data.unit_amount \in Nat
    BY AmountFields
  <2> HIDE DEF body
  <2>3. \A now : Effect(Request("products.create", body), now)
                   = IF Has(body, "default_price_data")
                     THEN body.default_price_data.unit_amount ELSE 0
    BY DEF Effect, Request
  <2> QED
    BY <2>1, <2>2, <2>3 DEF Covers, body
<1>2. ASSUME NEW params \in CreatePriceSchema
      PROVE  Covers("create_price", params, <<>>, params.unit_amount,
                    Request("prices.create", Pick(params, Sends("create_price"))))
  <2>1. Has(params, "unit_amount") /\ params.unit_amount \in Nat
    BY AmountFields
  <2>2. Pick(params, Sends("create_price")).unit_amount = params.unit_amount
    BY <2>1, PickKeeps DEF Sends
  <2> QED
    BY <2>1, <2>2 DEF Covers, Effect, Request
<1> QED
  BY <1>1, <1>2

\* A refund: what is named, or what remains of the charge that was seen.
LEMMA RefundIsCovered ==
  ASSUME NEW params \in CreateRefundFields, NEW seen \in Objects("create_refund", params)
  PROVE  Covers("create_refund", params, <<seen>>, RefundAmount(params, seen),
                Request("refunds.create", Pick(params, Sends("create_refund"))))
<1> DEFINE body == Pick(params, Sends("create_refund"))
<1>1. /\ Has(body, "charge") <=> Has(params, "charge")
      /\ Has(body, "amount") <=> Has(params, "amount")
      /\ Has(params, "amount") => body.amount = params.amount /\ params.amount \in Nat
  BY PickKeeps, AmountFields DEF Sends
<1> HIDE DEF body
<1>2. \A c \in Charges : RemainingOf(c) \in Nat
  <2> TAKE c \in Charges
  <2>1. c.amount \in Nat /\ c.refunded \in Nat /\ c.refunded <= c.amount
    BY ToolsAssumption DEF Charges
  <2> QED
    BY <2>1 DEF RemainingOf
<1>3. ASSUME NEW c \in Charges
      PROVE  /\ RefundedBy(body, c) \in Nat
             /\ Has(params, "amount") => RefundedBy(body, c) <= params.amount
             /\ ~Has(params, "amount") => RefundedBy(body, c) = RemainingOf(c)
  BY <1>1, <1>2 DEF RefundedBy
<1>4. RefundAmount(params, seen) \in Nat
      /\ Effect(Request("refunds.create", body), seen) \in 0..RefundAmount(params, seen)
  <2>1. CASE Has(params, "charge")
    <3>1. seen \in Charges
      BY <2>1 DEF Objects, Has
    <3>2. Effect(Request("refunds.create", body), seen) = RefundedBy(body, seen)
      BY <1>1, <2>1 DEF Effect, Request
    <3>3. RefundAmount(params, seen)
            = IF Has(params, "amount") THEN params.amount ELSE RemainingOf(seen)
      BY <2>1 DEF RefundAmount
    <3> QED
      BY <1>1, <1>2, <1>3, <3>1, <3>2, <3>3
  <2>2. CASE ~Has(params, "charge")
    <3>1. seen \in PaymentIntents
      BY <2>2 DEF Objects, Has
    <3> DEFINE refunds == [n \in DOMAIN seen.latest_charge |->
                             RefundedBy(body, seen.latest_charge[n])]
    <3>2. Effect(Request("refunds.create", body), seen) = SumFunction(refunds)
      BY <1>1, <2>2 DEF Effect, Request
    <3>3. CASE seen.latest_charge = <<>>
      <4>1. refunds \in [{} -> Nat] /\ IsFiniteSet({})
        BY <3>3, FS_EmptySet
      <4> HIDE DEF refunds
      <4>2. SumFunction(refunds) = 0
        BY <4>1, SumRules
      <4>3. seen.amount \in Nat
        BY <3>1, ToolsAssumption DEF PaymentIntents
      <4> QED
        BY <1>1, <2>2, <3>2, <3>3, <4>2, <4>3 DEF RefundAmount
    <3>4. CASE seen.latest_charge # <<>>
      <4>1. PICK c \in Charges : seen.latest_charge = <<c>>
        BY <3>1, <3>4 DEF PaymentIntents
      <4>2. refunds \in [{1} -> Nat] /\ refunds[1] = RefundedBy(body, c) /\ IsFiniteSet({1})
        BY <1>3, <4>1, FS_Singleton
      <4> HIDE DEF refunds
      <4>3. PICK rest : rest = [n \in {1} \ {1} |-> refunds[n]]
        OBVIOUS
      <4>4. SumFunction(rest) = 0
        <5>1. rest \in [{} -> Nat] /\ IsFiniteSet({})
          BY <4>3, FS_EmptySet
        <5> QED
          BY <5>1, SumRules
      <4>5. SumFunction(refunds) = refunds[1] + SumFunction(rest)
        <5>1. Takes(refunds, 1, rest)
          BY <4>2, <4>3 DEF Takes
        <5> QED
          BY <5>1, SumTakes
      <4>6. SumFunction(refunds) = RefundedBy(body, c)
        BY <1>3, <4>2, <4>4, <4>5
      <4>7. RefundAmount(params, seen)
              = IF Has(params, "amount") THEN params.amount ELSE RemainingOf(c)
        BY <2>2, <3>4, <4>1 DEF RefundAmount
      <4> QED
        BY <1>1, <1>2, <1>3, <3>2, <4>6, <4>7
    <3> QED
      BY <3>3, <3>4
  <2> QED
    BY <2>1, <2>2
<1> QED
  BY <1>4, CoversTheSeen DEF body

\* Amounts of items are numbers.
LEMMA ItemsValueIsNat == \A entries \in Subs \cup Changes : ItemsValue(entries) \in Nat
BY SubsAreFinite, ValuesAreNat, SumRules DEF ItemsValue, Values

\* The projection stays within the accumulators.
LEMMA ProjectType ==
  ASSUME NEW items \in Changes, NEW sub \in Subs
  PROVE  Project(items, sub) \in Accs
<1>1. Unprojected(sub) \in Accs
  <2>1. <<>> \in Changes
    BY DEF Changes
  <2> QED
    BY <2>1 DEF Unprojected, Accs
<1>2. PICK at : Stages(items, sub, Accs, at)
  BY <1>1, ProjectItemType, StagesExist DEF Changes
<1>3. Len(items) \in 0..Len(items)
  BY ValuesAreNat
<1> QED
  BY <1>2, <1>3 DEF Stages

\* Subscriptions: what the items are worth when they are there, and nothing when
\* the list is none Stripe takes.
LEMMA SubscriptionsAreCovered ==
  /\ \A params \in CreateSubscriptionSchema :
       Priced(params.items)
         => Covers("create_subscription", params, <<>>, ItemsValue(params.items),
                   Request("subscriptions.create", Pick(params, Sends("create_subscription"))))
  /\ \A params \in UpdateSubscriptionSchema, seen \in Subscriptions :
       LET changes == IF Has(params, "items") THEN params.items ELSE <<>>
           projected == Project(changes, seen)
           amount == IF changes = <<>> THEN 0
                     ELSE ItemsValue(projected.kept) + ItemsValue(projected.added) IN
       (changes # <<>> => Priced(projected.kept) /\ Priced(projected.added))
         => Covers("update_subscription", params, <<seen>>, amount,
                   Request("subscriptions.update", Pick(params, Sends("update_subscription"))))
  /\ \A params \in CancelSubscriptionSchema, seen \in Subscriptions :
       Priced(seen)
         => Covers("cancel_subscription", params, <<seen>>, ItemsValue(seen),
                   IF AtPeriodEnd(params)
                   THEN Request("subscriptions.update", [cancel_at_period_end |-> TRUE])
                   ELSE Request("subscriptions.cancel",
                                Pick(params, Sends("cancel_subscription"))))
<1>1. ASSUME NEW params \in CreateSubscriptionSchema, Priced(params.items)
      PROVE  Covers("create_subscription", params, <<>>, ItemsValue(params.items),
                    Request("subscriptions.create", Pick(params, Sends("create_subscription"))))
  <2>1. Has(params, "items") /\ params.items \in Seq(SubscriptionItemSchema)
    BY ItemsFields
  <2>2. Pick(params, Sends("create_subscription")).items = params.items
    BY <2>1, PickKeeps DEF Sends
  <2>3. /\ WorthAfter(params.items, <<>>) = ItemsValue(params.items)
        /\ ItemsValue(params.items) \in Nat
    BY <1>1, <2>1, CreatedIsWorth, ItemsValueIsNat
  <2> QED
    BY <2>2, <2>3 DEF Covers, Effect, Request
<1>2. \A seen \in Subscriptions : seen \in Subs
  BY DEF Subscriptions, Subs
<1>3. ASSUME NEW params \in UpdateSubscriptionSchema, NEW seen \in Subscriptions,
             NEW changes, changes = IF Has(params, "items") THEN params.items ELSE <<>>,
             NEW projected, projected = Project(changes, seen),
             NEW amount, amount = IF changes = <<>> THEN 0
                                  ELSE ItemsValue(projected.kept) + ItemsValue(projected.added),
             changes # <<>> => Priced(projected.kept) /\ Priced(projected.added)
      PROVE  Covers("update_subscription", params, <<seen>>, amount,
                    Request("subscriptions.update", Pick(params, Sends("update_subscription"))))
  <2> DEFINE body == Pick(params, Sends("update_subscription"))
  <2>1. /\ Has(body, "items") <=> Has(params, "items")
        /\ Has(params, "items") => body.items = params.items
    BY PickKeeps DEF Sends
  <2> HIDE DEF body
  <2>2. Effect(Request("subscriptions.update", body), seen)
          = IF changes # <<>> THEN WorthAfter(changes, seen) ELSE 0
    <3>1. Effect(Request("subscriptions.update", body), seen)
            = IF Has(body, "items") /\ body.items # <<>>
              THEN WorthAfter(body.items, seen) ELSE 0
      BY DEF Effect, Request
    <3>2. CASE Has(params, "items")
      BY <1>3, <2>1, <3>1, <3>2
    <3>3. CASE ~Has(params, "items")
      BY <1>3, <2>1, <3>1, <3>3
    <3> QED
      BY <3>2, <3>3
  <2>3. CASE changes = <<>>
    <3>1. amount = 0 /\ Effect(Request("subscriptions.update", body), seen) = 0
      BY <1>3, <2>2, <2>3
    <3> QED
      BY <3>1, CoversTheSeen DEF body
  <2>4. CASE changes # <<>>
    <3>1. changes \in Changes /\ seen \in Subs
      BY <1>2, <1>3, <2>4, ItemsFields
    <3>2. projected \in Accs
      BY <1>3, <3>1, ProjectType
    <3>3. ItemsValue(projected.kept) \in Nat /\ ItemsValue(projected.added) \in Nat
      BY <3>2, ItemsValueIsNat DEF Accs
    <3>4. amount \in Nat /\ amount = ItemsValue(projected.kept) + ItemsValue(projected.added)
      BY <1>3, <2>4, <3>3
    <3>5. WorthAfter(changes, seen) \in {0, amount}
      <4>1. CASE Legal(changes, seen)
        BY <1>3, <2>4, <3>1, <3>4, <4>1, ProjectionIsWorth
      <4>2. CASE ~Legal(changes, seen)
        BY <3>1, <4>2, WorthUnfolds
      <4> QED
        BY <4>1, <4>2
    <3>6. Effect(Request("subscriptions.update", body), seen) \in 0..amount
      BY <2>2, <2>4, <3>4, <3>5
    <3> QED
      BY <3>4, <3>6, CoversTheSeen DEF body
  <2> QED
    BY <2>3, <2>4
<1>4. ASSUME NEW params \in CancelSubscriptionSchema, NEW seen \in Subscriptions, Priced(seen)
      PROVE  Covers("cancel_subscription", params, <<seen>>, ItemsValue(seen),
                    IF AtPeriodEnd(params)
                    THEN Request("subscriptions.update", [cancel_at_period_end |-> TRUE])
                    ELSE Request("subscriptions.cancel",
                                 Pick(params, Sends("cancel_subscription"))))
  <2>1. WorthAfter(<<>>, seen) = ItemsValue(seen) /\ ItemsValue(seen) \in Nat
    BY <1>2, <1>4, CancelledIsWorth, ItemsValueIsNat
  <2>2. Effect(Request("subscriptions.update", [cancel_at_period_end |-> TRUE]), seen) = 0
    BY DEF Effect, Request, Has
  <2>3. ASSUME NEW body
        PROVE  Effect(Request("subscriptions.cancel", body), seen) = ItemsValue(seen)
    <3>1. Effect(Request("subscriptions.cancel", body), seen) = WorthAfter(<<>>, seen)
      BY DEF Effect, Request
    <3> QED
      BY <2>1, <3>1
  <2> DEFINE request == IF AtPeriodEnd(params)
                        THEN Request("subscriptions.update", [cancel_at_period_end |-> TRUE])
                        ELSE Request("subscriptions.cancel",
                                     Pick(params, Sends("cancel_subscription")))
  <2>4. Effect(request, seen) \in 0..ItemsValue(seen)
    <3>1. CASE AtPeriodEnd(params)
      BY <2>1, <2>2, <3>1
    <3>2. CASE ~AtPeriodEnd(params)
      BY <2>1, <2>3, <3>2
    <3> QED
      BY <3>1, <3>2
  <2> HIDE DEF request
  <2>5. Covers("cancel_subscription", params, <<seen>>, ItemsValue(seen), request)
    BY <2>1, <2>4, CoversTheSeen
  <2> QED
    BY <2>5 DEF request
<1> QED
  BY <1>1, <1>3, <1>4

----------------------------------------------------------------------------
(* What a hash binds: lists with the same items in another order are worth  *)
(* the same.                                                                *)

\* Lists with the same bag are the same but for the order.
LEMMA SameBagSameItems ==
  ASSUME NEW p \in Changes, NEW q \in Changes, ToBag(p) = ToBag(q)
  PROVE  \E b \in Bijection(DOMAIN p, DOMAIN q) : \A n \in DOMAIN p : q[b[n]] = p[n]
<1> DEFINE At(s, x) == {n \in DOMAIN s : s[n] = x}
           B(x) == CHOOSE b : b \in Bijection(At(p, x), At(q, x))
           b == [n \in DOMAIN p |-> B(p[n])[n]]
<1>1. Range(p) = Range(q)
      /\ \A x \in Range(p) : Cardinality(At(p, x)) = Cardinality(At(q, x))
  <2>1. DOMAIN ToBag(p) = Range(p) /\ DOMAIN ToBag(q) = Range(q)
    BY DEF ToBag
  <2>2. /\ \A x \in Range(p) : ToBag(p)[x] = Cardinality(At(p, x))
        /\ \A x \in Range(q) : ToBag(q)[x] = Cardinality(At(q, x))
    BY DEF ToBag
  <2> HIDE DEF At
  <2> QED
    BY <2>1, <2>2
<1>2. \A x : IsFiniteSet(At(p, x)) /\ IsFiniteSet(At(q, x))
  <2> TAKE x
  <2>1. IsFiniteSet(DOMAIN p) /\ IsFiniteSet(DOMAIN q)
    BY ValuesAreNat
  <2>2. At(p, x) \subseteq DOMAIN p /\ At(q, x) \subseteq DOMAIN q
    OBVIOUS
  <2> HIDE DEF At
  <2> QED
    BY <2>1, <2>2, FS_Subset
<1>3. ASSUME NEW x \in Range(p)
      PROVE  /\ B(x) \in [At(p, x) -> At(q, x)]
             /\ \A n, m \in At(p, x) : B(x)[n] = B(x)[m] => n = m
             /\ \A j \in At(q, x) : \E n \in At(p, x) : B(x)[n] = j
  <2> HIDE DEF At
  <2>1. ExistsBijection(At(p, x), At(q, x))
    BY <1>1, <1>2, FS_SameCardinalityBij
  <2>2. B(x) \in Bijection(At(p, x), At(q, x))
    BY <2>1 DEF ExistsBijection
  <2> HIDE DEF B
  <2> QED
    BY <2>2 DEF Bijection, Injection, Surjection, IsInjective
<1> HIDE DEF B
<1>4. \A n \in DOMAIN p : p[n] \in Range(p) /\ n \in At(p, p[n])
  BY DEF Range
<1>5. ASSUME NEW n \in DOMAIN p PROVE b[n] \in DOMAIN q /\ q[b[n]] = p[n]
  <2>1. b[n] \in At(q, p[n])
    <3>1. b[n] = B(p[n])[n]
      OBVIOUS
    <3> HIDE DEF At, b
    <3> QED
      BY <1>3, <1>4, <3>1
  <2> QED
    BY <2>1
<1>6. ASSUME NEW n \in DOMAIN p, NEW m \in DOMAIN p, b[n] = b[m] PROVE n = m
  <2>1. p[n] = p[m]
    BY <1>5, <1>6
  <2>2. B(p[n])[n] = B(p[n])[m] /\ n \in At(p, p[n]) /\ m \in At(p, p[n])
    BY <1>6, <2>1
  <2> QED
    BY <1>3, <1>4, <2>2
<1>7. ASSUME NEW j \in DOMAIN q PROVE \E n \in DOMAIN p : b[n] = j
  <2>1. q[j] \in Range(p) /\ j \in At(q, q[j])
    BY <1>1 DEF Range
  <2>2. PICK n \in At(p, q[j]) : B(q[j])[n] = j
    BY <1>3, <2>1
  <2> QED
    BY <2>2
<1>8. b \in Bijection(DOMAIN p, DOMAIN q)
  <2>1. b \in [DOMAIN p -> DOMAIN q]
    BY <1>5
  <2> HIDE DEF b
  <2> QED
    BY <1>6, <1>7, <2>1 DEF Bijection, Injection, Surjection, IsInjective
<1> QED
  BY <1>5, <1>8

\* And worth the same.
LEMMA SameItemsSameWorth ==
  ASSUME NEW p \in Changes, NEW q \in Changes, NEW sub \in Subs,
         NEW b \in Bijection(DOMAIN p, DOMAIN q), \A n \in DOMAIN p : q[b[n]] = p[n]
  PROVE  /\ WorthAfter(p, sub) = WorthAfter(q, sub)
         /\ p = <<>> <=> q = <<>>
<1>1. /\ Len(p) \in Nat /\ DOMAIN p = 1..Len(p) /\ Len(q) \in Nat /\ DOMAIN q = 1..Len(q)
  BY ValuesAreNat
<1>2. /\ b \in [DOMAIN p -> DOMAIN q] /\ \A n, m \in DOMAIN p : b[n] = b[m] => n = m
      /\ \A j \in DOMAIN q : \E n \in DOMAIN p : b[n] = j
  BY DEF Bijection, Injection, Surjection, IsInjective
<1>3. p = <<>> <=> q = <<>>
  <2>1. \A items \in Changes : items = <<>> <=> DOMAIN items = {}
    BY DEF Changes
  <2> QED
    BY <1>2, <2>1
<1>4. Legal(p, sub) <=> Legal(q, sub)
  <2>1. Legal(q, sub) => Legal(p, sub)
    BY <1>2 DEF Legal, Named
  <2>2. Legal(p, sub) => Legal(q, sub)
    <3> SUFFICES ASSUME Legal(p, sub) PROVE Legal(q, sub)
      OBVIOUS
    <3>1. \A j \in Named(q) : \E n \in Named(p) : b[n] = j /\ q[j] = p[n]
      BY <1>2 DEF Named
    <3> QED
      BY <3>1 DEF Legal
  <2> QED
    BY <2>1, <2>2
<1> DEFINE P == Len(p)
           Q == Len(q)
<1>5. CASE ~Legal(p, sub)
  BY <1>3, <1>4, <1>5, WorthUnfolds
<1>6. CASE Legal(p, sub)
  <2>1. Ids(p, P) = Ids(q, Q)
    <3>1. ASSUME NEW i \in Ids(p, P) PROVE i \in Ids(q, Q)
      <4>1. PICK n \in 1..P : Has(p[n], "id") /\ p[n].id = i
        BY DEF Ids
      <4> QED
        BY <1>1, <1>2, <4>1 DEF Ids
    <3>2. ASSUME NEW i \in Ids(q, Q) PROVE i \in Ids(p, P)
      <4>1. PICK j \in 1..Q : Has(q[j], "id") /\ q[j].id = i
        BY DEF Ids
      <4>2. PICK n \in 1..P : b[n] = j
        BY <1>1, <1>2, <4>1
      <4> QED
        BY <1>1, <4>1, <4>2 DEF Ids
    <3> QED
      BY <3>1, <3>2
  <2> DEFINE f == [n \in Live(p, P) |-> Worth(p[n].price, NewQuantity(p, sub, n))]
             g == [n \in Live(q, Q) |-> Worth(q[n].price, NewQuantity(q, sub, n))]
             c == [n \in Live(p, P) |-> b[n]]
  <2>2. ASSUME NEW items \in Changes, Legal(items, sub)
        PROVE  /\ IsFiniteSet(Live(items, Len(items)))
               /\ \A n \in Live(items, Len(items)) :
                    Worth(items[n].price, NewQuantity(items, sub, n)) \in Nat
    <3>1. Len(items) \in 0..Len(items)
      BY ValuesAreNat
    <3>2. /\ IsFiniteSet(Live(items, Len(items)))
          /\ Came(items, sub, Len(items)) \in [Live(items, Len(items)) -> Nat]
      BY <2>2, <3>1, TermsAreNat
    <3>3. Unbounded \in Nat
      BY ToolsAssumption
    <3> QED
      BY <3>2, <3>3 DEF Worth, Came
  <2>3. f \in [Live(p, P) -> Nat] /\ g \in [Live(q, Q) -> Nat] /\ IsFiniteSet(Live(p, P))
    BY <1>4, <1>6, <2>2
  <2>4. c \in Bijection(Live(p, P), Live(q, Q))
    <3>1. \A n \in Live(p, P) : n \in DOMAIN p /\ c[n] = b[n] /\ b[n] \in Live(q, Q)
      BY <1>1, <1>2 DEF Live
    <3>2. \A j \in Live(q, Q) : \E n \in Live(p, P) : b[n] = j
      BY <1>1, <1>2 DEF Live
    <3>3. c \in [Live(p, P) -> Live(q, Q)]
      BY <3>1
    <3> HIDE DEF c
    <3> QED
      BY <1>2, <3>1, <3>2, <3>3 DEF Bijection, Injection, Surjection, IsInjective
  <2>5. \A n \in Live(p, P) : f[n] = g[c[n]]
    <3> TAKE n \in Live(p, P)
    <3>1. n \in DOMAIN p /\ c[n] = b[n] /\ b[n] \in Live(q, Q) /\ q[b[n]] = p[n]
      BY <1>1, <1>2 DEF Live
    <3>2. NewQuantity(p, sub, n) = NewQuantity(q, sub, b[n])
      BY <3>1 DEF NewQuantity
    <3> QED
      BY <3>1, <3>2
  <2>6. SumFunction(f) = SumFunction(g)
    <3> HIDE DEF f, g, c
    <3> QED
      BY <2>3, <2>4, <2>5, SumRenamed
  <2>7. WorthAfter(p, sub)
          = SumFunction([i \in DOMAIN sub \ Ids(p, P) |->
                           Worth(sub[i].price, sub[i].quantity)]) + SumFunction(f)
    BY <1>6, WorthUnfolds
  <2>8. WorthAfter(q, sub)
          = SumFunction([i \in DOMAIN sub \ Ids(q, Q) |->
                           Worth(sub[i].price, sub[i].quantity)]) + SumFunction(g)
    BY <1>4, <1>6, WorthUnfolds
  <2> HIDE DEF f, g
  <2> QED
    BY <1>3, <2>1, <2>6, <2>7, <2>8
<1> QED
  BY <1>5, <1>6

\* A new subscription starts from none.
LEMMA NoneIsASub == <<>> \in Subs
<1>1. <<>> \in [{} -> Entries]
  OBVIOUS
<1> QED
  BY <1>1 DEF Subs

\* Parameters with the same canonical form have the same fields, and the same items in
\* some order.
LEMMA SameHashSameFields ==
  ASSUME NEW p, NEW q, Canonical(p) = Canonical(q)
  PROVE  /\ DOMAIN p = DOMAIN q
         /\ \A field \in DOMAIN p : field # "items" => p[field] = q[field]
         /\ Has(p, "items") => ToBag(p.items) = ToBag(q.items)
<1>1. DOMAIN Canonical(p) = DOMAIN p /\ DOMAIN Canonical(q) = DOMAIN q
  BY DEF Canonical
<1>2. \A field \in DOMAIN p : field # "items" => p[field] = q[field]
  <2> TAKE field \in DOMAIN p
  <2>1. field # "items" => Canonical(p)[field] = p[field] /\ Canonical(q)[field] = q[field]
    BY <1>1 DEF Canonical
  <2> QED
    BY <2>1
<1>3. Has(p, "items") => ToBag(p.items) = ToBag(q.items)
  <2> SUFFICES ASSUME Has(p, "items") PROVE ToBag(p.items) = ToBag(q.items)
    OBVIOUS
  <2>1. "items" \in DOMAIN p /\ "items" \in DOMAIN q
    BY <1>1 DEF Has
  <2>2. Canonical(p)["items"] = CanonicalArray(p["items"])
        /\ Canonical(q)["items"] = CanonicalArray(q["items"])
    BY <2>1 DEF Canonical
  <2> QED
    BY <2>2 DEF CanonicalArray
<1> QED
  BY <1>1, <1>2, <1>3

----------------------------------------------------------------------------
(* What the middleware rests on, of every tool that calls it.               *)

\* The reconciler will send what the tool sends, archiving excepted.
Replayable(cap, params, request) ==
  IF cap.tool = "archive_customer" THEN cap.operation = "archive"
  ELSE Replay(cap.tool, params) = request

\* Who cannot be granted approval is not judged by an amount and moves no money.
Consistent(cap, amount, request) ==
  \/ "approvalEligible" \in cap.flags
  \/ /\ cap.operation # "delete" /\ amount = 0
     /\ Effect(request, Nothing) = 0

\* What is not deleted is judged by an amount that covers it.
Judged(cap, params, seen, amount, request) ==
  cap.operation # "delete" => Covers(cap.tool, params, seen, amount, request)

\* The tools a token may be granted for.
Eligible ==
  {"delete_customer", "create_payment_intent", "confirm_payment_intent",
   "cancel_payment_intent", "pay_invoice", "create_subscription", "update_subscription",
   "cancel_subscription", "create_product", "create_price", "create_refund"}

\* A token can bind the call: its parameters are fields, and the only array among them
\* that it sorts is the items of a subscription.
Bindable(tool, params) ==
  /\ tool \in Eligible
  /\ params = [f \in DOMAIN params |-> params[f]]
  /\ Has(params, "items") => /\ tool \in {"create_subscription", "update_subscription"}
                             /\ params.items \in Changes
  /\ tool = "create_subscription" => Has(params, "items")

Sound(cap, params, seen, amount, request) ==
  /\ Replayable(cap, params, request)
  /\ Consistent(cap, amount, request)
  /\ Judged(cap, params, seen, amount, request)
  /\ "approvalEligible" \in cap.flags => cap.tool \in Eligible
  /\ cap.tool \in Eligible => Bindable(cap.tool, params)

\* A call has the shape the tools give it.
CallShape ==
  \/ call = NoCall
  \/ call.at = "done" /\ call = [at |-> call.at, cap |-> call.cap]
  \/ /\ call.at \in {"begun", "unknown"}
     /\ call = [at |-> call.at, cap |-> call.cap, params |-> call.params,
                request |-> call.request, by |-> call.by, seen |-> call.seen]
     /\ Replayable(call.cap, call.params, call.request)

\* Nothing but the request of the call has gone out.
SentShape ==
  /\ call = NoCall \/ call.at = "begun" => sent = {}
  /\ call.at = "unknown" /\ call.cap.tool # "archive_customer" => sent \subseteq {call.request}
  /\ call.at = "done" /\ call.cap.tool # "archive_customer" => \E r : sent \subseteq {r}

\* Whoever was asked for approval showed the request that the reconciler would send
\* for what was hashed, and had no token unless the threshold is 0.
ApprovalShape ==
  approval # NoApproval =>
    /\ approval = [status |-> approval.status, cap |-> approval.cap, hash |-> approval.hash,
                   request |-> approval.request, with |-> approval.with]
    /\ \E params : /\ approval.cap.tool \in Eligible => Bindable(approval.cap.tool, params)
                   /\ approval.hash = RequestHash(approval.cap, params)
                   /\ approval.request = Replay(approval.cap.tool, params)
    /\ approval.with \in {"nothing", "token"}
    /\ OnlyZeroAsksTwice

\* A token was consumed by the call, whose parameters it binds.
TokenShape ==
  approval # NoApproval /\ approval.status = "consumed" =>
    /\ call # NoCall
    /\ call.at \in {"begun", "unknown"} =>
         /\ Bindable(call.cap.tool, call.params)
         /\ RequestHash(call.cap, call.params) = approval.hash

\* What goes through without a human is small, on the object the tool has seen.
PolicyShape ==
  call.at \in {"begun", "unknown"} /\ call.by = "policy" =>
    \A now \in Objects(call.cap.tool, call.params) :
      Range(call.seen) \in {{}, {now}}
        => Effect(call.request, now) < Threshold(call.cap.operation)

\* Stripe has done nothing before it was asked.
EffectShape == call = NoCall \/ call.at = "begun" => effect = NoEffect

ToolsInv ==
  /\ config \in Configs
  /\ CallShape
  /\ SentShape
  /\ ApprovalShape
  /\ TokenShape
  /\ PolicyShape
  /\ EffectShape
  /\ UngatedIsSmall

\* Thresholds are numbers, and archiving has one that nothing reaches.
LEMMA ThresholdsAreNat ==
  ASSUME config \in Configs
  PROVE  /\ \A operation : Threshold(operation) \in Nat
         /\ Threshold("archive") > 0
<1>1. /\ config.refund \in 0..Unbounded /\ config.cancel \in 0..Unbounded
      /\ config.charge \in 0..Unbounded /\ Unbounded \in Nat /\ Unbounded > 0
  BY ToolsAssumption
<1> QED
  BY <1>1 DEF Threshold

\* A server does not change its thresholds.
LEMMA ThresholdsStay ==
  ASSUME config' = config
  PROVE  \A operation : Threshold(operation)' = Threshold(operation)
BY DEF Threshold

\* What may be asked for without the eligibility to be granted is asked for at
\* threshold 0 only, and never of an archive.
LEMMA ConsistentAsksAtZero ==
  ASSUME config \in Configs, NEW cap, NEW params, NEW amount, NEW request, NEW risk,
         Consistent(cap, amount, request), Replayable(cap, params, request),
         ShouldRequireApproval(cap, amount, risk), "approvalEligible" \notin cap.flags
  PROVE  /\ Threshold(cap.operation) = 0 /\ cap.tool # "archive_customer"
         /\ Effect(request, Nothing) = 0
<1>1. cap.operation # "delete" /\ amount = 0 /\ Effect(request, Nothing) = 0
  BY DEF Consistent
<1>2. amount >= Threshold(cap.operation)
  BY <1>1 DEF ShouldRequireApproval, Gated
<1>3. Threshold(cap.operation) = 0
  BY <1>1, <1>2, ThresholdsAreNat
<1>4. cap.tool # "archive_customer"
  BY <1>3, ThresholdsAreNat DEF Replayable
<1> QED
  BY <1>1, <1>3, <1>4

\* What is not asked for is below its threshold.
LEMMA UnaskedIsSmall ==
  ASSUME config \in Configs,
         NEW cap, NEW params, NEW seen, NEW amount, NEW request, NEW risk,
         Judged(cap, params, seen, amount, request),
         ~ShouldRequireApproval(cap, amount, risk),
         NEW now \in Objects(cap.tool, params), Range(seen) \in {{}, {now}}
  PROVE  Effect(request, now) < Threshold(cap.operation)
<1>1. cap.operation # "delete" /\ ~(amount >= Threshold(cap.operation))
  BY DEF ShouldRequireApproval
<1>2. amount \in Nat /\ Effect(request, now) \in 0..amount
  BY <1>1 DEF Judged, Covers
<1>3. Threshold(cap.operation) \in Nat
  BY ThresholdsAreNat
<1> DEFINE moved == Effect(request, now)
           threshold == Threshold(cap.operation)
<1> HIDE DEF moved, threshold
<1>4. moved \in 0..amount /\ threshold \in Nat /\ ~(amount >= threshold)
  BY <1>1, <1>2, <1>3 DEF moved, threshold
<1>5. moved < threshold
  BY <1>2, <1>4
<1> QED
  BY <1>5 DEF moved, threshold

\* A row changes its status and nothing else.
LEMMA StatusKeepsShape ==
  ASSUME ApprovalShape, approval # NoApproval, config' = config,
         NEW status, approval' = [approval EXCEPT !.status = status]
  PROVE  /\ ApprovalShape' /\ approval'.hash = approval.hash
         /\ approval'.status = status
<1>1. approval = [status |-> approval.status, cap |-> approval.cap, hash |-> approval.hash,
                  request |-> approval.request, with |-> approval.with]
  BY DEF ApprovalShape
<1>2. approval' = [status |-> status, cap |-> approval.cap, hash |-> approval.hash,
                   request |-> approval.request, with |-> approval.with]
  BY <1>1
<1>3. /\ approval'.status = status
      /\ approval'.cap = approval.cap /\ approval'.hash = approval.hash
      /\ approval'.request = approval.request /\ approval'.with = approval.with
      /\ approval' = [status |-> approval'.status, cap |-> approval'.cap,
                      hash |-> approval'.hash, request |-> approval'.request,
                      with |-> approval'.with]
  BY <1>2
<1>4. OnlyZeroAsksTwice'
  BY <1>3, ThresholdsStay DEF ApprovalShape, OnlyZeroAsksTwice
<1> QED
  BY <1>3, <1>4 DEF ApprovalShape

\* A sound call of the middleware keeps the invariant.
LEMMA ExecuteKeeps ==
  ASSUME ToolsInv, call = NoCall,
         NEW cap, NEW params, NEW seen, NEW amount, NEW request,
         Execute(cap, params, seen, amount, request),
         Sound(cap, params, seen, amount, request)
  PROVE  ToolsInv'
<1> DEFINE with == IF approval = NoApproval THEN "nothing" ELSE "token"
           granted == "approvalEligible" \in cap.flags /\ with = "token"
           hash == RequestHash(cap, params)
           Asks(risk) == ~granted /\ ShouldRequireApproval(cap, amount, risk)
<1>1. PICK risk \in {"allow", "flag"} :
        /\ approval' =
             IF Asks(risk) THEN [status |-> "pending", cap |-> cap, hash |-> hash,
                                 request |-> request, with |-> with]
             ELSE IF granted THEN [approval EXCEPT !.status = "consumed"] ELSE NoApproval
        /\ call' =
             IF Asks(risk) THEN call
             ELSE [at |-> "begun", cap |-> cap, params |-> params, request |-> request,
                   by |-> IF granted THEN "token" ELSE "policy",
                   seen |-> IF granted THEN <<>> ELSE seen]
  BY DEF Execute
<1>2. /\ sent' = sent /\ sent = {} /\ effect' = effect /\ effect = NoEffect
      /\ config' = config /\ config \in Configs
  BY DEF Execute, ToolsInv, SentShape, EffectShape
<1>3. EffectShape' /\ UngatedIsSmall' /\ config' \in Configs
  BY <1>2 DEF EffectShape, UngatedIsSmall
<1>4. /\ Replayable(cap, params, request) /\ Consistent(cap, amount, request)
      /\ Judged(cap, params, seen, amount, request)
      /\ "approvalEligible" \in cap.flags => cap.tool \in Eligible
      /\ cap.tool \in Eligible => Bindable(cap.tool, params)
  BY DEF Sound
<1>5. CASE Asks(risk)
  <2>1. /\ with \in {"nothing", "token"} /\ ShouldRequireApproval(cap, amount, risk)
        /\ with = "token" => "approvalEligible" \notin cap.flags
    BY <1>5
  <2>2. approval' = [status |-> "pending", cap |-> cap, hash |-> hash,
                     request |-> request, with |-> with]
    BY <1>1, <1>5
  <2>3. call' = NoCall
    BY <1>1, <1>5
  <2>4. request = Replay(cap.tool, params)
    <3>1. CASE "approvalEligible" \in cap.flags
      BY <1>4, <3>1 DEF Eligible, Replayable
    <3>2. CASE "approvalEligible" \notin cap.flags
      BY <1>2, <1>4, <2>1, <3>2, ConsistentAsksAtZero DEF Replayable
    <3> QED
      BY <3>1, <3>2
  <2> HIDE DEF with, granted, hash, Asks
  <2>5. ApprovalShape'
    <3>1. /\ approval'.status = "pending" /\ approval'.cap = cap /\ approval'.hash = hash
          /\ approval'.request = request /\ approval'.with = with
          /\ approval' = [status |-> approval'.status, cap |-> approval'.cap,
                          hash |-> approval'.hash, request |-> approval'.request,
                          with |-> approval'.with]
      BY <2>2
    <3>2. with = "token" => /\ Threshold(cap.operation) = 0
                            /\ "approvalEligible" \notin cap.flags
                            /\ Effect(request, Nothing) = 0
      BY <1>2, <1>4, <2>1, ConsistentAsksAtZero
    <3>3. OnlyZeroAsksTwice'
      BY <1>2, <3>1, <3>2, ThresholdsStay DEF OnlyZeroAsksTwice
    <3> QED
      BY <1>4, <2>1, <2>4, <3>1, <3>3 DEF ApprovalShape, hash
  <2>6. TokenShape'
    BY <2>2 DEF TokenShape
  <2>7. CallShape' /\ SentShape' /\ PolicyShape'
    BY <1>2, <2>3 DEF CallShape, SentShape, PolicyShape, NoCall
  <2> QED
    BY <1>3, <2>5, <2>6, <2>7 DEF ToolsInv
<1>6. CASE ~Asks(risk)
  <2> DEFINE by == IF granted THEN "token" ELSE "policy"
             looked == IF granted THEN <<>> ELSE seen
  <2>1. call' = [at |-> "begun", cap |-> cap, params |-> params, request |-> request,
                 by |-> by, seen |-> looked]
    BY <1>1, <1>6
  <2>2. by = "policy" => looked = seen /\ ~ShouldRequireApproval(cap, amount, risk)
    BY <1>6
  <2>3. approval' = IF granted THEN [approval EXCEPT !.status = "consumed"] ELSE NoApproval
    BY <1>1, <1>6
  <2>4. granted => /\ approval # NoApproval /\ approval.hash = hash
                   /\ "approvalEligible" \in cap.flags
    BY DEF Execute
  <2> HIDE DEF by, looked, with, granted, Asks
  <2>5. ApprovalShape' /\ TokenShape'
    <3>1. CASE granted
      <4>3. /\ approval # NoApproval /\ approval' = [approval EXCEPT !.status = "consumed"]
        BY <2>3, <2>4, <3>1
      <4>4. ApprovalShape' /\ approval'.hash = approval.hash
        BY <1>2, <4>3, StatusKeepsShape DEF ToolsInv
      <4>5. TokenShape'
        <5>1. Bindable(cap.tool, params) /\ RequestHash(cap, params) = approval'.hash
          BY <1>4, <2>4, <3>1, <4>4 DEF hash
        <5>2. call'.cap = cap /\ call'.params = params /\ call' # NoCall
          BY <2>1 DEF NoCall
        <5> QED
          BY <5>1, <5>2 DEF TokenShape
      <4> QED
        BY <4>4, <4>5
    <3>2. CASE ~granted
      BY <2>3, <3>2 DEF ApprovalShape, TokenShape, OnlyZeroAsksTwice
    <3> QED
      BY <3>1, <3>2
  <2>6. CallShape'
    BY <1>4, <2>1 DEF CallShape
  <2>7. SentShape'
    BY <1>2, <2>1 DEF SentShape
  <2>8. PolicyShape'
    <3>1. /\ call'.cap = cap /\ call'.params = params /\ call'.request = request
          /\ call'.by = by /\ call'.seen = looked
      BY <2>1
    <3>2. SUFFICES ASSUME by = "policy", NEW now \in Objects(cap.tool, params),
                          Range(seen) \in {{}, {now}}
                   PROVE  Effect(request, now) < Threshold(cap.operation)
      BY <1>2, <2>2, <3>1, ThresholdsStay DEF PolicyShape
    <3> QED
      BY <1>2, <1>4, <2>2, <3>2, UnaskedIsSmall
  <2> QED
    BY <1>3, <2>5, <2>6, <2>7, <2>8 DEF ToolsInv
<1> QED
  BY <1>5, <1>6

\* Calls with the same hash have Stripe move the same, on any object.
LEMMA SameHashSameEffect ==
  ASSUME NEW tool, NEW p, NEW q, Bindable(tool, p), Bindable(tool, q),
         Canonical(p) = Canonical(q), NEW now \in Objects(tool, p)
  PROVE  Effect(Replay(tool, p), now) = Effect(Replay(tool, q), now)
<1>1. /\ DOMAIN p = DOMAIN q
      /\ \A field \in DOMAIN p : field # "items" => p[field] = q[field]
      /\ Has(p, "items") => ToBag(p.items) = ToBag(q.items)
  BY SameHashSameFields
<1>2. CASE ~Has(p, "items")
  <2>1. p = q
    BY <1>1, <1>2 DEF Bindable, Has
  <2> QED
    BY <2>1
<1>3. CASE Has(p, "items")
  <2>1. /\ tool \in {"create_subscription", "update_subscription"}
        /\ p.items \in Changes /\ q.items \in Changes
    BY <1>1, <1>3 DEF Bindable, Has
  <2>2. PICK b \in Bijection(DOMAIN p.items, DOMAIN q.items) :
          \A n \in DOMAIN p.items : q.items[b[n]] = p.items[n]
    BY <1>1, <1>3, <2>1, SameBagSameItems
  <2>3. \A sub \in Subs : /\ WorthAfter(p.items, sub) = WorthAfter(q.items, sub)
                          /\ p.items = <<>> <=> q.items = <<>>
    BY <2>1, <2>2, SameItemsSameWorth
  <2>4. CASE tool = "create_subscription"
    <3>1. \A r, object : Effect(Replay(tool, r), object) = WorthAfter(r.items, <<>>)
      BY <2>4 DEF Replay, Effect, Request
    <3> QED
      BY <2>3, <3>1, NoneIsASub
  <2>5. CASE tool = "update_subscription"
    <3>1. now \in Subs
      BY <2>5 DEF Objects, Subscriptions, Subs
    <3>2. ASSUME NEW r, Has(r, "items")
          PROVE  Effect(Replay(tool, r), now)
                   = IF r.items # <<>> THEN WorthAfter(r.items, now) ELSE 0
      <4> DEFINE body == Omit(r, {"subscription_id"})
      <4>1. Has(body, "items") /\ body.items = r.items
        BY <3>2 DEF Omit, Restrict, Has
      <4>2. Replay(tool, r) = Request("subscriptions.update", body)
        BY <2>5 DEF Replay
      <4> HIDE DEF body
      <4>3. Effect(Request("subscriptions.update", body), now)
              = IF Has(body, "items") /\ body.items # <<>>
                THEN WorthAfter(body.items, now) ELSE 0
        BY DEF Effect, Request
      <4> QED
        BY <4>1, <4>2, <4>3
    <3>3. Has(q, "items")
      BY <1>1, <1>3 DEF Has
    <3> QED
      BY <1>3, <2>3, <3>1, <3>2, <3>3
  <2> QED
    BY <2>1, <2>4, <2>5
<1> QED
  BY <1>2, <1>3

----------------------------------------------------------------------------
(* The tools make sound calls.                                              *)

\* What every tool does: it calls the middleware, soundly.
SoundCall ==
  \E cap, params, seen, amount, request :
    Execute(cap, params, seen, amount, request) /\ Sound(cap, params, seen, amount, request)

\* A tool that is gated by score and by approval is sound if the reconciler repeats
\* it, its amount covers it and a token can bind it.
LEMMA GatedIsSound ==
  ASSUME NEW tool, NEW operation, NEW params, NEW seen, NEW amount, NEW request,
         Execute(Capability(tool, operation, Gated), params, seen, amount, request),
         Replay(tool, params) = request,
         operation = "delete" \/ Covers(tool, params, seen, amount, request),
         Bindable(tool, params)
  PROVE  SoundCall
<1> DEFINE cap == Capability(tool, operation, Gated)
<1>1. cap.tool = tool /\ cap.operation = operation /\ "approvalEligible" \in cap.flags
  BY DEF Capability, Gated
<1> HIDE DEF cap
<1>2. tool \in Eligible /\ tool # "archive_customer"
  BY DEF Bindable, Eligible
<1>3. Sound(cap, params, seen, amount, request)
  BY <1>1, <1>2 DEF Sound, Replayable, Consistent, Judged
<1> QED
  BY <1>3 DEF SoundCall, cap

\* One that is gated by nothing is sound if it moves no money.
LEMMA FreeIsSound ==
  ASSUME NEW tool, NEW operation, NEW params, NEW request,
         Execute(Capability(tool, operation, {}), params, <<>>, 0, request),
         operation # "delete", \A now : Effect(request, now) = 0,
         IF tool = "archive_customer" THEN operation = "archive"
         ELSE Replay(tool, params) = request,
         tool \in Eligible => Bindable(tool, params)
  PROVE  SoundCall
<1> DEFINE cap == Capability(tool, operation, {})
<1>1. cap.tool = tool /\ cap.operation = operation /\ "approvalEligible" \notin cap.flags
  BY DEF Capability
<1> HIDE DEF cap
<1>2. Covers(tool, params, <<>>, 0, request)
  BY DEF Covers
<1>3. Sound(cap, params, <<>>, 0, request)
  BY <1>1, <1>2 DEF Sound, Replayable, Consistent, Judged
<1> QED
  BY <1>3 DEF SoundCall, cap

\* A token can bind a call whose fields are known and have no items.
LEMMA ItemlessIsBindable ==
  ASSUME NEW tool \in Eligible \ {"create_subscription"}, NEW params, NEW fields,
         Known(params, fields), "items" \notin fields
  PROVE  Bindable(tool, params)
BY DEF Bindable, Known, Has

\* The customer tools make sound calls.
LEMMA CustomerToolsAreSound ==
  ASSUME CreateCustomer \/ UpdateCustomer \/ DeleteCustomer \/ ArchiveCustomer
  PROVE  SoundCall
<1>1. CASE CreateCustomer
  <2>1. PICK params \in CreateCustomerSchema :
          Execute(Capability("create_customer", "create", {}), params, <<>>,
                  0, Request("customers.create", Pick(params, Sends("create_customer"))))
    BY <1>1 DEF CreateCustomer, Sends
  <2>2. Known(params, Sends("create_customer"))
    BY SchemasKnow DEF Knows
  <2>3. Replay("create_customer", params) = Request("customers.create", Pick(params, Sends("create_customer")))
    BY <2>2, PickAll DEF Replay
  <2>4. \A body, now : Effect(Request("customers.create", body), now) = 0
    BY DEF Effect, Request
  <2> QED
    BY <2>1, <2>3, <2>4, FreeIsSound DEF Eligible
<1>2. CASE UpdateCustomer
  <2>1. PICK params \in UpdateCustomerSchema :
          Execute(Capability("update_customer", "update", {}), params, <<>>,
                  0, Request("customers.update", Pick(params, Sends("update_customer"))))
    BY <1>2 DEF UpdateCustomer, Sends
  <2>2. Known(params, Sends("update_customer") \cup {"customer_id"})
    BY SchemasKnow DEF Knows
  <2>3. Sends("update_customer") \cap {"customer_id"} = {}
    BY DEF Sends
  <2>4. Replay("update_customer", params) = Request("customers.update", Pick(params, Sends("update_customer")))
    BY <2>2, <2>3, PickIsOmit DEF Replay
  <2>5. \A body, now : Effect(Request("customers.update", body), now) = 0
    BY DEF Effect, Request
  <2> QED
    BY <2>1, <2>4, <2>5, FreeIsSound DEF Eligible
<1>3. CASE DeleteCustomer
  <2>1. PICK params \in DeleteCustomerSchema :
          Execute(Capability("delete_customer", "delete", Gated), params, <<>>,
                  0, Request("customers.del", <<>>))
    BY <1>3 DEF DeleteCustomer
  <2>2. Replay("delete_customer", params) = Request("customers.del", <<>>)
    BY DEF Replay
  <2>3. Bindable("delete_customer", params)
    BY SchemasKnow, ItemlessIsBindable DEF Eligible, Knows
  <2> QED
    BY <2>1, <2>2, <2>3, GatedIsSound
<1>4. CASE ArchiveCustomer
  <2> DEFINE request == Request("customers.update",
                                [archived_at |-> "called", delete_after |-> "called"])
  <2>1. PICK params \in ArchiveCustomerSchema :
          Execute(Capability("archive_customer", "archive", {}), params, <<>>, 0, request)
    BY <1>4 DEF ArchiveCustomer
  <2>2. \A now : Effect(request, now) = 0
    BY DEF Effect, Request
  <2> HIDE DEF request
  <2> QED
    BY <2>1, <2>2, FreeIsSound DEF Eligible
<1> QED
  BY <1>1, <1>2, <1>3, <1>4

\* So do the payment tools.
LEMMA PaymentToolsAreSound ==
  ASSUME CreatePaymentIntent \/ ConfirmPaymentIntent \/ CancelPaymentIntent \/ PayInvoice
  PROVE  SoundCall
<1>1. CASE CreatePaymentIntent
  <2>1. PICK params \in CreatePaymentIntentSchema :
          Execute(Capability("create_payment_intent", "create", Gated), params, <<>>,
                  params.amount, Request("paymentIntents.create", Pick(params, Sends("create_payment_intent"))))
    BY <1>1 DEF CreatePaymentIntent, Sends
  <2>2. Known(params, Sends("create_payment_intent"))
    BY SchemasKnow DEF Knows
  <2>3. Replay("create_payment_intent", params) = Request("paymentIntents.create", Pick(params, Sends("create_payment_intent")))
    BY <2>2, PickAll DEF Replay
  <2>4. Bindable("create_payment_intent", params)
    BY <2>2, ItemlessIsBindable DEF Eligible, Sends
  <2> QED
    BY <2>1, <2>3, <2>4, PaymentsAreCovered, GatedIsSound
<1>2. CASE ConfirmPaymentIntent
  <2>1. PICK params \in ConfirmPaymentIntentSchema, seen \in PaymentIntents :
          Execute(Capability("confirm_payment_intent", "confirm", Gated), params, <<seen>>,
                  seen.amount, Request("paymentIntents.confirm", Pick(params, Sends("confirm_payment_intent"))))
    BY <1>2 DEF ConfirmPaymentIntent, Sends
  <2>2. Known(params, Sends("confirm_payment_intent") \cup {"payment_intent_id"})
    BY SchemasKnow DEF Knows
  <2>3. Sends("confirm_payment_intent") \cap {"payment_intent_id"} = {}
    BY DEF Sends
  <2>4. Replay("confirm_payment_intent", params) = Request("paymentIntents.confirm", Pick(params, Sends("confirm_payment_intent")))
    BY <2>2, <2>3, PickIsOmit DEF Replay
  <2>5. Bindable("confirm_payment_intent", params)
    BY <2>2, ItemlessIsBindable DEF Eligible, Sends
  <2> QED
    BY <2>1, <2>4, <2>5, PaymentsAreCovered, GatedIsSound
<1>3. CASE CancelPaymentIntent
  <2>1. PICK params \in CancelPaymentIntentSchema, seen \in PaymentIntents :
          Execute(Capability("cancel_payment_intent", "cancel", Gated), params, <<seen>>,
                  seen.amount, Request("paymentIntents.cancel", Pick(params, Sends("cancel_payment_intent"))))
    BY <1>3 DEF CancelPaymentIntent, Sends
  <2>2. Known(params, Sends("cancel_payment_intent") \cup {"payment_intent_id"})
    BY SchemasKnow DEF Knows
  <2>3. Sends("cancel_payment_intent") \cap {"payment_intent_id"} = {}
    BY DEF Sends
  <2>4. Replay("cancel_payment_intent", params) = Request("paymentIntents.cancel", Pick(params, Sends("cancel_payment_intent")))
    BY <2>2, <2>3, PickIsOmit DEF Replay
  <2>5. Bindable("cancel_payment_intent", params)
    BY <2>2, ItemlessIsBindable DEF Eligible, Sends
  <2> QED
    BY <2>1, <2>4, <2>5, PaymentsAreCovered, GatedIsSound
<1>4. CASE PayInvoice
  <2>1. PICK params \in PayInvoiceSchema, seen \in Invoices :
          Execute(Capability("pay_invoice", "pay", Gated), params, <<seen>>,
                  seen.amount_remaining, Request("invoices.pay", Pick(params, Sends("pay_invoice"))))
    BY <1>4 DEF PayInvoice, Sends
  <2>2. Known(params, Sends("pay_invoice") \cup {"invoice_id"})
    BY SchemasKnow DEF Knows
  <2>3. Sends("pay_invoice") \cap {"invoice_id"} = {}
    BY DEF Sends
  <2>4. Replay("pay_invoice", params) = Request("invoices.pay", Pick(params, Sends("pay_invoice")))
    BY <2>2, <2>3, PickIsOmit DEF Replay
  <2>5. Bindable("pay_invoice", params)
    BY <2>2, ItemlessIsBindable DEF Eligible, Sends
  <2> QED
    BY <2>1, <2>4, <2>5, PaymentsAreCovered, GatedIsSound
<1> QED
  BY <1>1, <1>2, <1>3, <1>4

\* So do the subscription tools.
LEMMA SubscriptionToolsAreSound ==
  ASSUME CreateSubscription \/ UpdateSubscription \/ CancelSubscription
  PROVE  SoundCall
<1>1. CASE CreateSubscription
  <2>1. PICK params \in CreateSubscriptionSchema :
          /\ Priced(params.items)
          /\ Execute(Capability("create_subscription", "create", Gated), params, <<>>,
                     ItemsValue(params.items),
                     Request("subscriptions.create", Pick(params, Sends("create_subscription"))))
    BY <1>1 DEF CreateSubscription, Sends
  <2>2. Known(params, Sends("create_subscription"))
    BY SchemasKnow DEF Knows
  <2>3. Replay("create_subscription", params)
          = Request("subscriptions.create", Pick(params, Sends("create_subscription")))
    BY <2>2, PickAll DEF Replay
  <2>4. Bindable("create_subscription", params)
    BY <2>1, <2>2, ItemsFields, CreatedIsWorth DEF Bindable, Eligible, Known
  <2> QED
    BY <2>1, <2>3, <2>4, SubscriptionsAreCovered, GatedIsSound
<1>2. CASE UpdateSubscription
  <2> DEFINE request(params) ==
        Request("subscriptions.update", Pick(params, Sends("update_subscription")))
  <2>1. PICK params \in UpdateSubscriptionSchema, seen \in Subscriptions :
          \E amount : /\ Execute(Capability("update_subscription", "update", Gated),
                                 params, <<seen>>, amount, request(params))
                      /\ Covers("update_subscription", params, <<seen>>, amount,
                                request(params))
    BY <1>2, SubscriptionsAreCovered DEF UpdateSubscription, Sends
  <2>2. Known(params, Sends("update_subscription") \cup {"subscription_id"})
    BY SchemasKnow DEF Knows
  <2>3. Sends("update_subscription") \cap {"subscription_id"} = {}
    BY DEF Sends
  <2>4. Replay("update_subscription", params) = request(params)
    BY <2>2, <2>3, PickIsOmit DEF Replay
  <2>5. Bindable("update_subscription", params)
    BY <2>2, ItemsFields DEF Bindable, Eligible, Known
  <2> HIDE DEF request
  <2> QED
    BY <2>1, <2>4, <2>5, GatedIsSound
<1>3. CASE CancelSubscription
  <2> DEFINE request(params) ==
        IF AtPeriodEnd(params)
        THEN Request("subscriptions.update", [cancel_at_period_end |-> TRUE])
        ELSE Request("subscriptions.cancel", Pick(params, Sends("cancel_subscription")))
  <2>1. PICK params \in CancelSubscriptionSchema, seen \in Subscriptions :
          /\ Priced(seen)
          /\ Execute(Capability("cancel_subscription", "cancel", Gated),
                     params, <<seen>>, ItemsValue(seen), request(params))
    BY <1>3 DEF CancelSubscription, Sends
  <2>2. Known(params, Sends("cancel_subscription")
                        \cup {"subscription_id", "cancel_at_period_end"})
    BY SchemasKnow DEF Knows
  <2>3. Sends("cancel_subscription") \cap {"subscription_id", "cancel_at_period_end"} = {}
    BY DEF Sends
  <2>4. Replay("cancel_subscription", params) = request(params)
    BY <2>2, <2>3, PickIsOmit DEF Replay
  <2>5. Covers("cancel_subscription", params, <<seen>>, ItemsValue(seen), request(params))
    BY <2>1, SubscriptionsAreCovered
  <2>6. Bindable("cancel_subscription", params)
    BY <2>2, ItemlessIsBindable DEF Eligible, Sends
  <2> HIDE DEF request
  <2> QED
    BY <2>1, <2>4, <2>5, <2>6, GatedIsSound
<1> QED
  BY <1>1, <1>2, <1>3

\* So do the product tools and the refund.  A product without a price is gated by
\* nothing and moves no money.
LEMMA ProductToolsAreSound ==
  ASSUME CreateProduct \/ CreatePrice \/ CreateRefund
  PROVE  SoundCall
<1>1. CASE CreateProduct
  <2> DEFINE request(params) ==
        Request("products.create", Pick(params, Sends("create_product")))
  <2>1. PICK params \in CreateProductSchema :
          Execute(ProductCapability(params), params, <<>>,
                  IF Has(params, "default_price_data")
                  THEN params.default_price_data.unit_amount ELSE 0, request(params))
    BY <1>1 DEF CreateProduct, Sends
  <2>2. Known(params, Sends("create_product"))
    BY SchemasKnow DEF Knows
  <2>3. Replay("create_product", params) = request(params)
    BY <2>2, PickAll DEF Replay
  <2>4. Covers("create_product", params, <<>>,
               IF Has(params, "default_price_data")
               THEN params.default_price_data.unit_amount ELSE 0, request(params))
    BY PricesAreCovered
  <2>5. Bindable("create_product", params)
    BY <2>2, ItemlessIsBindable DEF Eligible, Sends
  <2>6. ~Has(params, "default_price_data") => \A now : Effect(request(params), now) = 0
    BY PickKeeps DEF Effect, Request, Sends
  <2> HIDE DEF request
  <2>7. CASE Has(params, "default_price_data")
    <3>1. Execute(Capability("create_product", "create", Gated), params, <<>>,
                  params.default_price_data.unit_amount, request(params))
      BY <2>1, <2>7 DEF ProductCapability
    <3>2. Covers("create_product", params, <<>>,
                 params.default_price_data.unit_amount, request(params))
      BY <2>7, <2>4
    <3> QED
      BY <2>3, <2>5, <3>1, <3>2, GatedIsSound
  <2>8. CASE ~Has(params, "default_price_data")
    <3>1. Execute(Capability("create_product", "create", {}), params, <<>>,
                  0, request(params))
      BY <2>1, <2>8 DEF ProductCapability
    <3> QED
      BY <2>3, <2>5, <2>8, <2>6, <3>1, FreeIsSound
  <2> QED
    BY <2>7, <2>8
<1>2. CASE CreatePrice
  <2>1. PICK params \in CreatePriceSchema :
          Execute(Capability("create_price", "create", Gated), params, <<>>,
                  params.unit_amount,
                  Request("prices.create", Pick(params, Sends("create_price"))))
    BY <1>2 DEF CreatePrice, Sends
  <2>2. Known(params, Sends("create_price"))
    BY SchemasKnow DEF Knows
  <2>3. Replay("create_price", params)
          = Request("prices.create", Pick(params, Sends("create_price")))
    BY <2>2, PickAll DEF Replay
  <2>4. Bindable("create_price", params)
    BY <2>2, ItemlessIsBindable DEF Eligible, Sends
  <2> QED
    BY <2>1, <2>3, <2>4, PricesAreCovered, GatedIsSound
<1>3. CASE CreateRefund
  <2>1. PICK params \in CreateRefundFields :
          \E seen \in Objects("create_refund", params) :
            Execute(Capability("create_refund", "refund", Gated), params, <<seen>>,
                    RefundAmount(params, seen),
                    Request("refunds.create", Pick(params, Sends("create_refund"))))
    BY <1>3 DEF CreateRefund, Sends
  <2>2. Known(params, Sends("create_refund"))
    BY SchemasKnow DEF Knows
  <2>3. Replay("create_refund", params)
          = Request("refunds.create", Pick(params, Sends("create_refund")))
    BY <2>2, PickAll DEF Replay
  <2>4. Bindable("create_refund", params)
    BY <2>2, ItemlessIsBindable DEF Eligible, Sends
  <2> QED
    BY <2>1, <2>3, <2>4, RefundIsCovered, GatedIsSound
<1> QED
  BY <1>1, <1>2, <1>3

----------------------------------------------------------------------------
(* The other steps, and the theorems.                                       *)

\* Nothing has happened yet.
LEMMA InitHolds == Init => ToolsInv
BY DEF Init, ToolsInv, CallShape, SentShape, ApprovalShape, TokenShape, PolicyShape,
       EffectShape, UngatedIsSmall, NoCall, NoApproval

\* A call of a tool is a sound call, or none.
LEMMA CallToolKeeps ==
  ASSUME ToolsInv, CallTool
  PROVE  ToolsInv'
<1>1. call = NoCall
  BY DEF CallTool
<1>2. SoundCall
  BY CustomerToolsAreSound, PaymentToolsAreSound, SubscriptionToolsAreSound,
     ProductToolsAreSound DEF CallTool
<1> QED
  BY <1>1, <1>2, ExecuteKeeps DEF SoundCall

\* A decision changes the status of the row and nothing else.
LEMMA ApproveKeeps ==
  ASSUME ToolsInv, Approve
  PROVE  ToolsInv'
<1>1. /\ approval # NoApproval
      /\ approval' = [approval EXCEPT !.status = "approved"]
      /\ UNCHANGED <<config, call, sent, effect>>
  BY DEF Approve
<1>2. ApprovalShape' /\ approval'.status = "approved"
  BY <1>1, StatusKeepsShape DEF ToolsInv
<1>3. TokenShape'
  BY <1>2 DEF TokenShape
<1>4. PolicyShape' /\ UngatedIsSmall'
  BY <1>1, ThresholdsStay DEF ToolsInv, PolicyShape, UngatedIsSmall
<1> QED
  BY <1>1, <1>2, <1>3, <1>4 DEF ToolsInv, CallShape, SentShape, EffectShape

\* What a call sends, on whatever object, leaves an effect that is small if nobody was
\* asked for it and the object is the one the tool has seen.
LEMMA SendIsSmall ==
  ASSUME UngatedIsSmall, PolicyShape, call.at \in {"begun", "unknown"},
         NEW now \in Objects(call.cap.tool, call.params), NEW reached \in BOOLEAN,
         NEW request, request = call.request \/ (Threshold(call.cap.operation) > 0 /\ Effect(request, now) = 0),
         Send(request, now, reached),
         call'.cap = call.cap, config' = config
  PROVE  UngatedIsSmall'
<1>1. CASE effect' = effect
  BY <1>1, ThresholdsStay DEF UngatedIsSmall
<1>2. CASE effect' = [on |-> "Stripe", value |-> Effect(request, now), by |-> call.by,
                      drift |-> Range(call.seen) \notin {{}, {now}}]
  <2>1. SUFFICES ASSUME call.by = "policy", Range(call.seen) \in {{}, {now}}
                 PROVE  Effect(request, now) < Threshold(call.cap.operation)
    BY <1>2, ThresholdsStay DEF UngatedIsSmall
  <2>2. CASE request = call.request
    BY <2>1, <2>2 DEF PolicyShape
  <2>3. CASE Threshold(call.cap.operation) > 0 /\ Effect(request, now) = 0
    BY <2>3
  <2> QED
    BY <2>2, <2>3
<1> QED
  BY <1>1, <1>2 DEF Send

\* A call that goes on keeps its token, its parameters and what they may move.
LEMMA GoingOnKeeps ==
  ASSUME ToolsInv, call.at \in {"begun", "unknown"}, approval' = approval,
         config' = config, call' \in {Finished, [call EXCEPT !.at = "unknown"]}
  PROVE  /\ CallShape' /\ ApprovalShape' /\ TokenShape' /\ PolicyShape' /\ EffectShape'
         /\ call'.cap = call.cap /\ call'.at \in {"unknown", "done"} /\ call' # NoCall
         /\ call'.at = "unknown" => call'.request = call.request
<1>1. /\ call = [at |-> call.at, cap |-> call.cap, params |-> call.params,
                 request |-> call.request, by |-> call.by, seen |-> call.seen]
      /\ Replayable(call.cap, call.params, call.request)
      /\ call # NoCall
  BY DEF ToolsInv, CallShape, NoCall
<1>2. ApprovalShape'
  BY ThresholdsStay DEF ToolsInv, ApprovalShape, OnlyZeroAsksTwice
<1>3. CASE call' = Finished
  <2>1. call' = [at |-> "done", cap |-> call.cap]
    BY <1>3 DEF Finished
  <2>2. call'.at = "done" /\ call'.cap = call.cap /\ call' # NoCall
        /\ call' = [at |-> call'.at, cap |-> call'.cap]
    BY <2>1 DEF NoCall
  <2> QED
    BY <1>2, <2>2
    DEF ToolsInv, CallShape, ApprovalShape, TokenShape, PolicyShape, EffectShape
<1>4. CASE call' = [call EXCEPT !.at = "unknown"]
  <2>1. call' = [at |-> "unknown", cap |-> call.cap, params |-> call.params,
                 request |-> call.request, by |-> call.by, seen |-> call.seen]
    BY <1>1, <1>4
  <2>2. /\ call'.at = "unknown" /\ call'.cap = call.cap /\ call'.params = call.params
        /\ call'.request = call.request /\ call'.by = call.by /\ call'.seen = call.seen
        /\ call' # NoCall
        /\ call' = [at |-> call'.at, cap |-> call'.cap, params |-> call'.params,
                    request |-> call'.request, by |-> call'.by, seen |-> call'.seen]
    BY <2>1 DEF NoCall
  <2>3. CallShape'
    BY <1>1, <2>2 DEF CallShape
  <2>4. TokenShape'
    BY <2>2 DEF ToolsInv, TokenShape
  <2>5. PolicyShape'
    BY <2>2, ThresholdsStay DEF ToolsInv, PolicyShape
  <2>6. EffectShape'
    BY <2>2 DEF EffectShape
  <2> QED
    BY <1>2, <2>2, <2>3, <2>4, <2>5, <2>6
<1> QED
  BY <1>3, <1>4

\* The operation of a call sends its request, once.
LEMMA OperationKeeps ==
  ASSUME ToolsInv, Operation
  PROVE  ToolsInv'
<1>1. /\ call.at = "begun" /\ call.at \in {"begun", "unknown"} /\ approval' = approval
      /\ config' = config
      /\ call' \in {Finished, [call EXCEPT !.at = "unknown"]}
  BY DEF Operation
<1>2. /\ CallShape' /\ ApprovalShape' /\ TokenShape' /\ PolicyShape' /\ EffectShape'
      /\ call'.cap = call.cap /\ call'.at \in {"unknown", "done"} /\ call' # NoCall
      /\ call'.at = "unknown" => call'.request = call.request
  BY <1>1, GoingOnKeeps
<1>3. PICK now \in Objects(call.cap.tool, call.params), reached \in BOOLEAN :
        UNCHANGED <<sent, effect>> \/ Send(call.request, now, reached)
  BY DEF Operation
<1>4. sent' \subseteq {call.request}
  BY <1>1, <1>3 DEF ToolsInv, SentShape, Send
<1>5. SentShape'
  BY <1>2, <1>4 DEF SentShape
<1>6. UngatedIsSmall'
  <2>1. CASE UNCHANGED <<sent, effect>>
    BY <1>1, <1>2, <2>1, ThresholdsStay DEF ToolsInv, UngatedIsSmall
  <2>2. CASE Send(call.request, now, reached)
    BY <1>1, <1>2, <1>3, <2>2, SendIsSmall DEF ToolsInv
  <2> QED
    BY <1>3, <2>1, <2>2
<1> QED
  BY <1>1, <1>2, <1>5, <1>6 DEF ToolsInv

\* The reconciler sends the same request again, or closes an archive that moves no
\* money.
LEMMA ReconcileKeeps ==
  ASSUME ToolsInv, Reconcile
  PROVE  ToolsInv'
<1> DEFINE request == Replay(call.cap.tool, call.params)
<1>1. /\ call.at = "unknown" /\ call.at \in {"begun", "unknown"} /\ approval' = approval
      /\ config' = config
      /\ call' \in {Finished, call}
  BY DEF Reconcile
<1>2. /\ call = [at |-> call.at, cap |-> call.cap, params |-> call.params,
                 request |-> call.request, by |-> call.by, seen |-> call.seen]
      /\ Replayable(call.cap, call.params, call.request)
  BY <1>1 DEF ToolsInv, CallShape, NoCall
<1>3. call' \in {Finished, [call EXCEPT !.at = "unknown"]}
  BY <1>1, <1>2
<1>4. /\ CallShape' /\ ApprovalShape' /\ TokenShape' /\ PolicyShape' /\ EffectShape'
      /\ call'.cap = call.cap /\ call'.at \in {"unknown", "done"} /\ call' # NoCall
      /\ call'.at = "unknown" => call'.request = call.request
  BY <1>1, <1>3, GoingOnKeeps
<1>5. PICK now \in Objects(call.cap.tool, call.params), reached \in BOOLEAN :
        UNCHANGED <<sent, effect>> \/ Send(request, now, reached)
  BY DEF Reconcile
<1>6. \/ request = call.request
      \/ Threshold(call.cap.operation) > 0 /\ Effect(request, now) = 0
  <2>1. CASE call.cap.tool = "archive_customer"
    <3>1. request = Request("customers.update",
                            [archived_at |-> "replayed", delete_after |-> "as found"])
      BY <2>1 DEF Replay
    <3>2. \A body, object : Effect(Request("customers.update", body), object) = 0
      BY DEF Effect, Request
    <3>3. Threshold(call.cap.operation) > 0
      BY <1>2, <2>1, ThresholdsAreNat DEF Replayable, ToolsInv
    <3> QED
      BY <3>1, <3>2, <3>3
  <2>2. CASE call.cap.tool # "archive_customer"
    BY <1>2, <2>2 DEF Replayable
  <2> QED
    BY <2>1, <2>2
<1>7. call.cap.tool # "archive_customer" => request = call.request
  BY <1>2 DEF Replayable
<1> HIDE DEF request
<1>8. call.cap.tool # "archive_customer" => sent' \subseteq {call.request}
  BY <1>1, <1>5, <1>7 DEF ToolsInv, SentShape, Send
<1>9. SentShape'
  BY <1>4, <1>8 DEF SentShape
<1>10. UngatedIsSmall'
  <2>1. CASE UNCHANGED <<sent, effect>>
    BY <1>1, <1>4, <2>1, ThresholdsStay DEF ToolsInv, UngatedIsSmall
  <2>2. CASE Send(request, now, reached)
    BY <1>1, <1>4, <1>5, <1>6, <2>2, SendIsSmall DEF ToolsInv
  <2> QED
    BY <1>5, <2>1, <2>2
<1> QED
  BY <1>1, <1>4, <1>9, <1>10 DEF ToolsInv

\* ToolsInv is an invariant of the tools: calls, requests, approvals and effects have
\* the shapes above (executeStripeOperation, dispatchReplay).
THEOREM ToolsInvariant == Spec => []ToolsInv
<1>1. Init => ToolsInv
  BY InitHolds
<1>2. ToolsInv /\ [Next]_vars => ToolsInv'
  <2> SUFFICES ASSUME ToolsInv, [Next]_vars
               PROVE  ToolsInv'
    OBVIOUS
  <2>1. CASE CallTool
    BY <2>1, CallToolKeeps
  <2>2. CASE Approve
    BY <2>2, ApproveKeeps
  <2>3. CASE Operation
    BY <2>3, OperationKeeps
  <2>4. CASE Reconcile
    BY <2>4, ReconcileKeeps
  <2>5. CASE UNCHANGED vars
    BY <2>5 DEF vars, ToolsInv, CallShape, SentShape, ApprovalShape, TokenShape, PolicyShape,
                EffectShape, UngatedIsSmall, OnlyZeroAsksTwice, Threshold
  <2> QED
    BY <2>1, <2>2, <2>3, <2>4, <2>5 DEF Next
<1> QED
  BY <1>1, <1>2, PTL DEF Spec

\* What happens without a human is small, for every set of prices, quantities, item
\* lists and thresholds (stripe-amounts.ts, updateSubscription): what the tools add up
\* before they ask is at least what Stripe adds up when it executes.
THEOREM WithoutHumansSmall == Spec => []UngatedIsSmall
<1>1. ToolsInv => UngatedIsSmall
  BY DEF ToolsInv
<1> QED
  BY <1>1, ToolsInvariant, PTL

\* The reconciler repeats the request of the call, field by field, whatever the
\* tool, its parameters and the object (dispatchReplay against the tools).
THEOREM ReplaysRepeat == Spec => []ReplayRepeats
<1>1. ToolsInv => ReplayRepeats
  <2> SUFFICES ASSUME ToolsInv, call # NoCall, call.cap.tool # "archive_customer"
               PROVE  Cardinality(sent) <= 1
    BY DEF ReplayRepeats
  <2>1. \E r : sent \subseteq {r}
    BY DEF ToolsInv, CallShape, SentShape
  <2>2. PICK r : sent \subseteq {r}
    BY <2>1
  <2>3. IsFiniteSet({r}) /\ Cardinality({r}) = 1
    BY FS_Singleton
  <2>4. Cardinality(sent) <= Cardinality({r})
    BY <2>2, <2>3, FS_Subset
  <2> QED
    BY <2>3, <2>4
<1> QED
  BY <1>1, ToolsInvariant, PTL

\* Whoever comes with a token is asked for another one at threshold 0 only, and by a
\* tool that moves no money, for every configuration (shouldRequireApproval against
\* the check of approvalEligible).
THEOREM TokensAreAccepted == Spec => []OnlyZeroAsksTwice
<1>1. ToolsInv => OnlyZeroAsksTwice
  BY DEF ToolsInv, ApprovalShape, OnlyZeroAsksTwice
<1> QED
  BY <1>1, ToolsInvariant, PTL

\* A token binds what Stripe does: whatever is sent under it moves what the approved
\* request would have moved, whatever the order of the items on the call and the state
\* of the object (canonicalize in utils/hash.ts, dispatchReplay).
THEOREM TokensBind == Spec => []TokenBindsEffect
<1>1. ToolsInv => TokenBindsEffect
  <2> SUFFICES ASSUME ToolsInv, approval # NoApproval, approval.status = "consumed",
                      call.at \in {"begun", "unknown"},
                      NEW request \in sent \cup {call.request},
                      NEW now \in Objects(call.cap.tool, call.params)
               PROVE  Effect(request, now) = Effect(approval.request, now)
    BY DEF TokenBindsEffect
  <2>1. /\ Bindable(call.cap.tool, call.params)
        /\ RequestHash(call.cap, call.params) = approval.hash
        /\ call # NoCall
    BY DEF ToolsInv, TokenShape
  <2>2. PICK params : /\ approval.cap.tool \in Eligible => Bindable(approval.cap.tool, params)
                      /\ approval.hash = RequestHash(approval.cap, params)
                      /\ approval.request = Replay(approval.cap.tool, params)
    BY DEF ToolsInv, ApprovalShape
  <2>3. /\ approval.cap.tool = call.cap.tool /\ Canonical(call.params) = Canonical(params)
        /\ Bindable(call.cap.tool, params)
    BY <2>1, <2>2 DEF RequestHash, Bindable
  <2>4. call.cap.tool # "archive_customer"
    BY <2>1 DEF Bindable, Eligible
  <2>5. request = call.request
    BY <2>4 DEF ToolsInv, SentShape
  <2>6. call.request = Replay(call.cap.tool, call.params)
    BY <2>1, <2>4 DEF ToolsInv, CallShape, Replayable
  <2>7. Effect(Replay(call.cap.tool, call.params), now)
          = Effect(Replay(call.cap.tool, params), now)
    BY <2>1, <2>3, SameHashSameEffect
  <2> QED
    BY <2>2, <2>3, <2>5, <2>6, <2>7
<1> QED
  BY <1>1, ToolsInvariant, PTL
=============================================================================

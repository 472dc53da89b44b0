----------------------------- MODULE DataProofs -----------------------------
(***************************************************************************)
(* What is proved by induction over data, for inputs and numbers of any    *)
(* size.  Webhook triggers: no subscription is lost or served twice, a run *)
(* for all chats handles each allowed one once, and the offset of the loop *)
(* skips no subscriber of a targeted trigger.  Algorithms: conditions lead *)
(* on from left to right, an update starts a trigger once, a message is    *)
(* sent as a whole and shows each button at its place, a text with any     *)
(* tags keeps its pieces and comes out well nested, data is read where it  *)
(* stands, and placeholders are replaced without disturbing each other.    *)
(***************************************************************************)
EXTENDS WebhookTrigger, Algorithms, FunctionTheorems, FiniteSetTheorems,
        SequenceTheorems, WellFoundedInduction, TLAPS

-----------------------------------------------------------------------------
(* Induction and folds.  The theorems of the library that say this take an  *)
(* operator as a parameter; here sets and functions take its place.         *)

\* A set of numbers with zero and the successor of each is all of them.
LEMMA SetInduction ==
  ASSUME NEW T, 0 \in T, \A n \in Nat : n \in T => n + 1 \in T
  PROVE  Nat \subseteq T
<1> DEFINE L == OpToRel(<, Nat)
           U == Nat \ T
<1> SUFFICES ASSUME U # {} PROVE FALSE
  OBVIOUS
<1>1. IsWellFoundedOn(L, Nat)
  BY NatLessThanWellFounded
<1>2. PICK m \in U : \A y \in U : <<y, m>> \notin L
  <2> HIDE DEF L
  <2> QED  BY <1>1, WFMin, Zenon
<1>3. m # 0 /\ m - 1 \in Nat
  OBVIOUS
<1>4. m - 1 \in U
  BY <1>3
<1>5. <<m - 1, m>> \in L
  BY <1>3 DEF OpToRel
<1> QED  BY <1>2, <1>4, <1>5

\* The equation of a fold over the subsets of a set: its value for the empty set, and the
\* others' from that of a set without one element.
IsFold(iter, S, base, pick, step) ==
    /\ DOMAIN iter = SUBSET S /\ iter[{}] = base
    /\ \A s \in (SUBSET S) \ {{}} : iter[s] = step[pick[s]][iter[s \ {pick[s]}]]

\* A function that meets it where the values it is to go on from are in X.
Follows(f, S, X, base, pick, step) ==
    /\ f[{}] = base
    /\ \A s \in (SUBSET S) \ {{}} :
          f[s \ {pick[s]}] \in X => f[s] = step[pick[s]][f[s \ {pick[s]}]]

\* It has a solution, and whatever follows it comes to the same in the end.
HasFold(S, X, base, pick, step) ==
    \E iter \in [SUBSET S -> X] :
        /\ IsFold(iter, S, base, pick, step)
        /\ \A f : Follows(f, S, X, base, pick, step) => f[S] = iter[S]

\* A choice of an element of each set that has one.
Picks(S) == {pick \in [(SUBSET S) \ {{}} -> S] : \A s \in (SUBSET S) \ {{}} : pick[s] \in s}

\* A set that is not counted as empty is not.
LEMMA Counted ==
  ASSUME NEW s, Cardinality(s) # 0
  PROVE  s # {}
<1>1. Cardinality({}) = 0
  BY FS_EmptySet, Zenon
<1> QED
  BY <1>1, Zenon

\* A set of a finite one, without one element, is one smaller.
LEMMA Without ==
  ASSUME NEW S, IsFiniteSet(S), NEW s \in SUBSET S, NEW x \in s
  PROVE  /\ s \ {x} \in SUBSET S /\ Cardinality(s) \in Nat
         /\ Cardinality(s \ {x}) \in Nat /\ Cardinality(s \ {x}) = Cardinality(s) - 1
<1>1. IsFiniteSet(s)
  BY FS_Subset
<1> QED
  BY <1>1, FS_RemoveElement, FS_CardinalityType

\* Such an equation has a solution.
LEMMA FoldExists ==
  ASSUME NEW S, IsFiniteSet(S), NEW X, NEW base \in X, NEW pick \in Picks(S),
         NEW step \in [S -> [X -> X]]
  PROVE  HasFold(S, X, base, pick, step)
<1> DEFINE Upto(n) == {s \in SUBSET S : Cardinality(s) <= n}
           Good(n, g) == /\ g[{}] = base
                         /\ \A s \in Upto(n) : s # {} => g[s] = step[pick[s]][g[s \ {pick[s]}]]
           T == {n \in Nat : \E g \in [SUBSET S -> X] : Good(n, g)}
<1>0. \A s \in (SUBSET S) \ {{}} : pick[s] \in s /\ pick[s] \in S
  BY DEF Picks
<1>1. 0 \in T
  <2> DEFINE g == [s \in SUBSET S |-> base]
  <2>1. g \in [SUBSET S -> X] /\ g[{}] = base
    OBVIOUS
  <2>2. \A s \in Upto(0) : s = {}
    <3> SUFFICES ASSUME NEW s \in SUBSET S, Cardinality(s) <= 0 PROVE s = {}
      OBVIOUS
    <3>1. IsFiniteSet(s) /\ Cardinality(s) \in Nat
      BY FS_Subset, FS_CardinalityType
    <3> QED
      BY <3>1, FS_EmptySet
  <2> HIDE DEF g
  <2> QED
    BY <2>1, <2>2
<1>2. ASSUME NEW n \in Nat, n \in T PROVE n + 1 \in T
  <2>1. PICK g \in [SUBSET S -> X] : Good(n, g)
    BY <1>2
  <2> DEFINE h == [s \in SUBSET S |-> IF Cardinality(s) <= n THEN g[s]
                                       ELSE step[pick[s]][g[s \ {pick[s]}]]]
  <2>2. h \in [SUBSET S -> X]
    <3> SUFFICES ASSUME NEW s \in SUBSET S, ~(Cardinality(s) <= n)
                 PROVE  step[pick[s]][g[s \ {pick[s]}]] \in X
      BY <2>1
    <3>1. s # {}
      BY Counted
    <3>2. pick[s] \in S /\ g[s \ {pick[s]}] \in X
      BY <3>1, <1>0, <2>1
    <3> QED
      BY <3>2
  <2>3. h[{}] = base
    BY <2>1, FS_EmptySet, SMTT(30)
  <2>4. ASSUME NEW s \in Upto(n + 1), s # {}
        PROVE  h[s] = step[pick[s]][h[s \ {pick[s]}]]
    <3>1. s \in SUBSET S /\ s \ {pick[s]} \in SUBSET S /\ Cardinality(s \ {pick[s]}) <= n
      BY <2>4, <1>0, Without
    <3>2. h[s \ {pick[s]}] = g[s \ {pick[s]}]
      BY <3>1
    <3>3. CASE Cardinality(s) <= n
      BY <3>1, <3>2, <3>3, <2>1, <2>4
    <3>4. CASE ~(Cardinality(s) <= n)
      BY <3>1, <3>2, <3>4, SMTT(30)
    <3> QED
      BY <3>3, <3>4, ZenonT(30)
  <2>5. Good(n + 1, h)
    BY <2>3, <2>4, ZenonT(30)
  <2> HIDE DEF h, Good
  <2> QED
    BY <2>2, <2>5
<1>3. Cardinality(S) \in Nat
  BY FS_CardinalityType
<1>4. Cardinality(S) \in T
  <2> HIDE DEF T
  <2> QED
    BY <1>1, <1>2, <1>3, SetInduction
<1>5. PICK iter \in [SUBSET S -> X] : Good(Cardinality(S), iter)
  BY <1>4
<1>6. IsFold(iter, S, base, pick, step)
  <2>1. \A s \in SUBSET S : s \in Upto(Cardinality(S))
    BY FS_Subset
  <2> QED
    BY <1>5, <2>1 DEF IsFold
<1>7. ASSUME NEW f, Follows(f, S, X, base, pick, step)
      PROVE  f[S] = iter[S]
  <2> DEFINE R == {n \in Nat : \A s \in SUBSET S : Cardinality(s) = n => f[s] = iter[s]}
  <2>1. 0 \in R
    BY <1>6, <1>7, FS_Subset, FS_EmptySet DEF IsFold, Follows
  <2>2. ASSUME NEW n \in Nat, n \in R PROVE n + 1 \in R
    <3> SUFFICES ASSUME NEW s \in SUBSET S, Cardinality(s) = n + 1 PROVE f[s] = iter[s]
      OBVIOUS
    <3>1. s # {}
      BY Counted
    <3>2. pick[s] \in s /\ s \ {pick[s]} \in SUBSET S /\ Cardinality(s \ {pick[s]}) = n
      BY <3>1, <1>0, Without
    <3>3. f[s \ {pick[s]}] = iter[s \ {pick[s]}] /\ iter[s \ {pick[s]}] \in X
      BY <2>2, <3>2
    <3> QED
      BY <1>6, <1>7, <3>1, <3>3 DEF IsFold, Follows
  <2>3. Cardinality(S) \in R
    <3> HIDE DEF R
    <3> QED
      BY <2>1, <2>2, <1>3, SetInduction
  <2> QED
    BY <2>3
<1> QED
  BY <1>6, <1>7, Zenon DEF HasFold

-----------------------------------------------------------------------------
(* Sums.                                                                    *)

\* An element of each set, and what is done with it: SumFunctionOnSet adds the values one by one.
Some(S) == [s \in (SUBSET S) \ {{}} |-> CHOOSE x \in s : TRUE]
Adding(f, S) == [x \in S |-> [sum \in Int |-> f[x] + sum]]

\* The sum over a set is what the equation comes to.
LEMMA SumFolds ==
  ASSUME NEW S, IsFiniteSet(S), NEW f, \A x \in S : f[x] \in Int
  PROVE  /\ Some(S) \in Picks(S)
         /\ \E iter \in [SUBSET S -> Int] :
              IsFold(iter, S, 0, Some(S), Adding(f, S)) /\ SumFunctionOnSet(f, S) = iter[S]
<1> DEFINE Eqn(iter) == iter = [s \in SUBSET S |-> IF s = {} THEN 0
                                   ELSE f[CHOOSE x \in s : TRUE] + iter[s \ {CHOOSE x \in s : TRUE}]]
           chosen == CHOOSE iter : Eqn(iter)
<1>1. Some(S) \in Picks(S)
  BY DEF Some, Picks
<1>2. Adding(f, S) \in [S -> [Int -> Int]]
  BY DEF Adding
<1>3. PICK iter \in [SUBSET S -> Int] :
        /\ IsFold(iter, S, 0, Some(S), Adding(f, S))
        /\ \A g : Follows(g, S, Int, 0, Some(S), Adding(f, S)) => g[S] = iter[S]
  <2>1. 0 \in Int
    OBVIOUS
  <2>2. HasFold(S, Int, 0, Some(S), Adding(f, S))
    BY <2>1, <1>1, <1>2, FoldExists, Zenon
  <2> QED
    BY <2>2, Zenon DEF HasFold
<1>4. \A s \in (SUBSET S) \ {{}} : /\ Some(S)[s] = CHOOSE x \in s : TRUE
                                   /\ Some(S)[s] \in s /\ s \ {Some(S)[s]} \in SUBSET S
  BY DEF Some
<1>5. Eqn(iter)
  BY <1>3, <1>4 DEF IsFold, Adding
<1>6. Eqn(chosen)
  <2> HIDE DEF Eqn
  <2> QED
    BY <1>5
<1>7. SumFunctionOnSet(f, S) = chosen[S]
  BY DEF SumFunctionOnSet, FoldFunctionOnSet, MapThenFoldSet
<1> HIDE DEF chosen
<1>8. chosen[{}] = 0
  BY <1>6
<1>9. Follows(chosen, S, Int, 0, Some(S), Adding(f, S))
  <2>1. ASSUME NEW s \in (SUBSET S) \ {{}}, chosen[s \ {Some(S)[s]}] \in Int
        PROVE  chosen[s] = Adding(f, S)[Some(S)[s]][chosen[s \ {Some(S)[s]}]]
    <3> DEFINE x == Some(S)[s]
               rest == s \ {x}
    <3>1. x \in S /\ Adding(f, S)[x][chosen[rest]] = f[x] + chosen[rest]
      BY <1>4, <2>1 DEF Adding
    <3>2. chosen[s] = f[x] + chosen[rest]
      BY <1>4, <1>6
    <3> QED
      BY <3>1, <3>2
  <2> QED
    BY <1>8, <2>1 DEF Follows
<1>10. chosen[S] = iter[S]
  BY <1>3, <1>9, Zenon
<1> QED
  BY <1>1, <1>3, <1>7, <1>10

\* Two functions that differ in one place have sums that differ by as much.
LEMMA SumChanged ==
  ASSUME NEW S, IsFiniteSet(S), NEW f, NEW g, \A y \in S : f[y] \in Int /\ g[y] \in Int,
         NEW x \in S, \A y \in S \ {x} : g[y] = f[y]
  PROVE  /\ SumFunctionOnSet(f, S) \in Int
         /\ SumFunctionOnSet(g, S) = SumFunctionOnSet(f, S) + g[x] - f[x]
<1> DEFINE pick == Some(S)
<1>1. PICK a \in [SUBSET S -> Int] :
        IsFold(a, S, 0, pick, Adding(f, S)) /\ SumFunctionOnSet(f, S) = a[S]
  BY SumFolds
<1>2. PICK b \in [SUBSET S -> Int] :
        IsFold(b, S, 0, pick, Adding(g, S)) /\ SumFunctionOnSet(g, S) = b[S]
  BY SumFolds
<1>3. pick \in Picks(S)
  BY SumFolds
<1> HIDE DEF pick
<1> DEFINE Fits(s) == b[s] = a[s] + (IF x \in s THEN g[x] - f[x] ELSE 0)
           T == {n \in Nat : \A s \in SUBSET S : Cardinality(s) = n => Fits(s)}
<1>4. 0 \in T
  <2>1. Fits({})
    BY <1>1, <1>2 DEF IsFold
  <2> QED
    BY <2>1, FS_Subset, FS_EmptySet
<1>5. ASSUME NEW n \in Nat, n \in T PROVE n + 1 \in T
  <2> SUFFICES ASSUME NEW s \in SUBSET S, Cardinality(s) = n + 1 PROVE Fits(s)
    OBVIOUS
  <2>1. s # {}
    BY Counted
  <2> DEFINE p == pick[s]
             rest == s \ {p}
  <2>2. p \in s /\ p \in S /\ rest \in SUBSET S /\ Cardinality(rest) = n
    BY <1>3, <2>1, Without DEF Picks
  <2>3. Fits(rest)
    BY <1>5, <2>2
  <2>4. a[s] = f[p] + a[rest] /\ b[s] = g[p] + b[rest]
    BY <1>1, <1>2, <2>1, <2>2 DEF IsFold, Adding
  <2>5. f[p] \in Int /\ g[p] \in Int /\ f[x] \in Int /\ g[x] \in Int
        /\ a[rest] \in Int /\ b[rest] \in Int
    BY <1>1, <1>2, <2>2
  <2>6. p # x => g[p] = f[p]
    BY <2>2
  <2>7. x \in rest <=> x \in s /\ x # p
    OBVIOUS
  <2> HIDE DEF p, rest
  <2> QED
    BY <2>2, <2>3, <2>4, <2>5, <2>6, <2>7
<1>6. Cardinality(S) \in Nat
  BY FS_CardinalityType
<1>7. Cardinality(S) \in T
  <2> HIDE DEF T
  <2> QED
    BY <1>4, <1>5, <1>6, SetInduction
<1>8. Fits(S)
  BY <1>7
<1>9. f[x] \in Int /\ g[x] \in Int /\ a[S] \in Int
  OBVIOUS
<1> QED
  BY <1>1, <1>2, <1>8, <1>9

\* The sum of zeros.
LEMMA SumZero ==
  ASSUME NEW S, IsFiniteSet(S), NEW f, \A x \in S : f[x] = 0
  PROVE  SumFunctionOnSet(f, S) = 0
<1> DEFINE pick == Some(S)
<1>0. \A x \in S : f[x] \in Int
  OBVIOUS
<1>1. PICK a \in [SUBSET S -> Int] :
        IsFold(a, S, 0, pick, Adding(f, S)) /\ SumFunctionOnSet(f, S) = a[S]
  BY <1>0, SumFolds, Zenon
<1>2. pick \in Picks(S)
  BY <1>0, SumFolds, Zenon
<1> HIDE DEF pick
<1> DEFINE T == {n \in Nat : \A s \in SUBSET S : Cardinality(s) = n => a[s] = 0}
<1>3. 0 \in T
  BY <1>1, FS_Subset, FS_EmptySet DEF IsFold
<1>4. ASSUME NEW n \in Nat, n \in T PROVE n + 1 \in T
  <2> SUFFICES ASSUME NEW s \in SUBSET S, Cardinality(s) = n + 1 PROVE a[s] = 0
    OBVIOUS
  <2>1. s # {}
    BY Counted
  <2> DEFINE p == pick[s]
             rest == s \ {p}
  <2>2. p \in s /\ p \in S /\ rest \in SUBSET S /\ Cardinality(rest) = n
    BY <1>2, <2>1, Without DEF Picks
  <2>3. a[s] = f[p] + a[rest]
    BY <1>1, <2>1, <2>2 DEF IsFold, Adding
  <2> HIDE DEF p, rest
  <2> QED
    BY <1>4, <2>2, <2>3
<1>5. Cardinality(S) \in Nat
  BY FS_CardinalityType
<1>6. Cardinality(S) \in T
  <2> HIDE DEF T
  <2> QED
    BY <1>3, <1>4, <1>5, SetInduction
<1> QED
  BY <1>1, <1>6

-----------------------------------------------------------------------------
(* Folds of sequences.                                                      *)

\* FoldLeft takes the largest index out first.
Largest(n) == [s \in (SUBSET (1 .. n)) \ {{}} |-> Max(s)]

\* The values of a fold from left to right; what FoldLeft computes is the last of them, and
\* its equation has a solution.
HasStages(n, X, base, step) ==
    \E at \in [0 .. n -> X] : \E iter \in [SUBSET (1 .. n) -> X] :
        /\ at[0] = base /\ \A i \in 1 .. n : at[i] = step[i][at[i - 1]]
        /\ IsFold(iter, 1 .. n, base, Largest(n), step)
        /\ \A f : Follows(f, 1 .. n, X, base, Largest(n), step) => f[1 .. n] = at[n]

\* A set of numbers of an interval has a largest.
LEMMA MaxOf ==
  ASSUME NEW n \in Nat, NEW s \in SUBSET (1 .. n), s # {}
  PROVE  Max(s) \in s /\ \A x \in s : Max(s) >= x
<1> DEFINE L == OpToRel(<, Nat)
           U == {n - x : x \in s}
<1>1. U \subseteq Nat /\ U # {}
  <2>1. \A x \in s : n - x \in Nat
    OBVIOUS
  <2> QED
    BY <2>1
<1>2. PICK m \in U : \A y \in U : <<y, m>> \notin L
  <2>1. IsWellFoundedOn(L, Nat)
    BY NatLessThanWellFounded
  <2> HIDE DEF L, U
  <2> QED
    BY <1>1, <2>1, WFMin, Zenon
<1>3. \A y \in U : ~(y < m)
  BY <1>1, <1>2 DEF OpToRel
<1>4. PICK x \in s : m = n - x
  BY <1>2
<1>5. \A y \in s : x >= y
  <2> TAKE y \in s
  <2>1. ~(n - y < n - x)
    BY <1>3, <1>4
  <2> QED
    BY <2>1
<1> HIDE DEF L, U
<1> QED
  BY <1>5 DEF Max

\* The largest is a choice, and that of an interval is its end.
LEMMA LargestPicks ==
  ASSUME NEW n \in Nat
  PROVE  /\ Largest(n) \in Picks(1 .. n)
         /\ \A i \in 1 .. n : Largest(n)[1 .. i] = i
<1>1. Largest(n) \in Picks(1 .. n)
  BY MaxOf DEF Largest, Picks
<1>2. ASSUME NEW i \in 1 .. n PROVE Largest(n)[1 .. i] = i
  <2>1. 1 .. i \in SUBSET (1 .. n) /\ i \in 1 .. i
    OBVIOUS
  <2>2. Max(1 .. i) \in 1 .. i /\ Max(1 .. i) >= i
    BY <2>1, MaxOf
  <2>3. Largest(n)[1 .. i] = Max(1 .. i)
    BY <2>1 DEF Largest
  <2> QED
    BY <2>2, <2>3
<1> QED
  BY <1>1, <1>2

\* So a fold goes through its stages in order.
LEMMA StepByStep ==
  ASSUME NEW n \in Nat, NEW X, NEW base \in X, NEW step \in [1 .. n -> [X -> X]]
  PROVE  HasStages(n, X, base, step)
<1> DEFINE S == 1 .. n
           pick == Largest(n)
<1>1. IsFiniteSet(S)
  BY FS_Interval
<1>2. pick \in Picks(S) /\ \A i \in 1 .. n : pick[1 .. i] = i
  BY LargestPicks
<1>3. HasFold(S, X, base, pick, step)
  <2> HIDE DEF S, pick
  <2>1. step \in [S -> [X -> X]]
    BY DEF S
  <2> QED
    BY <1>1, <1>2, <2>1, FoldExists, Zenon
<1>4. PICK iter \in [SUBSET S -> X] :
        /\ IsFold(iter, S, base, pick, step)
        /\ \A f : Follows(f, S, X, base, pick, step) => f[S] = iter[S]
  <2> HIDE DEF S, pick
  <2> QED
    BY <1>3, Zenon DEF HasFold
<1> HIDE DEF pick
<1> DEFINE at == [i \in 0 .. n |-> iter[1 .. i]]
<1>5. at \in [0 .. n -> X]
  OBVIOUS
<1>6. at[0] = base
  <2>1. 1 .. 0 = {}
    OBVIOUS
  <2> QED
    BY <1>4, <2>1 DEF IsFold
<1>7. ASSUME NEW i \in 1 .. n PROVE at[i] = step[i][at[i - 1]]
  <2>1. 1 .. i \in (SUBSET S) \ {{}} /\ (1 .. i) \ {i} = 1 .. (i - 1) /\ i - 1 \in 0 .. n
    OBVIOUS
  <2>2. iter[1 .. i] = step[i][iter[1 .. (i - 1)]]
    BY <1>2, <1>4, <2>1, ZenonT(30) DEF IsFold
  <2> QED
    BY <2>1, <2>2
<1>8. at[n] = iter[1 .. n]
  OBVIOUS
<1>9. \A f : Follows(f, 1 .. n, X, base, pick, step) => f[1 .. n] = at[n]
  BY <1>4, <1>8
<1>10. IsFold(iter, 1 .. n, base, pick, step)
  BY <1>4
<1> HIDE DEF at
<1> QED
  BY <1>5, <1>6, <1>7, <1>9, <1>10, Zenon DEF HasStages, pick

-----------------------------------------------------------------------------
(* Filters.                                                                 *)

\* What is kept so far, after each element.
KeptBy(n, Y, s, S) == \E at \in [0 .. n -> Seq(Y)] :
    /\ at[0] = <<>> /\ Kept(s, S) = at[n]
    /\ \A i \in 1 .. n : at[i] = IF s[i] \in S THEN Append(at[i - 1], s[i]) ELSE at[i - 1]

LEMMA KeptStages ==
  ASSUME NEW n \in Nat, NEW Y, NEW s \in [1 .. n -> Y], NEW S
  PROVE  KeptBy(n, Y, s, S)
<1> DEFINE X == Seq(Y)
           Then(i, kept) == IF s[i] \in S THEN Append(kept, s[i]) ELSE kept
           step == [i \in 1 .. n |-> [kept \in X |-> Then(i, kept)]]
           Eqn(iter) == iter = [t \in SUBSET (1 .. n) |-> IF t = {} THEN <<>>
                                   ELSE Then(Max(t), iter[t \ {Max(t)}])]
           chosen == CHOOSE iter : Eqn(iter)
<1>1. <<>> \in X /\ step \in [1 .. n -> [X -> X]]
  OBVIOUS
<1>0. \A i \in 1 .. n : \A kept \in X : step[i][kept] = Then(i, kept)
  OBVIOUS
<1>2. Kept(s, S) = chosen[1 .. n]
  BY DEF Kept, FoldLeft, MapThenFoldSet
<1>3. HasStages(n, X, <<>>, step)
  <2> HIDE DEF X, step
  <2> QED
    BY <1>1, StepByStep, Zenon
<1>4. PICK at \in [0 .. n -> X], iter \in [SUBSET (1 .. n) -> X] :
        /\ at[0] = <<>> /\ \A i \in 1 .. n : at[i] = step[i][at[i - 1]]
        /\ IsFold(iter, 1 .. n, <<>>, Largest(n), step)
        /\ \A f : Follows(f, 1 .. n, X, <<>>, Largest(n), step) => f[1 .. n] = at[n]
  <2> HIDE DEF X, step
  <2> QED
    BY <1>3, Zenon DEF HasStages
<1>5. \A t \in (SUBSET (1 .. n)) \ {{}} :
         Largest(n)[t] = Max(t) /\ Max(t) \in 1 .. n /\ t \ {Max(t)} \in SUBSET (1 .. n)
  BY MaxOf DEF Largest
<1>6. Eqn(iter)
  <2>1. iter[{}] = <<>>
    BY <1>4 DEF IsFold
  <2>2. ASSUME NEW t \in (SUBSET (1 .. n)) \ {{}}
        PROVE  iter[t] = Then(Max(t), iter[t \ {Max(t)}])
    <3> HIDE DEF X, step, Then
    <3>1. iter[t] = step[Max(t)][iter[t \ {Max(t)}]]
      BY <1>4, <1>5 DEF IsFold
    <3>2. iter[t \ {Max(t)}] \in X
      BY <1>5
    <3> QED
      BY <3>1, <3>2, <1>0, <1>5
  <2> HIDE DEF X, step, Then
  <2> QED
    BY <2>1, <2>2
<1>7. Eqn(chosen)
  <2> HIDE DEF Eqn
  <2> QED
    BY <1>6
<1> HIDE DEF chosen
<1>8. Follows(chosen, 1 .. n, X, <<>>, Largest(n), step)
  <2>1. chosen[{}] = <<>>
    BY <1>7
  <2>2. ASSUME NEW t \in (SUBSET (1 .. n)) \ {{}}, chosen[t \ {Largest(n)[t]}] \in X
        PROVE  chosen[t] = step[Largest(n)[t]][chosen[t \ {Largest(n)[t]}]]
    <3> HIDE DEF X, step, Then
    <3>1. Largest(n)[t] = Max(t) /\ Max(t) \in 1 .. n
      BY <1>5
    <3>2. chosen[t] = Then(Max(t), chosen[t \ {Max(t)}])
      BY <1>7
    <3> QED
      BY <3>1, <3>2, <1>0, <2>2
  <2> HIDE DEF X, step
  <2> QED
    BY <2>1, <2>2 DEF Follows
<1>9. chosen[1 .. n] = at[n]
  <2> HIDE DEF X, step
  <2> QED
    BY <1>4, <1>8, Zenon
<1>10. ASSUME NEW i \in 1 .. n PROVE at[i] = Then(i, at[i - 1])
  <2> HIDE DEF X, step, Then
  <2>1. at[i - 1] \in X
    OBVIOUS
  <2> QED
    BY <2>1, <1>0, <1>4
<1>11. at \in [0 .. n -> Seq(Y)] /\ at[0] = <<>> /\ Kept(s, S) = at[n]
  BY <1>2, <1>4, <1>9
<1> HIDE DEF X, step
<1> QED
  BY <1>10, <1>11, Zenon DEF KeptBy

\* What is kept of a sequence without repetitions.
LEMMA KeptOnce ==
  ASSUME NEW Y, NEW s \in Seq(Y), IsInjective(s), NEW S
  PROVE  /\ Kept(s, S) \in Seq(Y) /\ IsInjective(Kept(s, S))
         /\ ToSet(Kept(s, S)) = ToSet(s) \cap S
<1> DEFINE n == Len(s)
           Seen(i) == {s[j] : j \in 1 .. i}
<1>1. n \in Nat /\ s \in [1 .. n -> Y] /\ \A i, j \in 1 .. n : s[i] = s[j] => i = j
  BY DEF IsInjective
<1>2. PICK at \in [0 .. n -> Seq(Y)] :
        /\ at[0] = <<>> /\ Kept(s, S) = at[n]
        /\ \A i \in 1 .. n : at[i] = IF s[i] \in S THEN Append(at[i - 1], s[i]) ELSE at[i - 1]
  <2> HIDE DEF n
  <2>1. KeptBy(n, Y, s, S)
    BY <1>1, KeptStages, Zenon
  <2> QED
    BY <2>1, Zenon DEF KeptBy
<1> HIDE DEF n
<1> DEFINE Fits(i) == ToSet(at[i]) = Seen(i) \cap S /\ IsInjective(at[i])
           T == {i \in Nat : i <= n => Fits(i)}
<1>3. 0 \in T
  BY <1>2 DEF ToSet, IsInjective
<1>4. ASSUME NEW i \in Nat, i \in T PROVE i + 1 \in T
  <2> SUFFICES ASSUME i + 1 <= n PROVE Fits(i + 1)
    OBVIOUS
  <2> DEFINE x == s[i + 1]
             before == at[i]
  <2>1. Fits(i) /\ i + 1 \in 1 .. n /\ i \in 0 .. n /\ i + 1 - 1 = i
    <3> HIDE DEF Fits
    <3> QED
      BY <1>1, <1>4
  <2>2. at[i + 1] = IF x \in S THEN Append(before, x) ELSE before
    BY <1>2, <2>1
  <2>3. Seen(i + 1) = Seen(i) \cup {x} /\ x \notin Seen(i)
    BY <1>1, <2>1
  <2>4. before \in Seq(Y) /\ x \in Y /\ ToSet(before) = Seen(i) \cap S /\ IsInjective(before)
    BY <1>1, <2>1
  <2> HIDE DEF x, before, Seen
  <2>5. CASE x \notin S
    BY <2>2, <2>3, <2>4, <2>5
  <2>6. CASE x \in S
    <3>1. ToSet(Append(before, x)) = ToSet(before) \cup {x}
      <4>1. \A j \in DOMAIN before : Append(before, x)[j] = before[j]
        BY <2>4
      <4>2. DOMAIN Append(before, x) = DOMAIN before \cup {Len(before) + 1}
        BY <2>4
      <4>3. Append(before, x)[Len(before) + 1] = x
        BY <2>4
      <4> HIDE DEF x, before
      <4> QED
        BY <4>1, <4>2, <4>3 DEF ToSet
    <3>2. x \notin ToSet(before)
      BY <2>3, <2>4
    <3>3. IsInjective(Append(before, x))
      BY <3>2, <2>4 DEF IsInjective, ToSet
    <3> QED
      BY <2>2, <2>3, <2>4, <2>6, <3>1, <3>3
  <2> QED
    BY <2>5, <2>6
<1>5. Fits(n)
  <2> HIDE DEF T
  <2>1. n \in T
    BY <1>1, <1>3, <1>4, SetInduction
  <2> QED
    BY <2>1, <1>1 DEF T
<1>6. Seen(n) = ToSet(s)
  BY <1>1 DEF ToSet
<1>7. at[n] \in Seq(Y)
  BY <1>1
<1> QED
  BY <1>2, <1>5, <1>6, <1>7

-----------------------------------------------------------------------------
(* Batches.                                                                 *)

\* A subset of the subjects is finite, and counted by a number.
LEMMA SubjectsFinite ==
  ASSUME NEW S, S \subseteq Subjects
  PROVE  IsFiniteSet(S) /\ Cardinality(S) \in Nat
  BY SubjectsAssumption, FS_Subset, FS_CardinalityType

\* A sequence made from a finite set has each of its elements once.
LEMMA SetToSeqElements ==
  ASSUME NEW S, IsFiniteSet(S)
  PROVE  SetToSeq(S) \in [1 .. Cardinality(S) -> S] /\ IsInjective(SetToSeq(S))
         /\ ToSet(SetToSeq(S)) = S
<1> DEFINE n == Cardinality(S)
<1>1. n \in Nat /\ ExistsBijection(1 .. n, S)
  BY FS_CardinalityType
<1>2. \E f \in [1 .. n -> S] : IsInjective(f)
  BY <1>1, Zenon DEF ExistsBijection, Bijection, Injection, IsInjective
<1>3. SetToSeq(S) \in [1 .. n -> S] /\ IsInjective(SetToSeq(S))
  BY <1>2, Zenon DEF SetToSeq
<1>4. SetToSeq(S) \in Injection(1 .. n, S)
  BY <1>3, Zenon DEF Injection, IsInjective
<1>5. IsFiniteSet(1 .. n) /\ Cardinality(1 .. n) = n
  BY <1>1, FS_Interval, SMT
<1>6. SetToSeq(S) \in Surjection(1 .. n, S)
  BY <1>4, <1>5, FS_Injection, Zenon
<1> QED
  BY <1>3, <1>6, Zenon DEF ToSet, Surjection

\* The place in its batch of an element, and the batch that has it.
LEMMA BatchOf ==
  ASSUME NEW n \in Nat, NEW i \in 1 .. n
  PROVE  \E k \in 1 .. ((n + Batch - 1) \div Batch) :
            (k - 1) * Batch + 1 <= i /\ i <= k * Batch
<1> DEFINE q == (i - 1) \div Batch
           N == (n + Batch - 1) \div Batch
<1>1. q \in Nat /\ q * Batch <= i - 1 /\ i - 1 < (q + 1) * Batch
  BY SizesAssumption
<1>2. N \in Nat /\ n + Batch - 1 < (N + 1) * Batch
  BY SizesAssumption
<1>3. q + 1 <= N
  <2>1. SUFFICES ASSUME N <= q PROVE FALSE
    BY <1>1, <1>2
  <2>2. (N + 1) * Batch <= (q + 1) * Batch
    BY <2>1, <1>1, <1>2, SizesAssumption
  <2>3. (q + 1) * Batch = q * Batch + Batch
    BY <1>1, SizesAssumption
  <2> QED
    BY <1>1, <1>2, <2>2, <2>3, SizesAssumption
<1>4. q + 1 \in 1 .. N /\ (q + 1 - 1) * Batch + 1 <= i /\ i <= (q + 1) * Batch
  BY <1>1, <1>2, <1>3, SizesAssumption
<1> QED
  BY <1>4, SizesAssumption

\* The elements of a stretch of a sequence.
Stretch(s, from, to) == {s[i] : i \in from .. to}

\* Where a batch begins and ends.
LEMMA BatchBounds ==
  ASSUME NEW n \in Nat, NEW k \in 1 .. ((n + Batch - 1) \div Batch)
  PROVE  /\ (k - 1) * Batch + 1 \in 1 .. n /\ k * Batch \in Nat
         /\ (k - 1) * Batch + 1 <= k * Batch
<1> DEFINE N == (n + Batch - 1) \div Batch
<1>1. N \in Nat /\ N * Batch <= n + Batch - 1
  BY SizesAssumption
<1>2. k \in Nat \ {0} /\ k <= N
  BY <1>1
<1> HIDE DEF N
<1>3. k * Batch <= N * Batch
  BY <1>1, <1>2, SizesAssumption
<1>4. (k - 1) * Batch = k * Batch - Batch /\ k * Batch \in Nat /\ (k - 1) * Batch \in Nat
  BY <1>2, SizesAssumption
<1> QED
  BY <1>1, <1>3, <1>4, SizesAssumption

\* How batches are cut.
LEMMA ChunksAre ==
  ASSUME NEW S, NEW n \in Nat, NEW s \in [1 .. n -> S]
  PROVE  LET N == (n + Batch - 1) \div Batch IN
         /\ N \in Nat /\ Chunks(s) \in [1 .. N -> SUBSET S]
         /\ \A k \in 1 .. N : Chunks(s)[k] = Stretch(s, (k - 1) * Batch + 1, Least(k * Batch, n))
<1> DEFINE N == (n + Batch - 1) \div Batch
           Share(k) == SubSeq(s, (k - 1) * Batch + 1, Least(k * Batch, n))
<1>1. Len(s) = n
  OBVIOUS
<1>2. Chunks(s) = [k \in 1 .. N |-> ToSet(Share(k))]
  BY <1>1 DEF Chunks
<1>3. ASSUME NEW k \in 1 .. N
      PROVE  /\ ToSet(Share(k)) = Stretch(s, (k - 1) * Batch + 1, Least(k * Batch, n))
             /\ ToSet(Share(k)) \in SUBSET S
  <2>1. /\ (k - 1) * Batch + 1 \in Nat \ {0} /\ Least(k * Batch, n) \in Nat
        /\ Least(k * Batch, n) <= n /\ (k - 1) * Batch + 1 <= Least(k * Batch, n)
    BY BatchBounds DEF Least
  <2>2. ASSUME NEW from, NEW to, from \in Nat \ {0}, to \in Nat, to <= n, from <= to
        PROVE  ToSet(SubSeq(s, from, to)) = Stretch(s, from, to)
    <3> DEFINE part == SubSeq(s, from, to)
               m == to - from + 1
    <3>1. s \in Seq(S) /\ Len(s) = n
      OBVIOUS
    <3>2. part \in Seq(S) /\ Len(part) = m /\ \A j \in 1 .. m : part[j] = s[from + j - 1]
      BY <2>2, <3>1
    <3>3. DOMAIN part = 1 .. m /\ m \in Nat
      BY <2>2, <3>2
    <3> HIDE DEF part
    <3>4. ASSUME NEW j \in 1 .. m
          PROVE  from + j - 1 \in from .. to /\ part[j] = s[from + j - 1]
      BY <2>2, <3>2, <3>3
    <3>5. ASSUME NEW i \in from .. to
          PROVE  i - from + 1 \in 1 .. m /\ part[i - from + 1] = s[i]
      BY <2>2, <3>2, <3>3
    <3>6. {part[j] : j \in 1 .. m} = {s[i] : i \in from .. to}
      <4> HIDE DEF m
      <4>1. ASSUME NEW j \in 1 .. m PROVE part[j] \in {s[i] : i \in from .. to}
        BY <3>4, Zenon
      <4>2. ASSUME NEW i \in from .. to PROVE s[i] \in {part[j] : j \in 1 .. m}
        BY <3>5, Zenon
      <4> QED
        BY <4>1, <4>2, Zenon
    <3> QED
      BY <3>3, <3>6 DEF ToSet, part, Stretch
  <2>3. \A i \in (k - 1) * Batch + 1 .. Least(k * Batch, n) : s[i] \in S
    BY <2>1
  <2>4. Stretch(s, (k - 1) * Batch + 1, Least(k * Batch, n)) \in SUBSET S
    BY <2>3 DEF Stretch
  <2> QED
    BY <2>1, <2>2, <2>4, Zenon
<1>4. N \in Nat
  BY SizesAssumption
<1> HIDE DEF N, Share
<1>5. \A k \in 1 .. N : Chunks(s)[k] = ToSet(Share(k))
  BY <1>2, Zenon
<1>6. Chunks(s) \in [1 .. N -> SUBSET S]
  BY <1>2, <1>3
<1> QED
  BY <1>3, <1>4, <1>5, <1>6, Zenon DEF N

\* Batches have the elements of the sequence they are cut from, and no others.
LEMMA ChunksCover ==
  ASSUME NEW S, NEW n \in Nat, NEW s \in [1 .. n -> S]
  PROVE  UNION ToSet(Chunks(s)) = ToSet(s)
<1> DEFINE N == (n + Batch - 1) \div Batch
           Share(k) == Stretch(s, (k - 1) * Batch + 1, Least(k * Batch, n))
<1>1. DOMAIN Chunks(s) = 1 .. N /\ \A k \in 1 .. N : Chunks(s)[k] = Share(k)
  BY ChunksAre
<1>2. ToSet(Chunks(s)) = {Chunks(s)[k] : k \in DOMAIN Chunks(s)} /\ ToSet(s) = {s[i] : i \in DOMAIN s}
  BY Zenon DEF ToSet
<1>3. ASSUME NEW i \in 1 .. n
      PROVE  \E k \in 1 .. N : s[i] \in Share(k)
  <2>1. PICK k \in 1 .. N : (k - 1) * Batch + 1 <= i /\ i <= k * Batch
    BY BatchOf, Zenon DEF N
  <2>2. i \in (k - 1) * Batch + 1 .. Least(k * Batch, n)
    BY <2>1, BatchBounds DEF Least, N
  <2> QED
    BY <2>1, <2>2, Zenon DEF Stretch
<1>4. ASSUME NEW k \in 1 .. N
      PROVE  Share(k) \subseteq {s[i] : i \in DOMAIN s}
  <2>1. (k - 1) * Batch + 1 .. Least(k * Batch, n) \subseteq DOMAIN s
    BY BatchBounds DEF Least, N
  <2> QED
    BY <2>1, Zenon DEF Stretch
<1>5. DOMAIN s = 1 .. n
  OBVIOUS
<1> HIDE DEF Share, N
<1> QED
  BY <1>1, <1>2, <1>3, <1>4, <1>5

\* No place is in two batches.
LEMMA OneBatch ==
  ASSUME NEW i \in Nat, NEW k \in Nat \ {0}, NEW j \in Nat \ {0},
         (k - 1) * Batch + 1 <= i, i <= k * Batch,
         (j - 1) * Batch + 1 <= i, i <= j * Batch
  PROVE  k = j
<1>1. ASSUME NEW a \in Nat \ {0}, NEW b \in Nat \ {0}, a < b, i <= a * Batch,
             (b - 1) * Batch + 1 <= i
      PROVE  FALSE
  <2>1. a <= b - 1 /\ a * Batch \in Nat /\ (b - 1) * Batch \in Nat
    BY <1>1, SizesAssumption
  <2>2. a * Batch <= (b - 1) * Batch
    BY <2>1, <1>1, SizesAssumption
  <2> QED
    BY <1>1, <2>1, <2>2
<1>2. ~(k < j)
  BY <1>1
<1>3. ~(j < k)
  BY <1>1
<1> QED
  BY <1>2, <1>3

\* In how many batches one is.
Times(x, todo) == Cardinality({k \in DOMAIN todo : x \in todo[k]})

\* Batches cut from a sequence without repetition have each of its elements once.
LEMMA TimesInChunks ==
  ASSUME NEW S, NEW n \in Nat, NEW s \in [1 .. n -> S], IsInjective(s), NEW x
  PROVE  Times(x, Chunks(s)) = IF x \in Stretch(s, 1, n) THEN 1 ELSE 0
<1> DEFINE N == (n + Batch - 1) \div Batch
           In == {k \in 1 .. N : x \in Stretch(s, (k - 1) * Batch + 1, Least(k * Batch, n))}
<1>1. N \in Nat /\ DOMAIN Chunks(s) = 1 .. N /\ \A k \in 1 .. N :
        Chunks(s)[k] = Stretch(s, (k - 1) * Batch + 1, Least(k * Batch, n))
  BY ChunksAre
<1> HIDE DEF N
<1>2. Times(x, Chunks(s)) = Cardinality(In)
  <2>1. {k \in DOMAIN Chunks(s) : x \in Chunks(s)[k]} = In
    BY <1>1
  <2> QED
    BY <2>1, Zenon DEF Times
<1>3. ASSUME NEW k \in 1 .. N, NEW i \in (k - 1) * Batch + 1 .. Least(k * Batch, n)
      PROVE  i \in 1 .. n /\ (k - 1) * Batch + 1 <= i /\ i <= k * Batch
  BY BatchBounds DEF Least, N
<1>4. CASE x \notin Stretch(s, 1, n)
  <2>1. In = {}
    BY <1>3, <1>4 DEF Stretch
  <2> QED
    BY <1>2, <1>4, <2>1, FS_EmptySet
<1>5. CASE x \in Stretch(s, 1, n)
  <2>1. PICK i \in 1 .. n : s[i] = x
    BY <1>5 DEF Stretch
  <2>2. PICK k \in 1 .. N : (k - 1) * Batch + 1 <= i /\ i <= k * Batch
    BY BatchOf, Zenon DEF N
  <2>3. i \in (k - 1) * Batch + 1 .. Least(k * Batch, n)
    BY <2>2, BatchBounds DEF Least, N
  <2>4. k \in In
    BY <2>1, <2>3 DEF Stretch
  <2>5. ASSUME NEW j \in In PROVE j = k
    <3>1. PICK h \in (j - 1) * Batch + 1 .. Least(j * Batch, n) : s[h] = x
      BY <2>5 DEF Stretch
    <3>2. h \in 1 .. n /\ (j - 1) * Batch + 1 <= h /\ h <= j * Batch
      BY <1>3, <3>1
    <3>3. h = i
      BY <2>1, <3>1, <3>2 DEF IsInjective
    <3> QED
      BY <1>1, <2>2, <3>2, <3>3, OneBatch
  <2>6. In = {k}
    BY <2>4, <2>5
  <2> QED
    BY <1>2, <1>5, <2>6, FS_Singleton
<1> QED
  BY <1>4, <1>5

\* The batches that are left when the first one is taken away.
LEMMA TimesTail ==
  ASSUME NEW S, NEW todo \in Seq(S), todo # <<>>, NEW x
  PROVE  /\ Times(x, todo) \in Nat /\ Times(x, Tail(todo)) \in Nat
         /\ Times(x, todo) = Times(x, Tail(todo)) + IF x \in Head(todo) THEN 1 ELSE 0
<1> DEFINE n == Len(todo)
           A == {k \in 1 .. n : x \in todo[k]}
           B == {k \in 1 .. n - 1 : x \in todo[k + 1]}
           next == [k \in B |-> k + 1]
<1>1. n \in Nat \ {0} /\ DOMAIN todo = 1 .. n /\ Head(todo) = todo[1]
  OBVIOUS
<1>2. DOMAIN Tail(todo) = 1 .. n - 1 /\ \A k \in 1 .. n - 1 : Tail(todo)[k] = todo[k + 1]
  OBVIOUS
<1>3. Times(x, todo) = Cardinality(A) /\ Times(x, Tail(todo)) = Cardinality(B)
  <2>1. {k \in DOMAIN todo : x \in todo[k]} = A
    BY <1>1
  <2>2. {k \in DOMAIN Tail(todo) : x \in Tail(todo)[k]} = B
    BY <1>2
  <2> QED
    BY <2>1, <2>2, Zenon DEF Times
<1> HIDE DEF n
<1>4. IsFiniteSet(A) /\ IsFiniteSet(B)
  <2>1. IsFiniteSet(1 .. n) /\ A \subseteq 1 .. n /\ B \subseteq 1 .. n
    BY <1>1, FS_Interval
  <2> QED
    BY <2>1, FS_Subset
<1>5. Cardinality(A \ {1}) = Cardinality(B)
  <2>1. next \in Bijection(B, A \ {1})
    <3>1. next \in [B -> A \ {1}]
      BY <1>1
    <3>2. \A k, j \in B : next[k] = next[j] => k = j
      BY <1>1
    <3>3. \A a \in A \ {1} : \E k \in B : next[k] = a
      <4> TAKE a \in A \ {1}
      <4>1. a - 1 \in B /\ next[a - 1] = a
        BY <1>1
      <4> QED
        BY <4>1
    <3> QED
      BY <3>1, <3>2, <3>3, Fun_IsBij
  <2> HIDE DEF next, A, B
  <2> QED
    BY <1>4, <2>1, FS_Bijection, Zenon DEF ExistsBijection
<1>6. 1 \in A <=> x \in Head(todo)
  BY <1>1
<1> HIDE DEF A, B
<1>7. Cardinality(A) \in Nat /\ Cardinality(B) \in Nat
  BY <1>4, FS_CardinalityType
<1>8. 1 \in A => Cardinality(A \ {1}) = Cardinality(A) - 1
  BY <1>4, FS_RemoveElement
<1>9. ASSUME 1 \notin A PROVE Cardinality(A \ {1}) = Cardinality(A)
  <2>1. A \ {1} = A
    BY <1>9
  <2> QED
    BY <2>1, Zenon
<1> QED
  BY <1>3, <1>5, <1>6, <1>7, <1>8, <1>9

\* Filtering drops none only if all are allowed.
LEMMA AllowedAre ==
  ASSUME NEW n \in Nat, NEW s \in [1 .. n -> Subjects]
  PROVE  /\ Allowed(s) \in Seq(Subjects) /\ Len(Allowed(s)) <= n
         /\ Len(Allowed(s)) = n => Allowed(s) = s /\ Stretch(s, 1, n) \subseteq allowed
<1>1. PICK at \in [0 .. n -> Seq(Subjects)] :
        /\ at[0] = <<>> /\ Allowed(s) = at[n]
        /\ \A i \in 1 .. n :
              at[i] = IF s[i] \in allowed THEN Append(at[i - 1], s[i]) ELSE at[i - 1]
  <2>1. KeptBy(n, Subjects, s, allowed)
    BY KeptStages, Zenon
  <2> QED
    BY <2>1, Zenon DEF KeptBy, Allowed
<1> DEFINE Fits(i) == /\ Len(at[i]) <= i
                      /\ Len(at[i]) = i => \A j \in 1 .. i : at[i][j] = s[j] /\ s[j] \in allowed
           T == {i \in Nat : i <= n => Fits(i)}
<1>2. 0 \in T
  BY <1>1
<1>3. ASSUME NEW i \in Nat, i \in T PROVE i + 1 \in T
  <2> SUFFICES ASSUME i + 1 <= n PROVE Fits(i + 1)
    OBVIOUS
  <2>1. i \in 0 .. n /\ i + 1 \in 1 .. n /\ at[i] \in Seq(Subjects) /\ s[i + 1] \in Subjects
    OBVIOUS
  <2>2. Fits(i)
    BY <1>3, <2>1
  <2>3. at[i + 1] = IF s[i + 1] \in allowed THEN Append(at[i], s[i + 1]) ELSE at[i]
    BY <1>1, <2>1, SMTT(30)
  <2>4. CASE s[i + 1] \notin allowed
    BY <2>1, <2>2, <2>3, <2>4
  <2>5. CASE s[i + 1] \in allowed
    <3> DEFINE new == Append(at[i], s[i + 1])
    <3>1. Len(new) = Len(at[i]) + 1 /\ new[Len(at[i]) + 1] = s[i + 1]
          /\ \A j \in 1 .. Len(at[i]) : new[j] = at[i][j]
      BY <2>1
    <3>2. Len(at[i]) \in Nat /\ at[i + 1] = new
      BY <2>1, <2>3, <2>5, SMTT(30)
    <3> HIDE DEF new
    <3> QED
      BY <2>1, <2>2, <2>5, <3>1, <3>2
  <2> QED
    BY <2>4, <2>5
<1>4. Fits(n)
  <2>1. n \in T
    <3> HIDE DEF T
    <3> QED
      BY <1>2, <1>3, SetInduction
  <2> QED
    BY <2>1
<1>5. at[n] \in Seq(Subjects)
  OBVIOUS
<1>6. ASSUME Len(at[n]) = n PROVE at[n] = s /\ Stretch(s, 1, n) \subseteq allowed
  <2>1. at[n] \in [1 .. n -> Subjects]
    BY <1>5, <1>6
  <2>2. \A j \in 1 .. n : at[n][j] = s[j] /\ s[j] \in allowed
    BY <1>4, <1>6
  <2> QED
    BY <2>1, <2>2 DEF Stretch
<1> QED
  BY <1>1, <1>4, <1>5, <1>6

\* What a page hands on.
LEMMA PageTodo ==
  ASSUME NEW kept \in Seq(Subjects), NEW equal \in BOOLEAN
  PROVE  (IF equal THEN Chunks(kept) ELSE SubSeq(Chunks(kept), 1, Len(kept) \div Batch))
            \in Seq(SUBSET Subjects)
<1> DEFINE n == Len(kept)
           N == (n + Batch - 1) \div Batch
<1>1. n \in Nat /\ kept \in [1 .. n -> Subjects]
  OBVIOUS
<1>2. N \in Nat /\ Chunks(kept) \in [1 .. N -> SUBSET Subjects]
  BY <1>1, ChunksAre
<1>3. n \div Batch \in Nat /\ n \div Batch <= N
  <2> DEFINE q == n \div Batch
  <2>1. Batch \in Nat \ {0}
    BY SizesAssumption
  <2>2. q \in Nat /\ q * Batch <= n
    BY <1>1, <2>1
  <2>3. N \in Nat /\ n + Batch - 1 < (N + 1) * Batch
    BY <1>1, <2>1
  <2> HIDE DEF q, N, n
  <2>4. SUFFICES ASSUME N + 1 <= q PROVE FALSE
    BY <2>2, <2>3 DEF q
  <2>5. (N + 1) * Batch <= q * Batch /\ (N + 1) * Batch \in Nat /\ q * Batch \in Nat
    BY <2>1, <2>2, <2>3, <2>4
  <2> QED
    BY <1>1, <2>1, <2>2, <2>3, <2>5
<1> HIDE DEF n, N
<1>4. Chunks(kept) \in Seq(SUBSET Subjects) /\ Len(Chunks(kept)) = N
  BY <1>2
<1>5. SubSeq(Chunks(kept), 1, n \div Batch) \in Seq(SUBSET Subjects)
  BY <1>3, <1>4, <1>2
<1>6. CASE equal
  BY <1>4, <1>6, Zenon
<1>7. CASE ~equal
  BY <1>5, <1>7, Zenon DEF n
<1> QED
  BY <1>6, <1>7

\* The batches of those who were looked up.
LEMMA LookupTodo ==
  ASSUME NEW S, S \subseteq Subjects
  PROVE  /\ Chunks(SetToSeq(S)) \in Seq(SUBSET Subjects)
         /\ \A x : Times(x, Chunks(SetToSeq(S))) = IF x \in S THEN 1 ELSE 0
<1> DEFINE s == SetToSeq(S)
           n == Cardinality(S)
<1>1. IsFiniteSet(S) /\ n \in Nat
  BY SubjectsFinite
<1>2. s \in [1 .. n -> S] /\ ToSet(s) = S /\ IsInjective(s)
  BY <1>1, SetToSeqElements, Zenon
<1> HIDE DEF s, n
<1>3. s \in [1 .. n -> Subjects]
  BY <1>2
<1>4. Chunks(s) \in Seq(SUBSET Subjects)
  <2> DEFINE N == (n + Batch - 1) \div Batch
  <2>1. N \in Nat /\ Chunks(s) \in [1 .. N -> SUBSET Subjects]
    BY <1>1, <1>3, ChunksAre DEF n
  <2> HIDE DEF N
  <2> QED
    BY <2>1
<1>5. Stretch(s, 1, n) = S
  BY <1>2 DEF Stretch, ToSet
<1>6. ASSUME NEW x PROVE Times(x, Chunks(s)) = IF x \in S THEN 1 ELSE 0
  BY <1>1, <1>2, <1>5, TimesInChunks DEF n
<1> QED
  BY <1>4, <1>6 DEF s

\* Counting what cannot be counted twice.
LEMMA CountType ==
  ASSUME NEW counts \in [Subjects -> Nat], NEW S
  PROVE  /\ Count(counts, S) \in [Subjects -> Nat]
         /\ \A s \in Subjects : Count(counts, S)[s] = counts[s] + IF s \in S THEN 1 ELSE 0
  BY DEF Count

\* What a run with these local variables holds of one subject.
Has(l, s) == Times(s, l.todo) + IF s \in l.taken THEN 1 ELSE 0

\* It is a number.
LEMMA HasNat ==
  ASSUME NEW l \in Locals, NEW s
  PROVE  Has(l, s) \in Nat /\ Times(s, l.todo) \in Nat
<1> DEFINE todo == l.todo
           In == {k \in DOMAIN todo : s \in todo[k]}
<1>1. todo \in Seq(SUBSET Subjects)
  BY DEF Locals
<1> HIDE DEF todo
<1>2. DOMAIN todo = 1 .. Len(todo) /\ Len(todo) \in Nat
  BY <1>1
<1>3. IsFiniteSet(In)
  <2>1. IsFiniteSet(1 .. Len(todo)) /\ In \subseteq 1 .. Len(todo)
    BY <1>2, FS_Interval
  <2> QED
    BY <2>1, FS_Subset
<1>4. Cardinality(In) \in Nat
  BY <1>3, FS_CardinalityType
<1>5. Times(s, todo) = Cardinality(In)
  BY Zenon DEF Times
<1> HIDE DEF In
<1> QED
  BY <1>4, <1>5 DEF todo, Has

\* What a run holds depends on its local variables only, before and after a step.
LEMMA HeldHas ==
  ASSUME NEW r, NEW s
  PROVE  Held(r, s) = Has(run[r], s) /\ Held(r, s)' = Has(run'[r], s)
  BY Zenon DEF Held, Has, Times

\* The last chat of a page, and how many it has.
PageEnd(offset) == Least(offset + Limit, Len(chats))
PageLen(offset) == IF offset <= PageEnd(offset) THEN PageEnd(offset) - offset ELSE 0

\* A page is a stretch of the chats.
LEMMA PageOf ==
  ASSUME chats \in Seq(Subjects), NEW offset \in Nat
  PROVE  LET results == SubSeq(chats, offset + 1, PageEnd(offset)) IN
         /\ PageEnd(offset) \in Nat /\ PageEnd(offset) <= Len(chats)
         /\ PageLen(offset) \in Nat
         /\ results \in [1 .. PageLen(offset) -> Subjects] /\ Len(results) = PageLen(offset)
         /\ \A i \in 1 .. PageLen(offset) : results[i] = chats[offset + i]
<1> DEFINE m == PageEnd(offset)
           n == PageLen(offset)
           results == SubSeq(chats, offset + 1, m)
<1>1. m \in Nat /\ m <= Len(chats) /\ Len(chats) \in Nat
  BY SizesAssumption DEF Least, PageEnd
<1>2. n = IF offset <= m THEN m - offset ELSE 0
  BY DEF PageLen
<1> HIDE DEF m, n
<1>3. n \in Nat
  BY <1>1, <1>2
<1>4. CASE offset < m
  <2>1. n = m - offset /\ n >= 1 /\ 1 <= offset + 1 /\ offset + 1 <= m
    BY <1>1, <1>2, <1>4
  <2>2. results \in Seq(Subjects) /\ Len(results) = n
    BY <1>1, <2>1
  <2>3. \A i \in 1 .. n : results[i] = chats[offset + i]
    BY <1>1, <2>1
  <2> HIDE DEF results
  <2>4. results \in [1 .. n -> Subjects]
    BY <1>1, <2>2
  <2> QED
    BY <1>1, <1>3, <2>2, <2>3, <2>4 DEF m, n, results
<1>5. CASE ~(offset < m)
  <2>1. n = 0
    BY <1>1, <1>2, <1>5
  <2>2. results = <<>>
    BY <1>1, <1>5
  <2> HIDE DEF results
  <2>3. results \in [1 .. n -> Subjects] /\ Len(results) = n
    BY <2>1, <2>2
  <2> QED
    BY <1>1, <1>3, <2>1, <2>3 DEF m, n, results
<1> QED
  BY <1>4, <1>5

-----------------------------------------------------------------------------
(* Types.                                                                   *)

\* The variables have their types at first,
LEMMA TypeInit == Init => TypeOK
<1> SUFFICES ASSUME Init PROVE TypeOK
  OBVIOUS
<1> DEFINE none == <<>>
           l == [pc |-> "idle", offset |-> 0, taken |-> {}, todo |-> none,
                 unequal |-> FALSE, last |-> FALSE, handled |-> FALSE]
<1>1. none \in Seq(SUBSET Subjects)
  OBVIOUS
<1>2. run = [r \in Runs |-> l]
  BY DEF Init
<1>3. l \in Locals
  <2> HIDE DEF none
  <2> QED
    BY <1>1 DEF Locals
<1> HIDE DEF l
<1>4. run \in [Runs -> Locals]
  BY <1>2, <1>3
<1>5. chats \in Seq(Subjects) /\ allowed \subseteq Subjects /\ changes \in 0 .. MaxChanges
      /\ subs \subseteq Subjects /\ targeted \in [Runs -> BOOLEAN]
  BY OrderAssumption, BoundsAssumption DEF Init
<1>6. reached \in [Runs -> [Subjects -> Nat]] /\ granted \in [Subjects -> Nat]
      /\ dropped \in [Subjects -> Nat]
  BY DEF Init
<1> QED
  BY <1>4, <1>5, <1>6 DEF TypeOK

\* and every step keeps them.
LEMMA TypeStep == TypeOK /\ [Next]_vars => TypeOK'
<1> SUFFICES ASSUME TypeOK, [Next]_vars PROVE TypeOK'
  OBVIOUS
<1>1. /\ chats \in Seq(Subjects) /\ allowed \subseteq Subjects /\ changes \in 0 .. MaxChanges
      /\ subs \subseteq Subjects /\ targeted \in [Runs -> BOOLEAN] /\ run \in [Runs -> Locals]
      /\ reached \in [Runs -> [Subjects -> Nat]] /\ {granted, dropped} \subseteq [Subjects -> Nat]
  BY DEF TypeOK
<1>2. ASSUME UNCHANGED vars PROVE TypeOK'
  BY <1>1, <1>2 DEF vars, service, TypeOK
<1>3. ASSUME NEW s \in Subjects, Subscribe(s) PROVE TypeOK'
  <2>1. granted' \in [Subjects -> Nat]
    BY <1>1, <1>3, CountType DEF Subscribe
  <2> QED
    BY <1>1, <1>3, <2>1 DEF Subscribe, service, TypeOK
<1>4. CASE ChatsChange
  <2>1. chats' \in Seq(Subjects)
    <3>1. ASSUME NEW k \in DOMAIN chats PROVE RemoveAt(chats, k) \in Seq(Subjects)
      <4>1. k \in 1 .. Len(chats) /\ chats \in Seq(Subjects)
        BY <1>1
      <4>2. SubSeq(chats, 1, k - 1) \in Seq(Subjects)
        BY <4>1
      <4>3. SubSeq(chats, k + 1, Len(chats)) \in Seq(Subjects)
        BY <4>1
      <4> QED
        BY <4>2, <4>3 DEF RemoveAt
    <3>2. ASSUME NEW s \in Subjects PROVE <<s>> \o chats \in Seq(Subjects)
      BY <1>1
    <3> QED
      BY <1>4, <3>1, <3>2 DEF ChatsChange
  <2>2. changes' \in 0 .. MaxChanges
    BY <1>1, <1>4, BoundsAssumption DEF ChatsChange
  <2> QED
    BY <1>1, <1>4, <2>1, <2>2 DEF ChatsChange, TypeOK
<1>0. ASSUME NEW r \in Runs
      PROVE  run[r] \in Locals /\ run = [run EXCEPT ![r] = run[r]]
  BY <1>1
<1>5. ASSUME NEW r \in Runs, UNCHANGED <<service, targeted, granted>>,
             subs' \subseteq Subjects, dropped' \in [Subjects -> Nat],
             reached' \in [Runs -> [Subjects -> Nat]],
             NEW l \in Locals, run' = [run EXCEPT ![r] = l]
      PROVE  TypeOK'
  BY <1>1, <1>5 DEF TypeOK, service
<1>6. ASSUME NEW r \in Runs, Start(r) \/ GotBot(r) \/ TakeNone(r)
      PROVE  TypeOK'
  <2>1. PICK pc \in {"bot", "page", "ended"} : run' = [run EXCEPT ![r].pc = pc]
    BY <1>6 DEF Start, GotBot, TakeNone
  <2> DEFINE l == [run[r] EXCEPT !.pc = pc]
  <2>2. l \in Locals
    <3>1. run[r] \in Locals
      BY <1>1
    <3> QED
      BY <3>1 DEF Locals
  <2>3. run' = [run EXCEPT ![r] = l]
    BY <1>1, <2>1
  <2>4. UNCHANGED <<service, subs, targeted, reached, granted, dropped>>
    BY <1>6, Zenon DEF Start, GotBot, TakeNone
  <2>5. /\ UNCHANGED <<service, targeted, granted>> /\ subs' \subseteq Subjects
        /\ dropped' \in [Subjects -> Nat] /\ reached' \in [Runs -> [Subjects -> Nat]]
    BY <1>1, <2>4
  <2> HIDE DEF l
  <2> QED
    BY <1>5, <2>2, <2>3, <2>5
<1>7. ASSUME NEW r \in Runs, Page(r) PROVE TypeOK'
  <2> DEFINE offset == run[r].offset
             results == SubSeq(chats, offset + 1, Least(offset + Limit, Len(chats)))
             kept == Allowed(results)
             equal == Len(kept) = Len(results)
             todo == IF equal THEN Chunks(kept) ELSE SubSeq(Chunks(kept), 1, Len(kept) \div Batch)
             last == Len(chats) - (offset + Limit) <= 0
  <2>1. todo \in Seq(SUBSET Subjects)
    <3>1. offset \in Nat
      BY <1>1 DEF Locals
    <3> HIDE DEF offset
    <3>2. PICK n \in Nat : results \in [1 .. n -> Subjects]
      BY <1>1, <3>1, PageOf DEF PageEnd
    <3> HIDE DEF results
    <3>3. kept \in Seq(Subjects)
      BY <3>2, AllowedAre
    <3> HIDE DEF kept
    <3>4. equal \in BOOLEAN
      OBVIOUS
    <3> HIDE DEF equal
    <3> QED
      BY <3>3, <3>4, PageTodo
  <2>2. /\ run' = [run EXCEPT ![r].pc = "deliver", ![r].todo = todo, ![r].unequal = ~equal,
                              ![r].last = last]
        /\ UNCHANGED <<service, subs, targeted, reached, granted, dropped>>
    BY <1>7, Zenon DEF Page
  <2>3. equal \in BOOLEAN /\ last \in BOOLEAN
    OBVIOUS
  <2> HIDE DEF todo, equal, last
  <2> DEFINE l == [run[r] EXCEPT !.pc = "deliver", !.todo = todo, !.unequal = ~equal, !.last = last]
  <2>4. run[r] \in Locals
    BY <1>1
  <2>5. l \in Locals
    BY <2>1, <2>3, <2>4 DEF Locals
  <2>6. run' = [run EXCEPT ![r] = l]
    BY <1>1, <2>2
  <2>7. /\ UNCHANGED <<service, targeted, granted>> /\ subs' \subseteq Subjects
        /\ dropped' \in [Subjects -> Nat] /\ reached' \in [Runs -> [Subjects -> Nat]]
    BY <1>1, <2>2
  <2> HIDE DEF l
  <2> QED
    BY <1>5, <2>5, <2>6, <2>7
<1>8. ASSUME NEW r \in Runs, Take(r) PROVE TypeOK'
  <2>1. PICK some \in SUBSET subs :
          subs' = subs \ some /\ run' = [run EXCEPT ![r].pc = "lookup", ![r].taken = some]
    BY <1>8 DEF Take
  <2>2. [run[r] EXCEPT !.pc = "lookup", !.taken = some] \in Locals
    <3>1. run[r] \in Locals /\ some \in SUBSET Subjects
      BY <1>1
    <3> QED
      BY <3>1 DEF Locals
  <2>3. UNCHANGED <<service, targeted, reached, granted, dropped>> /\ subs' \subseteq Subjects
    BY <1>1, <1>8, <2>1 DEF Take
  <2> DEFINE l == [run[r] EXCEPT !.pc = "lookup", !.taken = some]
  <2>4. l \in Locals
    BY <2>2
  <2>5. run' = [run EXCEPT ![r] = l]
    BY <1>1, <2>1
  <2> HIDE DEF l
  <2> QED
    BY <1>1, <1>5, <2>3, <2>4, <2>5
<1>9. ASSUME NEW r \in Runs, TakeFails(r) PROVE TypeOK'
  <2>1. PICK some \in SUBSET subs : subs' = subs \ some /\ dropped' = Count(dropped, some)
    BY <1>9 DEF TakeFails
  <2>2. dropped' \in [Subjects -> Nat] /\ subs' \subseteq Subjects
    BY <1>1, <2>1, CountType
  <2> DEFINE l == [run[r] EXCEPT !.pc = "raised"]
  <2>3. run[r] \in Locals
    BY <1>1
  <2>5. l \in Locals
    BY <2>3 DEF Locals
  <2>6. run' = [run EXCEPT ![r] = l]
    BY <1>1, <1>9 DEF TakeFails
  <2>4. UNCHANGED <<service, targeted, reached, granted>>
    BY <1>9 DEF TakeFails
  <2> HIDE DEF l
  <2> QED
    BY <1>1, <1>5, <2>2, <2>4, <2>5, <2>6
<1>10. ASSUME NEW r \in Runs, Lookup(r) PROVE TypeOK'
  <2> DEFINE known == run[r].taken \cap ToSet(chats)
             beyond == Cardinality(known) - run[r].offset
  <2>1. PICK page \in SUBSET known :
          /\ run' = [run EXCEPT ![r].pc = "deliver", ![r].taken = {},
                                ![r].todo = Chunks(SetToSeq(page \cap allowed)),
                                ![r].unequal = FALSE, ![r].last = beyond - Limit <= 0]
          /\ dropped' = Count(dropped, run[r].taken \ (page \cap allowed))
    BY <1>10 DEF Lookup
  <2>2. Chunks(SetToSeq(page \cap allowed)) \in Seq(SUBSET Subjects)
    BY <1>1, LookupTodo
  <2>9. dropped \in [Subjects -> Nat]
    BY <1>1
  <2>3. dropped' \in [Subjects -> Nat]
    BY <2>1, <2>9 DEF Count
  <2>4. UNCHANGED <<service, subs, targeted, reached, granted>>
    BY <1>10 DEF Lookup
  <2> DEFINE todo == Chunks(SetToSeq(page \cap allowed))
             last == beyond - Limit <= 0
             l == [run[r] EXCEPT !.pc = "deliver", !.taken = {}, !.todo = todo,
                                 !.unequal = FALSE, !.last = last]
  <2>5. run' = [run EXCEPT ![r].pc = "deliver", ![r].taken = {}, ![r].todo = todo,
                           ![r].unequal = FALSE, ![r].last = last]
        /\ todo \in Seq(SUBSET Subjects) /\ last \in BOOLEAN
    BY <2>1, <2>2
  <2> HIDE DEF todo, last
  <2>6. run[r] \in Locals
    BY <1>1
  <2>7. l \in Locals
    BY <2>5, <2>6 DEF Locals
  <2>8. run' = [run EXCEPT ![r] = l]
    BY <1>1, <2>5
  <2> HIDE DEF l
  <2> QED
    BY <1>1, <1>5, <2>3, <2>4, <2>7, <2>8
<1>11. ASSUME NEW r \in Runs, Deliver(r) PROVE TypeOK'
  <2> DEFINE l == [run[r] EXCEPT !.todo = Tail(@), !.handled = TRUE]
  <2>1. Tail(run[r].todo) \in Seq(SUBSET Subjects)
    BY <1>1, <1>11 DEF Deliver, Locals
  <2>5. run[r] \in Locals
    BY <1>1
  <2>6. l \in Locals
    BY <2>1, <2>5 DEF Locals
  <2>2. run' = [run EXCEPT ![r] = l]
    BY <1>1, <1>11 DEF Deliver
  <2>3. reached' \in [Runs -> [Subjects -> Nat]]
    <3>1. reached' = [reached EXCEPT ![r] = Count(reached[r], Head(run[r].todo))]
      BY <1>11 DEF Deliver
    <3>2. reached[r] \in [Subjects -> Nat]
      BY <1>1
    <3>3. Count(reached[r], Head(run[r].todo)) \in [Subjects -> Nat]
      BY <3>2 DEF Count
    <3> QED
      BY <1>1, <3>1, <3>3
  <2>4. UNCHANGED <<service, subs, targeted, granted, dropped>>
    BY <1>11 DEF Deliver
  <2> HIDE DEF l
  <2> QED
    BY <1>1, <1>5, <2>2, <2>3, <2>4, <2>6
<1>12. ASSUME NEW r \in Runs, PageDone(r) PROVE TypeOK'
  <2>1. PICK place \in {"raised", "ended", "page"} :
          run' = [run EXCEPT ![r].pc = place,
                             ![r].offset = IF place = "page" THEN @ + Limit ELSE @]
    BY <1>12 DEF PageDone
  <2> DEFINE l == [run[r] EXCEPT !.pc = place, !.offset = IF place = "page" THEN @ + Limit ELSE @]
  <2> DEFINE offset == IF place = "page" THEN run[r].offset + Limit ELSE run[r].offset
  <2>4. run[r] \in Locals
    BY <1>1
  <2>6. offset \in Nat
    BY <2>4, SizesAssumption DEF Locals
  <2>7. l = [run[r] EXCEPT !.pc = place, !.offset = offset]
    OBVIOUS
  <2>5. l \in Locals
    <3> HIDE DEF offset, l
    <3> QED
      BY <2>4, <2>6, <2>7 DEF Locals
  <2>2. run' = [run EXCEPT ![r] = l]
    BY <1>1, <2>1
  <2>3. UNCHANGED <<service, subs, targeted, reached, granted, dropped>>
    BY <1>12 DEF PageDone
  <2> HIDE DEF l
  <2> QED
    BY <1>1, <1>5, <2>2, <2>3, <2>5
<1>13. ASSUME NEW r \in Runs, Fail(r) PROVE TypeOK'
  <2> DEFINE l == [run[r] EXCEPT !.pc = "raised", !.taken = {}, !.todo = <<>>]
  <2>5. run[r] \in Locals
    BY <1>1
  <2> DEFINE none == <<>>
  <2>7. none \in Seq(SUBSET Subjects)
    OBVIOUS
  <2>6. l \in Locals
    <3>1. l = [run[r] EXCEPT !.pc = "raised", !.taken = {}, !.todo = none]
      OBVIOUS
    <3> HIDE DEF none, l
    <3> QED
      BY <2>5, <2>7, <3>1 DEF Locals
  <2>1. run' = [run EXCEPT ![r] = l]
    BY <1>1, <1>13 DEF Fail
  <2>2. [s \in Subjects |-> dropped[s] + Held(r, s)] \in [Subjects -> Nat]
    <3>1. \A s \in Subjects : Held(r, s) \in Nat
      BY <2>5, HasNat, HeldHas
    <3> QED
      BY <1>1, <3>1
  <2>3. dropped' \in [Subjects -> Nat]
    BY <1>1, <1>13, <2>2 DEF Fail
  <2>4. UNCHANGED <<service, subs, targeted, reached, granted>>
    BY <1>13 DEF Fail
  <2> HIDE DEF l
  <2> QED
    BY <1>1, <1>5, <2>1, <2>3, <2>4, <2>6
<1> QED
  BY <1>2, <1>3, <1>4, <1>6, <1>7, <1>8, <1>9, <1>10, <1>11, <1>12, <1>13 DEF Next, RunStep

\* Every variable keeps its type.
THEOREM TypeCorrect == Spec => []TypeOK
  BY TypeInit, TypeStep, PTL DEF Spec

-----------------------------------------------------------------------------
(* What the local variables of a run are at each place of the code: when it *)
(* holds subscriptions, and that a targeted run is on its first page, on    *)
(* which all that it took fit.                                              *)

Stage(l, forTarget) ==
    /\ l.pc # "lookup" => l.taken = {}
    /\ l.pc # "deliver" => l.todo = <<>>
    /\ l.pc \in {"idle", "bot"} => l.offset = 0
    /\ l.pc = "lookup" => forTarget /\ Cardinality(l.taken) <= Limit
    /\ forTarget => l.offset = 0 /\ (l.pc = "deliver" => l.last)

Stages == \A r \in Runs : Stage(run[r], targeted[r])

\* It is so at first,
LEMMA StagesInit == Init => Stages
  BY DEF Init, Stages, Stage

\* and every step keeps it.
LEMMA StagesStep == TypeOK /\ Stages /\ [Next]_vars => Stages'
<1> SUFFICES ASSUME TypeOK, Stages, [Next]_vars PROVE Stages'
  OBVIOUS
<1>1. run \in [Runs -> Locals] /\ subs \subseteq Subjects
  BY DEF TypeOK
<1>2. ASSUME UNCHANGED <<run, targeted>> PROVE Stages'
  BY <1>2 DEF Stages
<1>3. ASSUME NEW r \in Runs PROVE run[r] \in Locals /\ Stage(run[r], targeted[r])
  BY <1>1 DEF Stages
<1>4. ASSUME NEW r \in Runs, NEW l, run' = [run EXCEPT ![r] = l], UNCHANGED targeted,
             Stage(l, targeted[r])
      PROVE  Stages'
  <2>1. run'[r] = l /\ \A q \in Runs \ {r} : run'[q] = run[q]
    BY <1>1, <1>4
  <2> QED
    BY <1>3, <1>4, <2>1 DEF Stages
<1>5. ASSUME NEW r \in Runs, Start(r) \/ GotBot(r) \/ TakeNone(r) \/ TakeFails(r)
      PROVE  Stages'
  <2>1. PICK pc \in {"bot", "page", "ended", "raised"} :
          run' = [run EXCEPT ![r] = [run[r] EXCEPT !.pc = pc]]
          /\ (pc = "bot" => run[r].pc = "idle") /\ run[r].pc \in {"idle", "bot", "page"}
          /\ UNCHANGED targeted
    BY <1>1, <1>5 DEF Start, GotBot, TakeNone, TakeFails
  <2> DEFINE l == [run[r] EXCEPT !.pc = pc]
  <2>2. l.pc = pc /\ l.taken = run[r].taken /\ l.todo = run[r].todo /\ l.offset = run[r].offset
    BY <1>3 DEF Locals
  <2> HIDE DEF l
  <2> QED
    BY <1>3, <1>4, <2>1, <2>2 DEF l, Stage
<1>6. ASSUME NEW r \in Runs, Page(r) PROVE Stages'
  <2>1. PICK todo, unequal, last :
          run' = [run EXCEPT ![r].pc = "deliver", ![r].todo = todo, ![r].unequal = unequal,
                             ![r].last = last]
    BY <1>6, Zenon DEF Page
  <2> DEFINE l == [run[r] EXCEPT !.pc = "deliver", !.todo = todo, !.unequal = unequal, !.last = last]
  <2>2. run' = [run EXCEPT ![r] = l] /\ l.pc = "deliver" /\ l.taken = run[r].taken
    BY <1>1, <1>3, <2>1 DEF Locals
  <2>3. run[r].pc = "page" /\ ~targeted[r] /\ UNCHANGED targeted
    BY <1>6 DEF Page
  <2> HIDE DEF l
  <2> QED
    BY <1>3, <1>4, <2>2, <2>3 DEF Stage
<1>7. ASSUME NEW r \in Runs, Take(r) PROVE Stages'
  <2>1. PICK some \in SUBSET subs :
          /\ Cardinality(some) = Least(Limit, Cardinality(subs))
          /\ run' = [run EXCEPT ![r].pc = "lookup", ![r].taken = some]
    BY <1>7 DEF Take
  <2> DEFINE l == [run[r] EXCEPT !.pc = "lookup", !.taken = some]
  <2>2. /\ run' = [run EXCEPT ![r] = l] /\ l.pc = "lookup" /\ l.taken = some
        /\ l.todo = run[r].todo /\ l.offset = run[r].offset
    BY <1>1, <1>3, <2>1 DEF Locals
  <2>3. run[r].pc = "page" /\ targeted[r] /\ UNCHANGED targeted
    BY <1>7 DEF Take
  <2>4. Cardinality(some) <= Limit
    BY <1>1, <2>1, SizesAssumption, SubjectsFinite DEF Least
  <2> HIDE DEF l
  <2> QED
    BY <1>3, <1>4, <2>2, <2>3, <2>4 DEF Stage
<1>8. ASSUME NEW r \in Runs, Lookup(r) PROVE Stages'
  <2> DEFINE known == run[r].taken \cap ToSet(chats)
             last == Cardinality(known) - run[r].offset - Limit <= 0
  <2>1. PICK todo :
          run' = [run EXCEPT ![r].pc = "deliver", ![r].taken = {}, ![r].todo = todo,
                             ![r].unequal = FALSE, ![r].last = last]
    BY <1>8, Zenon DEF Lookup
  <2>2. run[r].pc = "lookup" /\ UNCHANGED targeted
    BY <1>8 DEF Lookup
  <2>3. run[r].taken \subseteq Subjects /\ run[r].offset = 0
        /\ Cardinality(run[r].taken) <= Limit
    BY <1>3, <2>2 DEF Locals, Stage
  <2>4. Cardinality(known) \in Nat /\ Cardinality(known) <= Limit
    BY <2>3, SizesAssumption, SubjectsFinite, FS_Subset
  <2>5. last
    BY <2>3, <2>4, SizesAssumption
  <2> HIDE DEF known, last
  <2> DEFINE l == [run[r] EXCEPT !.pc = "deliver", !.taken = {}, !.todo = todo,
                                 !.unequal = FALSE, !.last = last]
  <2>6. /\ run' = [run EXCEPT ![r] = l] /\ l.pc = "deliver" /\ l.taken = {}
        /\ l.offset = run[r].offset /\ l.last = last
    BY <1>1, <1>3, <2>1 DEF Locals
  <2> HIDE DEF l
  <2> QED
    BY <1>4, <2>2, <2>3, <2>5, <2>6 DEF Stage
<1>9. ASSUME NEW r \in Runs, Deliver(r) PROVE Stages'
  <2> DEFINE l == [run[r] EXCEPT !.todo = Tail(@), !.handled = TRUE]
  <2>1. run[r].pc = "deliver" /\ run' = [run EXCEPT ![r] = l] /\ UNCHANGED targeted
    BY <1>1, <1>9 DEF Deliver
  <2>2. /\ l.pc = run[r].pc /\ l.taken = run[r].taken /\ l.offset = run[r].offset
        /\ l.last = run[r].last
    BY <1>3 DEF Locals
  <2> HIDE DEF l
  <2> QED
    BY <1>3, <1>4, <2>1, <2>2 DEF Stage
<1>10. ASSUME NEW r \in Runs, PageDone(r) PROVE Stages'
  <2>1. PICK place \in {"raised", "ended", "page"} :
          /\ place = "page" => ~run[r].last
          /\ run' = [run EXCEPT ![r].pc = place,
                        ![r].offset = IF place = "page" THEN @ + Limit ELSE @]
    BY <1>10 DEF PageDone
  <2>2. run[r].pc = "deliver" /\ run[r].todo = <<>> /\ UNCHANGED targeted
    BY <1>10 DEF PageDone
  <2> DEFINE l == [run[r] EXCEPT !.pc = place, !.offset = IF place = "page" THEN @ + Limit ELSE @]
  <2>3. run' = [run EXCEPT ![r] = l]
    BY <1>1, <2>1
  <2>4. /\ l.pc = place /\ l.taken = run[r].taken /\ l.todo = run[r].todo
        /\ place # "page" => l.offset = run[r].offset
    BY <1>3 DEF Locals
  <2>5. place = "page" => ~targeted[r]
    BY <1>3, <2>1, <2>2, Zenon DEF Stage
  <2> HIDE DEF l
  <2>6. Stage(l, targeted[r])
    BY <1>3, <2>1, <2>2, <2>4, <2>5 DEF Stage
  <2> QED
    BY <1>4, <2>2, <2>3, <2>6
<1>11. ASSUME NEW r \in Runs, Fail(r) PROVE Stages'
  <2> DEFINE l == [run[r] EXCEPT !.pc = "raised", !.taken = {}, !.todo = <<>>]
  <2>1. run' = [run EXCEPT ![r] = l] /\ UNCHANGED targeted
    BY <1>1, <1>11 DEF Fail
  <2>2. l.pc = "raised" /\ l.taken = {} /\ l.todo = <<>> /\ l.offset = run[r].offset
    BY <1>3 DEF Locals
  <2> HIDE DEF l
  <2> QED
    BY <1>3, <1>4, <2>1, <2>2 DEF Stage
<1> QED
  BY <1>2, <1>5, <1>6, <1>7, <1>8, <1>9, <1>10, <1>11
     DEF Next, RunStep, vars, Subscribe, ChatsChange

\* In every behaviour each targeted run stays on its first page.
THEOREM StagesCorrect == Spec => [](TypeOK /\ Stages)
  BY TypeInit, TypeStep, StagesInit, StagesStep, PTL DEF Spec

-----------------------------------------------------------------------------

\* A run that leaves its lookup looked up all it took, and hands on those of them
\* who are known and allowed.
LEMMA LookupWhole ==
  ASSUME TypeOK, Stages, NEW r \in Runs, Lookup(r)
  PROVE  run[r].taken \cap ToSet(chats) \cap allowed = UNION ToSet(run'[r].todo)
<1> DEFINE known == run[r].taken \cap ToSet(chats)
           beyond == Cardinality(known) - run[r].offset
<1>1. PICK page \in SUBSET known :
        /\ Cardinality(page) = Least(Limit, IF beyond > 0 THEN beyond ELSE 0)
        /\ run' = [run EXCEPT ![r].pc = "deliver", ![r].taken = {},
                              ![r].todo = Chunks(SetToSeq(page \cap allowed)),
                              ![r].unequal = FALSE,
                              ![r].last = beyond - Limit <= 0]
  BY DEF Lookup
<1>2. run \in [Runs -> Locals] /\ run[r] \in Locals /\ run[r].taken \subseteq Subjects
      /\ run[r].offset = 0 /\ Cardinality(run[r].taken) <= Limit
  BY DEF Lookup, TypeOK, Locals, Stages, Stage
<1>3. run'[r].todo = Chunks(SetToSeq(page \cap allowed))
  BY <1>1, <1>2 DEF Locals
<1>4. page = known
  <2>1. IsFiniteSet(known) /\ Cardinality(known) \in Nat /\ Cardinality(known) <= Limit
    BY <1>2, SizesAssumption, SubjectsFinite, FS_Subset
  <2>2. Cardinality(page) = Cardinality(known)
    BY <1>1, <1>2, <2>1, SizesAssumption DEF Least
  <2> QED
    BY <2>1, <2>2, FS_Subset
<1>5. IsFiniteSet(page \cap allowed)
  BY <1>2, <1>4, SubjectsFinite
<1>6. UNION ToSet(Chunks(SetToSeq(page \cap allowed))) = page \cap allowed
  <2> DEFINE S == page \cap allowed
  <2>1. Cardinality(S) \in Nat
    BY <1>5, FS_CardinalityType
  <2> DEFINE s == SetToSeq(S)
             n == Cardinality(S)
  <2>2. IsFiniteSet(S)
    BY <1>5
  <2> HIDE DEF S
  <2>3. s \in [1 .. n -> S] /\ ToSet(s) = S
    BY <2>2, SetToSeqElements, Zenon
  <2> HIDE DEF s, n
  <2>4. n \in Nat
    BY <2>1 DEF n
  <2>5. UNION ToSet(Chunks(s)) = ToSet(s)
    BY <2>3, <2>4, ChunksCover, Zenon
  <2> QED
    BY <2>3, <2>5 DEF S, s
<1> QED
  BY <1>3, <1>4, <1>6

\* Bot.feed_webhook_trigger serves each subscriber that it took, is known and may be
\* talked to, though it looks them up with the offset of its pages.
THEOREM NoneSkippedCorrect == Spec => NoneSkipped
<1> DEFINE Whole == \A r \in Runs :
      run[r].pc = "lookup" /\ run'[r].pc = "deliver" =>
        run[r].taken \cap ToSet(chats) \cap allowed = UNION ToSet(run'[r].todo)
<1>1. TypeOK /\ Stages /\ [Next]_vars => [Whole]_vars
  <2> SUFFICES ASSUME TypeOK, Stages, Next, NEW r \in Runs,
                      run[r].pc = "lookup", run'[r].pc = "deliver"
               PROVE  Lookup(r)
    BY LookupWhole
  <2>1. run \in [Runs -> Locals] /\ run[r] \in Locals
    BY DEF TypeOK
  <2>2. run' # run
    OBVIOUS
  <2>3. PICK q \in Runs : Start(q) \/ RunStep(q) \/ TakeFails(q) \/ Fail(q)
    BY <2>2 DEF Next, Subscribe, ChatsChange
  <2>4. CASE q # r
    <3>1. run'[r] = run[r]
      BY <2>1, <2>3, <2>4, ZenonT(30)
         DEF Start, RunStep, GotBot, Page, Take, TakeNone, Lookup, Deliver, PageDone,
             TakeFails, Fail
    <3> QED
      BY <3>1
  <2>5. CASE q = r
    <3>1. CASE Fail(r)
      BY <2>1, <3>1 DEF Fail, Locals
    <3> QED
      BY <2>3, <2>5, <3>1, ZenonT(30)
         DEF Start, RunStep, GotBot, Page, Take, TakeNone, Deliver, PageDone, TakeFails
  <2> QED
    BY <2>4, <2>5
<1> QED
  BY <1>1, StagesCorrect, PTL DEF Spec, NoneSkipped

-----------------------------------------------------------------------------
(* Conservation.  A step changes what at most one run holds and has handled, *)
(* so the sum over the targeted runs changes by what that run's part does.   *)

\* What a run holds and has handled of one subject.
Load(r, s) == Held(r, s) + reached[r][s]
Loads(s) == [r \in Runs |-> Load(r, s)]
Targeted == {r \in Runs : targeted[r]}

\* It is a number, before and after a step.
LEMMA LoadNat ==
  ASSUME NEW s \in Subjects, NEW r \in Runs
  PROVE  /\ TypeOK => Load(r, s) \in Nat
         /\ TypeOK' => Load(r, s)' \in Nat
<1>1. ASSUME TypeOK PROVE Load(r, s) \in Nat
  <2>1. reached[r][s] \in Nat /\ run[r] \in Locals
    BY <1>1 DEF TypeOK
  <2> QED
    BY <2>1, HasNat, HeldHas DEF Load
<1>2. ASSUME TypeOK' PROVE Load(r, s)' \in Nat
  <2>1. reached'[r][s] \in Nat /\ run'[r] \in Locals
    BY <1>2 DEF TypeOK, Locals
  <2> QED
    BY <2>1, HasNat, HeldHas DEF Load
<1> QED
  BY <1>1, <1>2

\* So their sum is one.
LEMMA TotalInt ==
  ASSUME TypeOK, NEW s \in Subjects
  PROVE  IsFiniteSet(Targeted) /\ SumFunctionOnSet(Loads(s), Targeted) \in Int
<1>1. IsFiniteSet(Targeted)
  BY SubjectsAssumption, FS_Subset DEF Targeted
<1>2. \A r \in Targeted : Loads(s)[r] \in Int
  BY LoadNat DEF Loads, Targeted
<1>3. PICK iter \in [SUBSET Targeted -> Int] :
        SumFunctionOnSet(Loads(s), Targeted) = iter[Targeted]
  BY <1>1, <1>2, SumFolds, Zenon
<1> QED
  BY <1>1, <1>3

\* What the sum comes to when one run's part changes.
LEMMA TotalChanged ==
  ASSUME TypeOK, TypeOK', NEW s \in Subjects, NEW r \in Runs, UNCHANGED targeted,
         \A q \in Runs \ {r} : Load(q, s)' = Load(q, s)
  PROVE  /\ SumFunctionOnSet(Loads(s), Targeted) \in Int
         /\ SumFunctionOnSet(Loads(s)', Targeted') =
              SumFunctionOnSet(Loads(s), Targeted)
                + (IF targeted[r] THEN Load(r, s)' - Load(r, s) ELSE 0)
<1> DEFINE f == Loads(s)
           g == Loads(s)'
           S == Targeted
<1>1. IsFiniteSet(S) /\ Targeted' = S
  BY SubjectsAssumption, FS_Subset DEF Targeted
<1>2. \A q \in Runs : f[q] = Load(q, s) /\ g[q] = Load(q, s)'
  BY DEF Loads
<1>3. \A q \in S : f[q] \in Int /\ g[q] \in Int
  <2> TAKE q \in S
  <2>1. q \in Runs
    BY DEF Targeted
  <2>2. Load(q, s) \in Nat
    BY <2>1, LoadNat
  <2>3. Load(q, s)' \in Nat
    BY <2>1, LoadNat
  <2> QED
    BY <1>2, <2>1, <2>2, <2>3
<1> HIDE DEF f, g, S
<1>4. CASE r \in S
  <2>1. \A y \in S \ {r} : g[y] = f[y]
    BY <1>2 DEF S, Targeted
  <2>2. SumFunctionOnSet(f, S) \in Int
        /\ SumFunctionOnSet(g, S) = SumFunctionOnSet(f, S) + g[r] - f[r]
    BY <1>1, <1>3, <1>4, <2>1, SumChanged
  <2>3. targeted[r] /\ f[r] \in Int /\ g[r] \in Int
    BY <1>3, <1>4 DEF S, Targeted
  <2> QED
    BY <1>1, <1>2, <2>2, <2>3 DEF f, g, S
<1>5. CASE r \notin S
  <2>1. \A y \in S : g[y] = f[y]
    BY <1>2, <1>5 DEF S, Targeted
  <2>2. ~targeted[r]
    BY <1>5 DEF S, Targeted
  <2>3. CASE S = {}
    <3>1. SumFunctionOnSet(f, S) = 0 /\ SumFunctionOnSet(g, S) = 0
      BY <1>1, <2>3, SumZero
    <3> QED
      BY <1>1, <2>2, <3>1 DEF f, g, S
  <2>4. ASSUME NEW x \in S
        PROVE  SumFunctionOnSet(f, S) \in Int /\ SumFunctionOnSet(g, S) = SumFunctionOnSet(f, S)
    <3>1. SumFunctionOnSet(f, S) \in Int
          /\ SumFunctionOnSet(g, S) = SumFunctionOnSet(f, S) + g[x] - f[x]
      BY <1>1, <1>3, <2>1, SumChanged
    <3> QED
      BY <1>3, <2>1, <3>1
  <2> QED
    BY <1>1, <2>2, <2>3, <2>4 DEF f, g, S
<1> QED
  BY <1>4, <1>5

\* The books of one subject.
Ledger(s) ==
    granted[s] = (IF s \in subs THEN 1 ELSE 0) + dropped[s] + SumFunctionOnSet(Loads(s), Targeted)

Books == \A s \in Subjects : Ledger(s)

\* The books of all balance when no subscription is lost or made up.
LEMMA BooksBalance == Books <=> Conservation
<1>1. ASSUME NEW s \in Subjects
      PROVE  Loads(s) = [r \in Runs |-> Held(r, s) + reached[r][s]]
  BY DEF Loads, Load
<1> QED
  BY <1>1, Zenon DEF Books, Ledger, Conservation, Targeted

\* They balance at first,
LEMMA BooksInit == Init => Books
<1> SUFFICES ASSUME Init, NEW s \in Subjects PROVE Ledger(s)
  BY DEF Books
<1>1. \A r \in Runs : run[r].todo = <<>> /\ run[r].taken = {} /\ reached[r][s] = 0
  BY DEF Init
<1>2. ASSUME NEW r \in Runs PROVE Loads(s)[r] = 0
  <2>1. {k \in DOMAIN run[r].todo : s \in run[r].todo[k]} = {}
    BY <1>1
  <2>2. Cardinality({k \in DOMAIN run[r].todo : s \in run[r].todo[k]}) = 0
    BY <2>1, FS_EmptySet, Zenon
  <2>3. Held(r, s) = 0
    BY <1>1, <2>2 DEF Held
  <2> QED
    BY <1>1, <2>3 DEF Loads, Load
<1>3. SumFunctionOnSet(Loads(s), Targeted) = 0
  <2>1. IsFiniteSet(Targeted) /\ \A r \in Targeted : Loads(s)[r] = 0
    BY <1>2, SubjectsAssumption, FS_Subset DEF Targeted
  <2> QED
    BY <2>1, SumZero
<1>4. granted[s] = 0 /\ dropped[s] = 0 /\ subs = {}
  BY DEF Init
<1> QED
  BY <1>3, <1>4 DEF Ledger

Waiting(s) == IF s \in subs THEN 1 ELSE 0

\* and every step keeps them balanced.
LEMMA BooksStep ==
  TypeOK /\ TypeOK' /\ Stages /\ Books /\ [Next]_vars => Books'
<1> SUFFICES ASSUME TypeOK, TypeOK', Stages, Books, [Next]_vars PROVE Books'
  OBVIOUS
<1>1. /\ run \in [Runs -> Locals] /\ reached \in [Runs -> [Subjects -> Nat]]
      /\ granted \in [Subjects -> Nat] /\ dropped \in [Subjects -> Nat]
      /\ granted' \in [Subjects -> Nat] /\ dropped' \in [Subjects -> Nat]
  BY DEF TypeOK
<1>2. \A r \in Runs : run[r] \in Locals /\ Stage(run[r], targeted[r])
  BY <1>1 DEF Stages
<1>3. ASSUME NEW r \in Runs, UNCHANGED targeted,
             \A q \in Runs \ {r} : run'[q] = run[q] /\ reached'[q] = reached[q],
             \A s \in Subjects :
               granted'[s] - Waiting(s)' - dropped'[s] =
                 granted[s] - Waiting(s) - dropped[s]
                   + IF targeted[r] THEN Load(r, s)' - Load(r, s) ELSE 0
      PROVE  Books'
  <2> SUFFICES ASSUME NEW s \in Subjects PROVE Ledger(s)'
    BY DEF Books
  <2>1. \A q \in Runs \ {r} : Load(q, s)' = Load(q, s)
    BY <1>3, HeldHas DEF Load
  <2> DEFINE sum == SumFunctionOnSet(Loads(s), Targeted)
             sums == SumFunctionOnSet(Loads(s)', Targeted')
  <2>2. sum \in Int /\ sums = sum + (IF targeted[r] THEN Load(r, s)' - Load(r, s) ELSE 0)
    BY <1>3, <2>1, TotalChanged
  <2>3. granted[s] = Waiting(s) + dropped[s] + sum
    BY DEF Books, Ledger, Waiting
  <2>4. /\ Waiting(s) \in Nat /\ Waiting(s)' \in Nat
        /\ granted[s] \in Nat /\ dropped[s] \in Nat /\ granted'[s] \in Nat /\ dropped'[s] \in Nat
        /\ Load(r, s) \in Nat /\ Load(r, s)' \in Nat
    BY <1>1, LoadNat DEF Waiting
  <2>5. granted'[s] - Waiting(s)' - dropped'[s] =
          granted[s] - Waiting(s) - dropped[s]
             + IF targeted[r] THEN Load(r, s)' - Load(r, s) ELSE 0
    BY <1>3
  <2> HIDE DEF sum, sums
  <2>6. granted'[s] = Waiting(s)' + dropped'[s] + sums
    BY <2>2, <2>3, <2>4, <2>5
  <2> QED
    BY <2>6 DEF Ledger, Waiting, sums
<1>4. ASSUME UNCHANGED <<targeted, run, reached>>,
             \A s \in Subjects : granted'[s] - Waiting(s)' - dropped'[s] =
                                   granted[s] - Waiting(s) - dropped[s]
      PROVE  Books'
  <2> SUFFICES ASSUME NEW s \in Subjects PROVE Ledger(s)'
    BY DEF Books
  <2>1. \A q \in Runs : Load(q, s)' = Load(q, s)
    BY <1>4, HeldHas DEF Load
  <2>2. Loads(s)' = Loads(s) /\ Targeted' = Targeted
    BY <1>4, <2>1 DEF Loads, Targeted
  <2> DEFINE sum == SumFunctionOnSet(Loads(s), Targeted)
             sums == SumFunctionOnSet(Loads(s)', Targeted')
  <2>3. sums = sum /\ sum \in Int
    BY <2>2, TotalInt
  <2>4. granted[s] = Waiting(s) + dropped[s] + sum
    BY DEF Books, Ledger, Waiting
  <2>5. /\ Waiting(s) \in Nat /\ Waiting(s)' \in Nat
        /\ granted[s] \in Nat /\ dropped[s] \in Nat /\ granted'[s] \in Nat /\ dropped'[s] \in Nat
    BY <1>1 DEF Waiting
  <2> HIDE DEF sum, sums
  <2>6. granted'[s] = Waiting(s)' + dropped'[s] + sums
    BY <1>4, <2>3, <2>4, <2>5
  <2> QED
    BY <2>6 DEF Ledger, Waiting, sums
<1>5. ASSUME NEW s \in Subjects, Subscribe(s) PROVE Books'
  <2>1. /\ granted' = IF s \in subs THEN granted ELSE Count(granted, {s})
        /\ subs' = subs \cup {s} /\ UNCHANGED <<targeted, run, reached, dropped>>
    BY <1>5, Zenon DEF Subscribe
  <2>2. \A t \in Subjects : granted'[t] - Waiting(t)' - dropped'[t] =
                              granted[t] - Waiting(t) - dropped[t]
    <3> TAKE t \in Subjects
    <3>1. granted[t] \in Nat /\ dropped[t] \in Nat
      BY <1>1
    <3>2. CASE s \in subs
      BY <2>1, <3>2 DEF Waiting
    <3>3. CASE s \notin subs
      <4>1. granted'[t] = granted[t] + IF t = s THEN 1 ELSE 0
        BY <2>1, <3>1, <3>3 DEF Count
      <4>2. Waiting(t)' = Waiting(t) + IF t = s THEN 1 ELSE 0
        BY <2>1, <3>3 DEF Waiting
      <4> QED
        BY <2>1, <3>1, <4>1, <4>2 DEF Waiting
    <3> QED
      BY <3>2, <3>3
  <2> QED
    BY <1>4, <2>1, <2>2
<1>6. ASSUME UNCHANGED <<subs, targeted, run, reached, granted, dropped>> PROVE Books'
  BY <1>4, <1>6 DEF Waiting
\* A step of one run, in its local variables and in what it does with the subscriptions.
<1>7. ASSUME NEW r \in Runs, NEW l \in Locals, run' = [run EXCEPT ![r] = l],
             UNCHANGED <<targeted, reached, granted>>,
             targeted[r] =>
               \A s \in Subjects : Waiting(s)' + dropped'[s] + Has(l, s) =
                                    Waiting(s) + dropped[s] + Has(run[r], s),
             ~targeted[r] =>
               \A s \in Subjects : Waiting(s)' + dropped'[s] = Waiting(s) + dropped[s]
      PROVE  Books'
  <2>1. run'[r] = l /\ \A q \in Runs \ {r} : run'[q] = run[q] /\ reached'[q] = reached[q]
    BY <1>1, <1>7
  <2>2. ASSUME NEW s \in Subjects
        PROVE  granted'[s] - Waiting(s)' - dropped'[s] =
                 granted[s] - Waiting(s) - dropped[s]
                   + IF targeted[r] THEN Load(r, s)' - Load(r, s) ELSE 0
    <3>1. /\ Waiting(s) \in Nat /\ Waiting(s)' \in Nat /\ dropped[s] \in Nat /\ dropped'[s] \in Nat
          /\ granted[s] \in Nat /\ reached[r][s] \in Nat
      BY <1>1 DEF Waiting
    <3>2. Has(l, s) \in Nat /\ Has(run[r], s) \in Nat
      BY <1>2, HasNat
    <3>3. Load(r, s) = Has(run[r], s) + reached[r][s] /\ Load(r, s)' = Has(l, s) + reached[r][s]
      BY <1>7, <2>1, HeldHas DEF Load
    <3> QED
      BY <1>7, <3>1, <3>2, <3>3
  <2> QED
    BY <1>3, <1>7, <2>1, <2>2
\* It leaves the subscriptions alone.
<1>8. ASSUME NEW r \in Runs, NEW l \in Locals, run' = [run EXCEPT ![r] = l],
             UNCHANGED <<subs, targeted, reached, granted, dropped>>,
             targeted[r] => l.taken = run[r].taken /\ l.todo = run[r].todo
      PROVE  Books'
  <2>1. targeted[r] => \A s \in Subjects : Has(l, s) = Has(run[r], s)
    BY <1>8 DEF Has
  <2>2. \A s \in Subjects : Waiting(s)' = Waiting(s)
    BY <1>8 DEF Waiting
  <2>3. UNCHANGED <<targeted, reached, granted>> /\ dropped' = dropped
    BY <1>8
  <2>4. targeted[r] =>
          \A s \in Subjects : Waiting(s)' + dropped'[s] + Has(l, s) =
                                Waiting(s) + dropped[s] + Has(run[r], s)
    BY <2>1, <2>2, <2>3
  <2>5. \A s \in Subjects : Waiting(s)' + dropped'[s] = Waiting(s) + dropped[s]
    BY <2>2, <2>3
  <2> QED
    BY <1>7, <1>8, <2>3, <2>4, <2>5
<1>9. ASSUME NEW r \in Runs, NEW l, run' = [run EXCEPT ![r] = l]
      PROVE  l \in Locals /\ run'[r] = l
  <2>1. run'[r] = l
    BY <1>1, <1>9
  <2>2. run'[r] \in Locals
    BY DEF TypeOK, Locals
  <2> QED
    BY <2>1, <2>2
<1>10. ASSUME NEW r \in Runs, Start(r) \/ GotBot(r) \/ TakeNone(r) PROVE Books'
  <2>1. PICK pc : run' = [run EXCEPT ![r] = [run[r] EXCEPT !.pc = pc]]
    BY <1>1, <1>10 DEF Start, GotBot, TakeNone
  <2> DEFINE l == [run[r] EXCEPT !.pc = pc]
  <2>2. l.taken = run[r].taken /\ l.todo = run[r].todo
    BY <1>2 DEF Locals
  <2>3. UNCHANGED <<subs, targeted, reached, granted, dropped>>
    BY <1>10 DEF Start, GotBot, TakeNone
  <2>4. run' = [run EXCEPT ![r] = l]
    BY <2>1
  <2> HIDE DEF l
  <2>5. l \in Locals
    BY <1>9, <2>4
  <2> QED
    BY <1>8, <2>2, <2>3, <2>4, <2>5
<1>11. ASSUME NEW r \in Runs, Page(r) PROVE Books'
  <2>1. PICK todo, unequal, last :
          run' = [run EXCEPT ![r].pc = "deliver", ![r].todo = todo, ![r].unequal = unequal,
                             ![r].last = last]
    BY <1>11, Zenon DEF Page
  <2> DEFINE l == [run[r] EXCEPT !.pc = "deliver", !.todo = todo, !.unequal = unequal, !.last = last]
  <2>2. run' = [run EXCEPT ![r] = l]
    BY <1>1, <2>1
  <2>3. UNCHANGED <<subs, targeted, reached, granted, dropped>> /\ ~targeted[r]
    BY <1>11 DEF Page
  <2> HIDE DEF l
  <2>4. l \in Locals
    BY <1>9, <2>2
  <2> QED
    BY <1>8, <2>2, <2>3, <2>4
<1>12. ASSUME NEW r \in Runs, PageDone(r) PROVE Books'
  <2>1. PICK place, offset : run' = [run EXCEPT ![r].pc = place, ![r].offset = offset]
    BY <1>1, <1>12 DEF PageDone
  <2> DEFINE l == [run[r] EXCEPT !.pc = place, !.offset = offset]
  <2>2. run' = [run EXCEPT ![r] = l]
    BY <1>1, <2>1
  <2>3. l.taken = run[r].taken /\ l.todo = run[r].todo
    BY <1>2 DEF Locals
  <2>4. UNCHANGED <<subs, targeted, reached, granted, dropped>>
    BY <1>12 DEF PageDone
  <2> HIDE DEF l
  <2>5. l \in Locals
    BY <1>9, <2>2
  <2> QED
    BY <1>8, <2>2, <2>3, <2>4, <2>5
<1>13. ASSUME NEW r \in Runs, Take(r) PROVE Books'
  <2>1. PICK some \in SUBSET subs :
          subs' = subs \ some /\ run' = [run EXCEPT ![r].pc = "lookup", ![r].taken = some]
    BY <1>13 DEF Take
  <2> DEFINE l == [run[r] EXCEPT !.pc = "lookup", !.taken = some]
  <2>2. run' = [run EXCEPT ![r] = l]
    BY <1>1, <2>1
  <2>3. l.taken = some /\ l.todo = run[r].todo
    BY <1>2 DEF Locals
  <2>4. UNCHANGED <<targeted, reached, granted, dropped>> /\ targeted[r] /\ run[r].taken = {}
    BY <1>2, <1>13 DEF Take, Stage
  <2> HIDE DEF l
  <2>5. l \in Locals
    BY <1>9, <2>2
  <2>6. ASSUME NEW s \in Subjects
        PROVE  Waiting(s)' + dropped'[s] + Has(l, s) = Waiting(s) + dropped[s] + Has(run[r], s)
    <3>1. Waiting(s) = Waiting(s)' + IF s \in some THEN 1 ELSE 0
      BY <2>1 DEF Waiting
    <3>2. Has(l, s) = Times(s, run[r].todo) + IF s \in some THEN 1 ELSE 0
      BY <2>3 DEF Has
    <3>3. Has(run[r], s) = Times(s, run[r].todo) + 0 /\ Times(s, run[r].todo) \in Nat
      BY <1>2, <2>4, HasNat DEF Has
    <3>4. dropped[s] \in Nat /\ dropped'[s] = dropped[s] /\ Waiting(s)' \in Nat
      BY <1>1, <2>4 DEF Waiting
    <3> QED
      BY <3>1, <3>2, <3>3, <3>4
  <2> QED
    BY <1>7, <2>2, <2>4, <2>5, <2>6
<1>14. ASSUME NEW r \in Runs, TakeFails(r) PROVE Books'
  <2>1. PICK some \in SUBSET subs : subs' = subs \ some /\ dropped' = Count(dropped, some)
    BY <1>14 DEF TakeFails
  <2> DEFINE l == [run[r] EXCEPT !.pc = "raised"]
  <2>2. run' = [run EXCEPT ![r] = l]
    BY <1>1, <1>14 DEF TakeFails
  <2>3. l.taken = run[r].taken /\ l.todo = run[r].todo
    BY <1>2 DEF Locals
  <2>4. UNCHANGED <<targeted, reached, granted>> /\ targeted[r]
    BY <1>14 DEF TakeFails
  <2> HIDE DEF l
  <2>5. l \in Locals
    BY <1>9, <2>2
  <2>6. ASSUME NEW s \in Subjects
        PROVE  Waiting(s)' + dropped'[s] + Has(l, s) = Waiting(s) + dropped[s] + Has(run[r], s)
    <3>1. Waiting(s) = Waiting(s)' + IF s \in some THEN 1 ELSE 0
      BY <2>1 DEF Waiting
    <3>2. Has(l, s) = Has(run[r], s) /\ Has(run[r], s) \in Nat
      BY <1>2, <2>3, HasNat DEF Has
    <3>3. dropped[s] \in Nat /\ dropped'[s] = dropped[s] + IF s \in some THEN 1 ELSE 0
      BY <1>1, <2>1 DEF Count
    <3>4. Waiting(s)' \in Nat
      BY DEF Waiting
    <3> QED
      BY <3>1, <3>2, <3>3, <3>4
  <2> QED
    BY <1>7, <2>2, <2>4, <2>5, <2>6
<1>15. ASSUME NEW r \in Runs, Lookup(r) PROVE Books'
  <2> DEFINE known == run[r].taken \cap ToSet(chats)
             beyond == Cardinality(known) - run[r].offset
  <2>1. PICK page \in SUBSET known :
          /\ run' = [run EXCEPT ![r].pc = "deliver", ![r].taken = {},
                                ![r].todo = Chunks(SetToSeq(page \cap allowed)),
                                ![r].unequal = FALSE, ![r].last = beyond - Limit <= 0]
          /\ dropped' = Count(dropped, run[r].taken \ (page \cap allowed))
    BY <1>15 DEF Lookup
  <2> DEFINE served == page \cap allowed
             todo == Chunks(SetToSeq(served))
             l == [run[r] EXCEPT !.pc = "deliver", !.taken = {}, !.todo = todo,
                                 !.unequal = FALSE, !.last = beyond - Limit <= 0]
  <2>2. run' = [run EXCEPT ![r] = l]
    BY <1>1, <2>1
  <2>3. l.taken = {} /\ l.todo = todo
    BY <1>2 DEF Locals
  <2>4. UNCHANGED <<subs, targeted, reached, granted>> /\ targeted[r] /\ run[r].todo = <<>>
    BY <1>2, <1>15 DEF Lookup, Stage
  <2>5. served \subseteq run[r].taken /\ served \subseteq Subjects
    BY DEF TypeOK
  <2>6. \A s : Times(s, todo) = IF s \in served THEN 1 ELSE 0
    BY <2>5, LookupTodo
  <2>7. dropped' = Count(dropped, run[r].taken \ served)
    BY <2>1
  <2> HIDE DEF l, known, beyond, served, todo
  <2>8. l \in Locals
    BY <1>9, <2>2
  <2>9. ASSUME NEW s \in Subjects
        PROVE  Waiting(s)' + dropped'[s] + Has(l, s) = Waiting(s) + dropped[s] + Has(run[r], s)
    <3>1. Waiting(s)' = Waiting(s) /\ Waiting(s) \in Nat
      BY <2>4 DEF Waiting
    <3>2. Has(l, s) = IF s \in served THEN 1 ELSE 0
      BY <2>3, <2>6 DEF Has
    <3>3. Has(run[r], s) = IF s \in run[r].taken THEN 1 ELSE 0
      <4>1. {k \in DOMAIN run[r].todo : s \in run[r].todo[k]} = {}
        BY <2>4
      <4>2. Times(s, run[r].todo) = 0
        BY <4>1, FS_EmptySet, Zenon DEF Times
      <4> QED
        BY <4>2 DEF Has
    <3>4. dropped[s] \in Nat
          /\ dropped'[s] = dropped[s] + IF s \in run[r].taken \ served THEN 1 ELSE 0
      BY <1>1, <2>7 DEF Count
    <3> QED
      BY <2>5, <3>1, <3>2, <3>3, <3>4
  <2> QED
    BY <1>7, <2>2, <2>4, <2>8, <2>9
<1>16. ASSUME NEW r \in Runs, Deliver(r) PROVE Books'
  <2> DEFINE todo == run[r].todo
             l == [run[r] EXCEPT !.todo = Tail(@), !.handled = TRUE]
  <2>1. run' = [run EXCEPT ![r] = l] /\ todo # <<>>
        /\ reached' = [reached EXCEPT ![r] = Count(reached[r], Head(todo))]
        /\ UNCHANGED <<subs, targeted, granted, dropped>>
    BY <1>1, <1>16 DEF Deliver
  <2>2. l.taken = run[r].taken /\ l.todo = Tail(todo)
    BY <1>2 DEF Locals
  <2>3. todo \in Seq(SUBSET Subjects)
    BY <1>2 DEF Locals
  <2> HIDE DEF todo, l
  <2>4. l \in Locals /\ run'[r] = l /\ \A q \in Runs \ {r} : run'[q] = run[q] /\ reached'[q] = reached[q]
    BY <1>1, <1>9, <2>1
  <2>5. ASSUME NEW s \in Subjects PROVE Load(r, s)' = Load(r, s) /\ Load(r, s) \in Nat
    <3>1. /\ Times(s, todo) \in Nat /\ Times(s, Tail(todo)) \in Nat
          /\ Times(s, todo) = Times(s, Tail(todo)) + IF s \in Head(todo) THEN 1 ELSE 0
      BY <2>1, <2>3, TimesTail
    <3>2. reached[r][s] \in Nat /\ reached'[r][s] = reached[r][s] + IF s \in Head(todo) THEN 1 ELSE 0
      BY <1>1, <2>1 DEF Count
    <3>3. /\ Load(r, s) = Times(s, todo) + (IF s \in run[r].taken THEN 1 ELSE 0) + reached[r][s]
          /\ Load(r, s)' = Times(s, Tail(todo)) + (IF s \in run[r].taken THEN 1 ELSE 0) + reached'[r][s]
      BY <2>2, <2>4, HeldHas DEF Load, Has, todo
    <3> QED
      BY <3>1, <3>2, <3>3
  <2>6. ASSUME NEW s \in Subjects
        PROVE  granted'[s] - Waiting(s)' - dropped'[s] =
                 granted[s] - Waiting(s) - dropped[s]
                   + IF targeted[r] THEN Load(r, s)' - Load(r, s) ELSE 0
    <3>1. granted[s] \in Nat /\ dropped[s] \in Nat /\ Waiting(s) \in Nat /\ Waiting(s)' = Waiting(s)
      BY <1>1, <2>1 DEF Waiting
    <3> QED
      BY <2>1, <2>5, <3>1
  <2> QED
    BY <1>3, <2>1, <2>4, <2>6
<1>17. ASSUME NEW r \in Runs, Fail(r) PROVE Books'
  <2> DEFINE l == [run[r] EXCEPT !.pc = "raised", !.taken = {}, !.todo = <<>>]
  <2>1. run' = [run EXCEPT ![r] = l]
    BY <1>1, <1>17 DEF Fail
  <2>2. l.taken = {} /\ l.todo = <<>>
    BY <1>2 DEF Locals
  <2>3. UNCHANGED <<subs, targeted, reached, granted>>
        /\ dropped' = IF targeted[r] THEN [s \in Subjects |-> dropped[s] + Held(r, s)] ELSE dropped
    BY <1>17, Zenon DEF Fail
  <2> HIDE DEF l
  <2>4. l \in Locals
    BY <1>9, <2>1
  <2>5. ASSUME NEW s \in Subjects
        PROVE  /\ targeted[r] => Waiting(s)' + dropped'[s] + Has(l, s) =
                                  Waiting(s) + dropped[s] + Has(run[r], s)
               /\ ~targeted[r] => Waiting(s)' + dropped'[s] = Waiting(s) + dropped[s]
    <3>1. Waiting(s)' = Waiting(s) /\ Waiting(s) \in Nat /\ dropped[s] \in Nat
      BY <1>1, <2>3 DEF Waiting
    <3>2. Has(l, s) = 0
      <4>1. {k \in DOMAIN l.todo : s \in l.todo[k]} = {}
        BY <2>2
      <4>2. Times(s, l.todo) = 0
        BY <4>1, FS_EmptySet, Zenon DEF Times
      <4> QED
        BY <2>2, <4>2 DEF Has
    <3>3. Has(run[r], s) \in Nat /\ Held(r, s) = Has(run[r], s)
      BY <1>2, HasNat, HeldHas
    <3>4. CASE targeted[r]
      BY <2>3, <3>1, <3>2, <3>3, <3>4
    <3>5. CASE ~targeted[r]
      BY <2>3, <3>1, <3>5
    <3> QED
      BY <3>4, <3>5
  <2> QED
    BY <1>7, <2>1, <2>3, <2>4, <2>5
<1> QED
  BY <1>5, <1>6, <1>10, <1>11, <1>12, <1>13, <1>14, <1>15, <1>16, <1>17
     DEF Next, RunStep, vars, ChatsChange

\* No subscription is lost or served twice, however the runs and their failures overlap.
THEOREM ConservationCorrect == Spec => []Conservation
<1>1. Init => TypeOK /\ Stages /\ Books
  BY TypeInit, StagesInit, BooksInit
<1>2. TypeOK /\ Stages /\ Books /\ [Next]_vars => (TypeOK /\ Stages /\ Books)'
  BY TypeStep, StagesStep, BooksStep
<1> QED
  BY <1>1, <1>2, BooksBalance, PTL DEF Spec

-----------------------------------------------------------------------------
(* The pages of all chats.                                                  *)

\* How many of the chats a run with these local variables has paged.
Upto(l) == CASE l.pc = "deliver" -> PageEnd(l.offset)
             [] l.pc = "ended" -> Len(chats)
             [] OTHER -> l.offset

\* So far it has handled, or will in this page, each of these chats once, and no other.
Paged(l, row) ==
    /\ l.offset <= Len(chats)
    /\ l.pc = "deliver" => l.last = (Len(chats) - (l.offset + Limit) <= 0)
    /\ Stretch(chats, 1, Upto(l)) \subseteq allowed
    /\ \A s \in Subjects : row[s] + Has(l, s) = IF s \in Stretch(chats, 1, Upto(l)) THEN 1 ELSE 0

PagesWell(l, row) ==
    l.pc # "raised" => /\ l.unequal => l.pc = "deliver"
                       /\ ~l.unequal => Paged(l, row)

PagesInv ==
    changes = 0 => chats = Initially /\ \A r \in Runs : ~targeted[r] => PagesWell(run[r], reached[r])

\* Nothing is held where there are no batches and no one taken.
LEMMA HasNone ==
  ASSUME NEW l, l.todo = <<>>, l.taken = {}, NEW s
  PROVE  Has(l, s) = 0
<1>1. {k \in DOMAIN l.todo : s \in l.todo[k]} = {}
  OBVIOUS
<1>2. Times(s, l.todo) = 0
  BY <1>1, FS_EmptySet, Zenon DEF Times
<1> QED
  BY <1>2 DEF Has

\* It is so at first,
LEMMA PagesInit == Init => PagesInv
<1> SUFFICES ASSUME Init, NEW r \in Runs PROVE PagesWell(run[r], reached[r])
  BY DEF PagesInv, Init
<1> DEFINE l == run[r]
           row == reached[r]
<1>1. /\ l.pc = "idle" /\ l.offset = 0 /\ l.todo = <<>> /\ l.taken = {} /\ l.unequal = FALSE
      /\ \A s \in Subjects : row[s] = 0
  BY DEF Init
<1>2. Len(chats) \in Nat /\ Upto(l) = 0
  BY <1>1, OrderAssumption DEF Init, Upto
<1>3. \A s : Has(l, s) = 0
  BY <1>1, HasNone
<1>4. Stretch(chats, 1, 0) = {}
  BY DEF Stretch
<1> HIDE DEF l, row
<1> QED
  BY <1>1, <1>2, <1>3, <1>4 DEF PagesWell, Paged, l, row

\* One page more.
LEMMA NextPage ==
  ASSUME TypeOK, chats = Initially, NEW r \in Runs, Stage(run[r], targeted[r]), Page(r),
         PagesWell(run[r], reached[r])
  PROVE  PagesWell(run'[r], reached'[r])
<1> DEFINE offset == run[r].offset
           m == PageEnd(offset)
           n == PageLen(offset)
           results == SubSeq(chats, offset + 1, m)
           kept == Allowed(results)
           equal == Len(kept) = Len(results)
           todo == IF equal THEN Chunks(kept) ELSE SubSeq(Chunks(kept), 1, Len(kept) \div Batch)
           last == Len(chats) - (offset + Limit) <= 0
           l == [run[r] EXCEPT !.pc = "deliver", !.todo = todo, !.unequal = ~equal, !.last = last]
<1>1. /\ run \in [Runs -> Locals] /\ run[r] \in Locals /\ chats \in Seq(Subjects)
      /\ offset \in Nat /\ reached[r] \in [Subjects -> Nat]
  BY DEF TypeOK, Locals
<1>2. /\ run' = [run EXCEPT ![r].pc = "deliver", ![r].todo = todo, ![r].unequal = ~equal,
                            ![r].last = last]
      /\ UNCHANGED reached /\ run[r].pc = "page"
  BY Zenon DEF Page, PageEnd
<1> HIDE DEF todo, equal, last
<1>3. run' = [run EXCEPT ![r] = l]
  BY <1>1, <1>2
<1>4. run'[r] = l
  BY <1>1, <1>3
<1>5. /\ l.pc = "deliver" /\ l.todo = todo /\ l.unequal = ~equal /\ l.last = last
      /\ l.taken = run[r].taken /\ l.offset = offset
  BY <1>1 DEF Locals
<1> HIDE DEF l
<1>6. SUFFICES ASSUME equal PROVE Paged(l, reached[r])
  BY <1>2, <1>4, <1>5 DEF PagesWell
<1>7. /\ offset <= Len(chats) /\ Stretch(chats, 1, offset) \subseteq allowed
      /\ \A s \in Subjects : reached[r][s] = IF s \in Stretch(chats, 1, offset) THEN 1 ELSE 0
  <2>1. Paged(run[r], reached[r])
    BY <1>2 DEF PagesWell
  <2>2. Upto(run[r]) = offset
    BY <1>2 DEF Upto
  <2>3. \A s : Has(run[r], s) = 0
    BY <1>2, HasNone DEF Stage
  <2> QED
    BY <1>1, <2>1, <2>2, <2>3 DEF Paged
<1>8. /\ m \in Nat /\ m <= Len(chats) /\ n \in Nat
      /\ results \in [1 .. n -> Subjects] /\ Len(results) = n
      /\ \A i \in 1 .. n : results[i] = chats[offset + i]
  BY <1>1, PageOf
<1>9. offset <= m /\ n = m - offset
  BY <1>1, <1>7, <1>8, SizesAssumption DEF PageEnd, PageLen, Least
<1> HIDE DEF offset, m, n, results
<1>10. kept = results /\ Stretch(results, 1, n) \subseteq allowed
  BY <1>6, <1>8, AllowedAre DEF equal
<1>11. todo = Chunks(results)
  BY <1>6, <1>10, Zenon DEF todo
<1>12. \A i, j \in 1 .. Len(chats) : chats[i] = chats[j] => i = j
  BY <1>1, OrderAssumption DEF IsInjective
<1>13. IsInjective(results)
  <2>1. \A i \in 1 .. n : offset + i \in 1 .. Len(chats)
    BY <1>1, <1>8, <1>9
  <2>2. DOMAIN results = 1 .. n
    BY <1>8
  <2>3. ASSUME NEW i \in 1 .. n, NEW j \in 1 .. n, results[i] = results[j] PROVE i = j
    <3>1. chats[offset + i] = chats[offset + j]
      BY <1>8, <2>3
    <3>2. offset + i = offset + j
      BY <1>12, <2>1, <3>1
    <3> QED
      BY <1>1, <3>2
  <2> QED
    BY <2>2, <2>3 DEF IsInjective
<1>14. \A s : Times(s, todo) = IF s \in Stretch(results, 1, n) THEN 1 ELSE 0
  BY <1>8, <1>11, <1>13, TimesInChunks, ZenonT(30)
<1>15. Stretch(chats, 1, m) = Stretch(chats, 1, offset) \cup Stretch(results, 1, n)
  <2>1. ASSUME NEW i \in 1 .. m PROVE chats[i] \in Stretch(chats, 1, offset) \cup Stretch(results, 1, n)
    <3>1. CASE i <= offset
      BY <1>1, <3>1, SMTT(30) DEF Stretch
    <3>2. CASE ~(i <= offset)
      <4>1. i - offset \in 1 .. n /\ offset + (i - offset) = i
        BY <1>1, <1>8, <1>9, <3>2
      <4>2. results[i - offset] = chats[i]
        BY <1>8, <4>1
      <4> QED
        BY <4>1, <4>2 DEF Stretch
    <3> QED
      BY <3>1, <3>2
  <2>2. ASSUME NEW i \in 1 .. offset PROVE chats[i] \in Stretch(chats, 1, m)
    <3>1. i \in 1 .. m
      BY <1>1, <1>8, <1>9
    <3> QED
      BY <3>1 DEF Stretch
  <2>3. ASSUME NEW i \in 1 .. n PROVE results[i] \in Stretch(chats, 1, m)
    <3>1. offset + i \in 1 .. m
      BY <1>1, <1>8, <1>9
    <3> QED
      BY <1>8, <3>1 DEF Stretch
  <2> QED
    BY <2>1, <2>2, <2>3 DEF Stretch
<1>16. ASSUME NEW s, s \in Stretch(chats, 1, offset), s \in Stretch(results, 1, n) PROVE FALSE
  <2>1. PICK i \in 1 .. offset : s = chats[i]
    BY <1>16 DEF Stretch
  <2>2. PICK j \in 1 .. n : s = results[j]
    BY <1>16 DEF Stretch
  <2>3. i \in 1 .. Len(chats) /\ offset + j \in 1 .. Len(chats) /\ i # offset + j
    BY <1>1, <1>8, <1>9
  <2> QED
    BY <1>8, <1>12, <2>1, <2>2, <2>3
<1>17. Upto(l) = m
  BY <1>5 DEF Upto, m
<1>18. ASSUME NEW s \in Subjects
       PROVE  reached[r][s] + Has(l, s) = IF s \in Stretch(chats, 1, m) THEN 1 ELSE 0
  <2>1. Has(l, s) = Times(s, todo) + 0
    BY <1>2, <1>5 DEF Has, Stage
  <2> QED
    BY <1>7, <1>14, <1>15, <1>16, <2>1
<1> QED
  BY <1>5, <1>7, <1>10, <1>15, <1>17, <1>18 DEF Paged, last

\* and every step keeps it.
LEMMA PagesStep ==
  TypeOK /\ TypeOK' /\ Stages /\ PagesInv /\ [Next]_vars => PagesInv'
<1> SUFFICES ASSUME TypeOK, TypeOK', Stages, PagesInv, [Next]_vars PROVE PagesInv'
  OBVIOUS
<1>1. /\ run \in [Runs -> Locals] /\ reached \in [Runs -> [Subjects -> Nat]]
      /\ chats \in Seq(Subjects) /\ changes \in Nat
  BY DEF TypeOK
<1>2. \A r \in Runs : run[r] \in Locals /\ Stage(run[r], targeted[r])
  BY <1>1 DEF Stages
<1>3. ASSUME UNCHANGED <<service, targeted, run, reached>> PROVE PagesInv'
  BY <1>3 DEF PagesInv, PagesWell, Paged, Upto, PageEnd, Stretch, Has, Times, service
<1>4. CASE ChatsChange
  BY <1>1, <1>4 DEF ChatsChange, PagesInv
<1>5. ASSUME NEW r \in Runs, UNCHANGED <<service, targeted>>,
             \A q \in Runs \ {r} : run'[q] = run[q] /\ reached'[q] = reached[q],
             changes = 0 /\ chats = Initially /\ ~targeted[r] /\ PagesWell(run[r], reached[r])
               => PagesWell(run'[r], reached'[r])
      PROVE  PagesInv'
  <2> SUFFICES ASSUME changes' = 0, NEW q \in Runs, ~targeted'[q]
               PROVE  chats' = Initially /\ PagesWell(run[q], reached[q])'
    <3>1. ASSUME changes' = 0 PROVE chats' = Initially
      BY <1>5, <3>1 DEF PagesInv, service
    <3> QED
      BY <3>1 DEF PagesInv
  <2>1. changes = 0 /\ chats = Initially /\ ~targeted[q] /\ PagesWell(run[q], reached[q])
    BY <1>5 DEF PagesInv, service
  <2>2. PagesWell(run'[q], reached'[q])
    BY <1>5, <2>1
  <2>3. PagesWell(run[q], reached[q])' <=> PagesWell(run'[q], reached'[q])
    BY <1>5 DEF PagesWell, Paged, Upto, PageEnd, Stretch, Has, Times, service
  <2> QED
    BY <1>5, <2>1, <2>2, <2>3 DEF service
<1>6. ASSUME NEW r \in Runs, NEW l, run' = [run EXCEPT ![r] = l], UNCHANGED <<service, targeted, reached>>,
             chats = Initially /\ ~targeted[r] /\ PagesWell(run[r], reached[r]) => PagesWell(l, reached[r])
      PROVE  PagesInv'
  <2>1. run'[r] = l /\ \A q \in Runs \ {r} : run'[q] = run[q] /\ reached'[q] = reached[q]
    BY <1>1, <1>6
  <2> QED
    BY <1>5, <1>6, <2>1
<1>7. ASSUME NEW r \in Runs, Start(r) \/ GotBot(r) PROVE PagesInv'
  <2>1. PICK pc \in {"bot", "page"} : run' = [run EXCEPT ![r] = [run[r] EXCEPT !.pc = pc]]
    BY <1>1, <1>7 DEF Start, GotBot
  <2> DEFINE l == [run[r] EXCEPT !.pc = pc]
  <2>2. run' = [run EXCEPT ![r] = l]
    BY <2>1
  <2>3. /\ l.pc = pc /\ l.taken = run[r].taken /\ l.todo = run[r].todo /\ l.offset = run[r].offset
        /\ l.unequal = run[r].unequal
    BY <1>2 DEF Locals
  <2>4. UNCHANGED <<service, targeted, reached>> /\ run[r].pc \in {"idle", "bot"}
    BY <1>7 DEF Start, GotBot
  <2> HIDE DEF l
  <2>5. Upto(l) = Upto(run[r]) /\ \A s : Has(l, s) = Has(run[r], s)
    BY <2>3, <2>4, Zenon DEF Upto, Has
  <2>6. PagesWell(run[r], reached[r]) => PagesWell(l, reached[r])
    BY <2>3, <2>4, <2>5, SMTT(30) DEF PagesWell, Paged
  <2> QED
    BY <1>6, <2>2, <2>4, <2>6
\* A targeted run, or one that has raised, pages nothing.
<1>8. ASSUME NEW r \in Runs, Take(r) \/ TakeNone(r) \/ TakeFails(r) \/ Lookup(r) \/ Fail(r)
      PROVE  PagesInv'
  <2>1. UNCHANGED <<service, targeted, reached>>
    BY <1>8 DEF Take, TakeNone, TakeFails, Lookup, Fail
  <2>2. \A q \in Runs \ {r} : run'[q] = run[q] /\ reached'[q] = reached[q]
    BY <1>1, <1>8 DEF Take, TakeNone, TakeFails, Lookup, Fail
  <2>3. CASE targeted[r]
    BY <1>5, <2>1, <2>2, <2>3
  <2>4. CASE Fail(r)
    <3>1. run'[r].pc = "raised"
      BY <1>1, <1>2, <2>4 DEF Fail, Locals
    <3> QED
      BY <1>5, <2>1, <2>2, <3>1 DEF PagesWell
  <2> QED
    BY <1>2, <1>8, <2>3, <2>4 DEF Take, TakeNone, TakeFails, Lookup, Stage
<1>9. ASSUME NEW r \in Runs, Page(r) PROVE PagesInv'
  <2>1. UNCHANGED <<service, targeted, reached>>
    BY <1>9 DEF Page
  <2>2. \A q \in Runs \ {r} : run'[q] = run[q] /\ reached'[q] = reached[q]
    BY <1>1, <1>9 DEF Page
  <2>3. chats = Initially /\ PagesWell(run[r], reached[r]) => PagesWell(run'[r], reached'[r])
    BY <1>2, <1>9, NextPage
  <2> QED
    BY <1>5, <2>1, <2>2, <2>3
<1>10. ASSUME NEW r \in Runs, Deliver(r) PROVE PagesInv'
  <2> DEFINE todo == run[r].todo
             l == [run[r] EXCEPT !.todo = Tail(@), !.handled = TRUE]
  <2>1. /\ run' = [run EXCEPT ![r] = l] /\ todo # <<>>
        /\ reached' = [reached EXCEPT ![r] = Count(reached[r], Head(todo))]
        /\ UNCHANGED <<service, targeted>>
    BY <1>1, <1>10 DEF Deliver
  <2>2. /\ l.pc = run[r].pc /\ l.taken = run[r].taken /\ l.todo = Tail(todo)
        /\ l.offset = run[r].offset /\ l.unequal = run[r].unequal /\ l.last = run[r].last
    BY <1>2 DEF Locals
  <2>3. todo \in Seq(SUBSET Subjects)
    BY <1>2 DEF Locals
  <2> HIDE DEF todo, l
  <2>4. run'[r] = l /\ \A q \in Runs \ {r} : run'[q] = run[q] /\ reached'[q] = reached[q]
    BY <1>1, <2>1
  <2>5. ASSUME NEW s \in Subjects PROVE reached'[r][s] + Has(l, s) = reached[r][s] + Has(run[r], s)
    <3>1. /\ Times(s, todo) \in Nat /\ Times(s, Tail(todo)) \in Nat
          /\ Times(s, todo) = Times(s, Tail(todo)) + IF s \in Head(todo) THEN 1 ELSE 0
      BY <2>1, <2>3, TimesTail
    <3>2. reached[r][s] \in Nat /\ reached'[r][s] = reached[r][s] + IF s \in Head(todo) THEN 1 ELSE 0
      BY <1>1, <2>1 DEF Count
    <3>3. /\ Has(run[r], s) = Times(s, todo) + (IF s \in run[r].taken THEN 1 ELSE 0)
          /\ Has(l, s) = Times(s, Tail(todo)) + (IF s \in run[r].taken THEN 1 ELSE 0)
      BY <2>2 DEF Has, todo
    <3> QED
      BY <3>1, <3>2, <3>3
  <2>6. Upto(l) = Upto(run[r])
    BY <2>2, Zenon DEF Upto
  <2>7. PagesWell(run[r], reached[r]) => PagesWell(l, reached'[r])
    BY <2>2, <2>5, <2>6 DEF PagesWell, Paged
  <2> QED
    BY <1>5, <2>1, <2>4, <2>7
<1>11. ASSUME NEW r \in Runs, PageDone(r) PROVE PagesInv'
  <2>1. PICK place \in {"raised", "ended", "page"} :
          /\ place # "raised" => ~run[r].unequal
          /\ place = "page" => ~run[r].last
          /\ place = "ended" => run[r].last
          /\ run' = [run EXCEPT ![r].pc = place,
                        ![r].offset = IF place = "page" THEN @ + Limit ELSE @]
    BY <1>11 DEF PageDone
  <2> DEFINE l == [run[r] EXCEPT !.pc = place, !.offset = IF place = "page" THEN @ + Limit ELSE @]
  <2>2. run' = [run EXCEPT ![r] = l]
    BY <1>1, <2>1
  <2>3. /\ l.pc = place /\ l.taken = run[r].taken /\ l.todo = run[r].todo
        /\ l.offset = IF place = "page" THEN run[r].offset + Limit ELSE run[r].offset
        /\ l.unequal = run[r].unequal
    BY <1>2 DEF Locals
  <2>4. run[r].pc = "deliver" /\ UNCHANGED <<service, targeted, reached>>
    BY <1>11 DEF PageDone
  <2>5. run[r].offset \in Nat /\ Len(chats) \in Nat /\ Limit \in Nat
    BY <1>1, <1>2, SizesAssumption DEF Locals
  <2> HIDE DEF l
  <2>6. \A s : Has(l, s) = Has(run[r], s)
    BY <2>3 DEF Has
  <2>7. ASSUME Paged(run[r], reached[r]), place # "raised" PROVE Paged(l, reached[r])
    <3>1. run[r].last = (Len(chats) - (run[r].offset + Limit) <= 0) /\ run[r].offset <= Len(chats)
      BY <2>4, <2>7 DEF Paged
    <3>2. Upto(run[r]) = PageEnd(run[r].offset)
      BY <2>4 DEF Upto
    <3>3. Upto(l) = PageEnd(run[r].offset) /\ l.offset <= Len(chats)
      <4>1. CASE place = "ended"
        <5>3. Len(chats) - (run[r].offset + Limit) <= 0
          BY <2>1, <3>1, <4>1, Zenon
        <5>1. PageEnd(run[r].offset) = Len(chats) /\ l.offset <= Len(chats)
          BY <2>3, <2>5, <3>1, <4>1, <5>3 DEF PageEnd, Least
        <5>2. Upto(l) = Len(chats)
          <6>1. l.pc = "ended"
            BY <2>3, <4>1
          <6> QED
            BY <6>1 DEF Upto
        <5> QED
          BY <5>1, <5>2
      <4>2. CASE place = "page"
        <5>3. ~(Len(chats) - (run[r].offset + Limit) <= 0)
          BY <2>1, <3>1, <4>2, Zenon
        <5>1. PageEnd(run[r].offset) = run[r].offset + Limit /\ l.offset <= Len(chats)
              /\ l.offset = run[r].offset + Limit
          BY <2>3, <2>5, <4>2, <5>3 DEF PageEnd, Least
        <5>2. Upto(l) = l.offset
          <6>1. l.pc = "page"
            BY <2>3, <4>2
          <6> QED
            BY <6>1 DEF Upto
        <5> QED
          BY <5>1, <5>2
      <4> QED
        BY <2>7, <4>1, <4>2
    <3> QED
      BY <2>1, <2>3, <2>6, <2>7, <3>2, <3>3 DEF Paged
  <2>8. PagesWell(run[r], reached[r]) => PagesWell(l, reached[r])
    BY <2>1, <2>3, <2>4, <2>7 DEF PagesWell
  <2> QED
    BY <1>6, <2>2, <2>4, <2>8
<1>12. ASSUME NEW s \in Subjects, Subscribe(s) PROVE PagesInv'
  BY <1>3, <1>12 DEF Subscribe
<1> QED
  BY <1>3, <1>4, <1>7, <1>8, <1>9, <1>10, <1>11, <1>12 DEF Next, RunStep, vars

\* Bot.feed_webhook_trigger handles each allowed chat once and no other when the chats do
\* not change under its pages, whatever the sizes of the pages and of the batches.
THEOREM AllChatsOnceCorrect == Spec => []AllChatsOnce
<1>1. Init => TypeOK /\ Stages /\ PagesInv
  BY TypeInit, StagesInit, PagesInit
<1>2. TypeOK /\ Stages /\ PagesInv /\ [Next]_vars => (TypeOK /\ Stages /\ PagesInv)'
  BY TypeStep, StagesStep, PagesStep
<1>3. TypeOK /\ Stages /\ PagesInv => AllChatsOnce
  <2> SUFFICES ASSUME TypeOK, Stages, PagesInv, NEW r \in Runs,
                      ~targeted[r], run[r].pc = "ended", changes = 0, NEW s \in Subjects
               PROVE  reached[r][s] = IF s \in ToSet(chats) \cap allowed THEN 1 ELSE 0
    BY DEF AllChatsOnce
  <2>1. Paged(run[r], reached[r])
    BY DEF PagesInv, PagesWell
  <2>2. Upto(run[r]) = Len(chats)
    BY DEF Upto
  <2>3. Has(run[r], s) = 0
    BY HasNone DEF Stages, Stage
  <2>4. Stretch(chats, 1, Len(chats)) = ToSet(chats)
    <3>1. chats \in Seq(Subjects)
      BY DEF TypeOK
    <3> QED
      BY <3>1 DEF Stretch, ToSet
  <2>5. reached[r][s] \in Nat
    BY DEF TypeOK
  <2> QED
    BY <2>1, <2>2, <2>3, <2>4, <2>5 DEF Paged
<1> QED
  BY <1>1, <1>2, <1>3, PTL DEF Spec

-----------------------------------------------------------------------------
(* Conditions.                                                              *)

\* The operators agree with how the two values stand to each other.
LEMMA OutcomeHolds ==
  ASSUME NEW part \in Part
  PROVE  /\ Outcome(part) \in BOOLEAN
         /\ Outcome(part) <=> Holds(part)
<1> DEFINE x == part.first
           y == part.second
           R == Relation(x, y)
<1>1. x \in Value /\ y \in Value /\ part.operator \in Operators
  BY DEF Part
<1>2. R \in {"less", "equal", "more", "same", "unrelated"}
  BY <1>1 DEF Relation, Value
<1>3. Holds(part) <=> part.operator \in Holding[R]
  BY DEF Holds
<1>4. /\ Equal(x, y) <=> R \in {"equal", "same"}
      /\ Ordered(x, y) <=> R \in {"less", "equal", "more"}
      /\ Ordered(x, y) => /\ x.num > y.num <=> R = "more"
                          /\ x.num < y.num <=> R = "less"
                          /\ x.num \in Int /\ y.num \in Int
  BY <1>1 DEF Relation, Value, Equal, Ordered
<1>5. CASE part.operator = "=="
  <2>1. Outcome(part) = (Equal(x, y))
    BY <1>5 DEF Outcome
  <2>2. Holds(part) <=> "==" \in Holding[R]
    BY <1>3, <1>5
  <2>3. (Equal(x, y)) <=> "==" \in Holding[R]
    BY <1>2, <1>4 DEF Holding
  <2> QED
    BY <2>1, <2>2, <2>3, Zenon DEF Equal, Ordered
<1>6. CASE part.operator = "!="
  <2>1. Outcome(part) = (~ Equal(x, y))
    BY <1>6 DEF Outcome
  <2>2. Holds(part) <=> "!=" \in Holding[R]
    BY <1>3, <1>6
  <2>3. (~ Equal(x, y)) <=> "!=" \in Holding[R]
    BY <1>2, <1>4 DEF Holding
  <2> QED
    BY <2>1, <2>2, <2>3, Zenon DEF Equal, Ordered
<1>7. CASE part.operator = ">"
  <2>1. Outcome(part) = (Ordered(x, y) /\ x.num > y.num)
    BY <1>7 DEF Outcome
  <2>2. Holds(part) <=> ">" \in Holding[R]
    BY <1>3, <1>7
  <2>3. (Ordered(x, y) /\ x.num > y.num) <=> ">" \in Holding[R]
    BY <1>2, <1>4 DEF Holding
  <2> QED
    BY <2>1, <2>2, <2>3, Zenon DEF Equal, Ordered
<1>8. CASE part.operator = ">="
  <2>1. Outcome(part) = (Ordered(x, y) /\ x.num >= y.num)
    BY <1>8 DEF Outcome
  <2>2. Holds(part) <=> ">=" \in Holding[R]
    BY <1>3, <1>8
  <2>3. (Ordered(x, y) /\ x.num >= y.num) <=> ">=" \in Holding[R]
    BY <1>2, <1>4 DEF Holding
  <2> QED
    BY <2>1, <2>2, <2>3, Zenon DEF Equal, Ordered
<1>9. CASE part.operator = "<"
  <2>1. Outcome(part) = (Ordered(x, y) /\ x.num < y.num)
    BY <1>9 DEF Outcome
  <2>2. Holds(part) <=> "<" \in Holding[R]
    BY <1>3, <1>9
  <2>3. (Ordered(x, y) /\ x.num < y.num) <=> "<" \in Holding[R]
    BY <1>2, <1>4 DEF Holding
  <2> QED
    BY <2>1, <2>2, <2>3, Zenon DEF Equal, Ordered
<1>10. CASE part.operator = "<="
  <2>1. Outcome(part) = (Ordered(x, y) /\ x.num <= y.num)
    BY <1>10 DEF Outcome
  <2>2. Holds(part) <=> "<=" \in Holding[R]
    BY <1>3, <1>10
  <2>3. (Ordered(x, y) /\ x.num <= y.num) <=> "<=" \in Holding[R]
    BY <1>2, <1>4 DEF Holding
  <2> QED
    BY <2>1, <2>2, <2>3, Zenon DEF Equal, Ordered
<1> QED
  BY <1>1, <1>5, <1>6, <1>7, <1>8, <1>9, <1>10 DEF Operators


\* The result after each part, and what comes of a part then.
LEMMA LeadsStages ==
  ASSUME NEW parts \in Seq(Part), parts # <<>>, NEW n \in Nat, Len(parts) = n + 1
  PROVE  \E at \in [0 .. n -> BOOLEAN] :
            /\ at[0] = Outcome(parts[1]) /\ (Leads(parts) <=> at[n])
            /\ \A i \in 1 .. n : at[i] = Combine(at[i - 1], parts[i + 1])
<1> DEFINE s == Tail(parts)
           base == Outcome(Head(parts))
           Then(i, result) == Combine(result, s[i])
           step == [i \in 1 .. n |-> [result \in BOOLEAN |-> Then(i, result)]]
           Eqn(iter) == iter = [t \in SUBSET (1 .. n) |-> IF t = {} THEN base
                                   ELSE Then(Max(t), iter[t \ {Max(t)}])]
           chosen == CHOOSE iter : Eqn(iter)
<1>1. /\ s \in [1 .. n -> Part] /\ Head(parts) = parts[1] /\ parts[1] \in Part
      /\ \A i \in 1 .. n : s[i] = parts[i + 1]
  <2>1. s \in Seq(Part) /\ Len(s) = n /\ \A i \in 1 .. n : s[i] = parts[i + 1]
    OBVIOUS
  <2>2. Head(parts) = parts[1] /\ parts[1] \in Part
    OBVIOUS
  <2> HIDE DEF s
  <2>3. s \in [1 .. n -> Part]
    BY <2>1
  <2> QED
    BY <2>1, <2>2, <2>3
<1>2. Result(parts) = chosen[1 .. n]
  <2>1. DOMAIN s = 1 .. n
    BY <1>1
  <2> QED
    BY <2>1 DEF Result, FoldLeft, MapThenFoldSet
<1>3. base \in BOOLEAN /\ step \in [1 .. n -> [BOOLEAN -> BOOLEAN]]
      /\ \A i \in 1 .. n : \A result \in BOOLEAN : step[i][result] = Then(i, result)
  <2>1. base \in BOOLEAN
    BY <1>1, OutcomeHolds
  <2>2. ASSUME NEW i \in 1 .. n, NEW result \in BOOLEAN PROVE Then(i, result) \in BOOLEAN
    <3>1. s[i] \in Part /\ Outcome(s[i]) \in BOOLEAN
      BY <1>1, OutcomeHolds
    <3>2. CASE s[i].next = "&&"
      BY <3>2 DEF Combine
    <3>3. CASE s[i].next = "||"
      BY <3>3 DEF Combine
    <3>4. CASE s[i].next = "None"
      BY <3>4 DEF Combine
    <3> QED
      BY <3>1, <3>2, <3>3, <3>4 DEF Part
  <2> HIDE DEF Then
  <2> QED
    BY <2>1, <2>2
<1> HIDE DEF s, base, Then, step
<1>4. HasStages(n, BOOLEAN, base, step)
  BY <1>3, StepByStep, Zenon
<1>5. PICK at \in [0 .. n -> BOOLEAN], iter \in [SUBSET (1 .. n) -> BOOLEAN] :
        /\ at[0] = base /\ \A i \in 1 .. n : at[i] = step[i][at[i - 1]]
        /\ IsFold(iter, 1 .. n, base, Largest(n), step)
        /\ \A f : Follows(f, 1 .. n, BOOLEAN, base, Largest(n), step) => f[1 .. n] = at[n]
  BY <1>4, Zenon DEF HasStages
<1>6. \A t \in (SUBSET (1 .. n)) \ {{}} :
         Largest(n)[t] = Max(t) /\ Max(t) \in 1 .. n /\ t \ {Max(t)} \in SUBSET (1 .. n)
  BY MaxOf DEF Largest
<1>7. Eqn(iter)
  <2>1. iter[{}] = base
    BY <1>5 DEF IsFold
  <2>2. ASSUME NEW t \in (SUBSET (1 .. n)) \ {{}}
        PROVE  iter[t] = Then(Max(t), iter[t \ {Max(t)}])
    <3>1. iter[t] = step[Max(t)][iter[t \ {Max(t)}]]
      BY <1>5, <1>6 DEF IsFold
    <3>2. iter[t \ {Max(t)}] \in BOOLEAN
      BY <1>6
    <3> QED
      BY <3>1, <3>2, <1>3, <1>6
  <2> QED
    BY <2>1, <2>2
<1>8. Eqn(chosen)
  <2> HIDE DEF Eqn
  <2> QED
    BY <1>7
<1> HIDE DEF chosen
<1>9. Follows(chosen, 1 .. n, BOOLEAN, base, Largest(n), step)
  <2>1. chosen[{}] = base
    BY <1>8
  <2>2. ASSUME NEW t \in (SUBSET (1 .. n)) \ {{}}, chosen[t \ {Largest(n)[t]}] \in BOOLEAN
        PROVE  chosen[t] = step[Largest(n)[t]][chosen[t \ {Largest(n)[t]}]]
    <3> DEFINE m == Max(t)
               before == chosen[t \ {m}]
    <3>1. m \in 1 .. n /\ Largest(n)[t] = m /\ before \in BOOLEAN
      BY <1>6, <2>2
    <3>2. chosen[t] = Then(m, before)
      BY <1>8
    <3> HIDE DEF m, before
    <3>3. step[m][before] = Then(m, before)
      BY <1>3, <3>1, Zenon
    <3> QED
      BY <3>1, <3>2, <3>3, Zenon DEF before
  <2> QED
    BY <2>1, <2>2 DEF Follows
<1>10. chosen[1 .. n] = at[n]
  BY <1>5, <1>9, Zenon
<1>11. ASSUME NEW i \in 1 .. n PROVE at[i] = Combine(at[i - 1], parts[i + 1])
  <2>1. at[i - 1] \in BOOLEAN
    OBVIOUS
  <2>2. at[i] = Then(i, at[i - 1])
    BY <2>1, <1>3, <1>5
  <2>3. s[i] = parts[i + 1]
    BY <1>1
  <2> QED
    BY <2>2, <2>3, Zenon DEF Then
<1>12. at[0] = Outcome(parts[1]) /\ (Leads(parts) <=> at[n])
  BY <1>1, <1>2, <1>5, <1>10, Zenon DEF Leads, base
<1> QED
  BY <1>11, <1>12

\* What the parts up to the i-th come to, by the reference.
HoldsUpTo(parts, i) == \E k \in 1 .. i :
    /\ Holds(parts[k]) /\ (k = 1 \/ parts[k].next = "||")
    /\ \A j \in k + 1 .. i : parts[j].next = "&&" => Holds(parts[j])

\* Any condition leads on as its parts do from left to right.
THEOREM LeadsFromLeft ==
  ASSUME NEW parts \in Seq(Part)
  PROVE  Leads(parts) <=> LeftToRight(parts)
<1>1. CASE parts = <<>>
  BY <1>1 DEF Leads, LeftToRight
<1>2. CASE parts # <<>>
  <2> DEFINE n == Len(parts) - 1
  <2>1. n \in Nat /\ Len(parts) = n + 1
    BY <1>2
  <2> HIDE DEF n
  <2>2. PICK at \in [0 .. n -> BOOLEAN] :
            /\ at[0] = Outcome(parts[1]) /\ (Leads(parts) <=> at[n])
            /\ \A i \in 1 .. n : at[i] = Combine(at[i - 1], parts[i + 1])
    BY <1>2, <2>1, LeadsStages
  <2> DEFINE T == {i \in Nat : i <= n => (at[i] <=> HoldsUpTo(parts, i + 1))}
  <2>3. 0 \in T
    <3>1. at[0] <=> Holds(parts[1])
      <4>1. parts[1] \in Part
        BY <1>2
      <4> QED
        BY <4>1, <2>2, OutcomeHolds, Zenon
    <3>2. HoldsUpTo(parts, 1) <=> Holds(parts[1])
      BY DEF HoldsUpTo
    <3> QED
      BY <3>1, <3>2
  <2>4. ASSUME NEW i \in Nat, i \in T PROVE i + 1 \in T
    <3> SUFFICES ASSUME i + 1 <= n PROVE at[i + 1] <=> HoldsUpTo(parts, i + 2)
      OBVIOUS
    <3> DEFINE p == parts[i + 2]
    <3>1. p \in Part /\ i + 1 \in 1 .. n /\ i <= n
      BY <2>1
    <3>2. at[i] <=> HoldsUpTo(parts, i + 1)
      BY <2>4, <3>1
    <3>3. at[i + 1] = Combine(at[i], p)
      <4>1. (i + 1) - 1 = i /\ (i + 1) + 1 = i + 2
        OBVIOUS
      <4> QED
        BY <4>1, <2>2, <3>1, Zenon
    <3>4. Outcome(p) <=> Holds(p)
      BY <3>1, OutcomeHolds
    <3>5. p.next = "&&" => (HoldsUpTo(parts, i + 2) <=> HoldsUpTo(parts, i + 1) /\ Holds(p))
      BY DEF HoldsUpTo
    <3>6. p.next = "||" => (HoldsUpTo(parts, i + 2) <=> HoldsUpTo(parts, i + 1) \/ Holds(p))
      BY DEF HoldsUpTo
    <3>7. p.next = "None" => (HoldsUpTo(parts, i + 2) <=> HoldsUpTo(parts, i + 1))
      BY DEF HoldsUpTo
    <3> HIDE DEF p
    <3>8. CASE p.next = "&&"
      <4>1. Combine(at[i], p) = (at[i] /\ Outcome(p))
        BY <3>8 DEF Combine
      <4> QED
        BY <4>1, <3>2, <3>3, <3>4, <3>5, <3>8, Zenon
    <3>9. CASE p.next = "||"
      <4>1. Combine(at[i], p) = (at[i] \/ Outcome(p))
        BY <3>9 DEF Combine
      <4> QED
        BY <4>1, <3>2, <3>3, <3>4, <3>6, <3>9, Zenon
    <3>10. CASE p.next = "None"
      <4>1. Combine(at[i], p) = at[i]
        BY <3>10 DEF Combine
      <4> QED
        BY <4>1, <3>2, <3>3, <3>7, <3>10, Zenon
    <3> QED
      BY <3>1, <3>8, <3>9, <3>10 DEF Part
  <2>5. n \in T
    <3> HIDE DEF T
    <3> QED
      BY <2>1, <2>3, <2>4, SetInduction
  <2>6. HoldsUpTo(parts, n + 1) <=> LeftToRight(parts)
    BY <2>1 DEF HoldsUpTo, LeftToRight
  <2> QED
    BY <2>1, <2>2, <2>5, <2>6
<1> QED
  BY <1>1, <1>2

-----------------------------------------------------------------------------
(* Which triggers an update starts.                                         *)

\* Two sequences without repetitions and without common elements, one after the other.
LEMMA JoinOnce ==
  ASSUME NEW Y, NEW s \in Seq(Y), NEW t \in Seq(Y), IsInjective(s), IsInjective(t),
         ToSet(s) \cap ToSet(t) = {}
  PROVE  /\ s \o t \in Seq(Y) /\ IsInjective(s \o t)
         /\ ToSet(s \o t) = ToSet(s) \cup ToSet(t)
<1> DEFINE m == Len(s)
           n == Len(t)
           both == s \o t
<1>1. /\ m \in Nat /\ n \in Nat /\ both \in Seq(Y) /\ Len(both) = m + n
      /\ \A i \in 1 .. m : both[i] = s[i]
      /\ \A i \in m + 1 .. m + n : both[i] = t[i - m]
      /\ DOMAIN s = 1 .. m /\ DOMAIN t = 1 .. n /\ DOMAIN both = 1 .. m + n
  OBVIOUS
<1> HIDE DEF m, n, both
<1>2. \A i \in 1 .. m + n : i \in 1 .. m \/ (i \in m + 1 .. m + n /\ i - m \in 1 .. n)
  BY <1>1
<1>3. \A i \in 1 .. m : s[i] \in ToSet(s)
  BY <1>1 DEF ToSet
<1>4. \A i \in 1 .. n : t[i] \in ToSet(t)
  BY <1>1 DEF ToSet
<1>5. ASSUME NEW i \in 1 .. m + n, NEW j \in 1 .. m + n, both[i] = both[j] PROVE i = j
  <2>1. CASE i \in 1 .. m /\ j \in 1 .. m
    BY <1>1, <1>5, <2>1 DEF IsInjective
  <2>2. CASE i \in m + 1 .. m + n /\ j \in m + 1 .. m + n
    <3>1. t[i - m] = t[j - m] /\ i - m \in 1 .. n /\ j - m \in 1 .. n
      BY <1>1, <1>2, <1>5, <2>2
    <3>2. i - m = j - m
      BY <1>1, <3>1 DEF IsInjective
    <3> QED
      BY <1>1, <3>2
  <2>3. CASE i \in 1 .. m /\ j \in m + 1 .. m + n
    <3>1. s[i] = t[j - m] /\ j - m \in 1 .. n
      BY <1>1, <1>2, <1>5, <2>3
    <3> QED
      BY <1>3, <1>4, <2>3, <3>1
  <2>4. CASE j \in 1 .. m /\ i \in m + 1 .. m + n
    <3>1. s[j] = t[i - m] /\ i - m \in 1 .. n
      BY <1>1, <1>2, <1>5, <2>4
    <3> QED
      BY <1>3, <1>4, <2>4, <3>1
  <2> QED
    BY <1>2, <2>1, <2>2, <2>3, <2>4
<1>6. IsInjective(both)
  BY <1>1, <1>5 DEF IsInjective
<1>7. ASSUME NEW x PROVE x \in ToSet(both) <=> x \in ToSet(s) \cup ToSet(t)
  <2>1. ASSUME x \in ToSet(both) PROVE x \in ToSet(s) \cup ToSet(t)
    <3>1. PICK i \in 1 .. m + n : x = both[i]
      BY <1>1, <2>1 DEF ToSet
    <3> QED
      BY <1>1, <1>2, <1>3, <1>4, <3>1
  <2>2. ASSUME x \in ToSet(s) PROVE x \in ToSet(both)
    <3>1. PICK i \in 1 .. m : x = s[i]
      BY <1>1, <2>2 DEF ToSet
    <3>2. i \in 1 .. m + n /\ both[i] = x
      BY <1>1, <3>1
    <3> QED
      BY <1>1, <3>2 DEF ToSet
  <2>3. ASSUME x \in ToSet(t) PROVE x \in ToSet(both)
    <3>1. PICK i \in 1 .. n : x = t[i]
      BY <1>1, <2>3 DEF ToSet
    <3>2. i + m \in 1 .. m + n /\ i + m \in m + 1 .. m + n /\ (i + m) - m = i
      BY <1>1
    <3>3. both[i + m] = x
      BY <1>1, <3>1, <3>2
    <3> QED
      BY <1>1, <3>2, <3>3 DEF ToSet
  <2> QED
    BY <2>1, <2>2, <2>3
<1> QED
  BY <1>1, <1>6, <1>7 DEF both

\* What triggers and buttons are like.
AreObjects(objects) ==
    /\ \E n \in Nat : DOMAIN objects = 1 .. n
    /\ \A k \in DOMAIN objects :
          /\ objects[k].is \in {"command", "message", "button"} /\ objects[k].target \in BOOLEAN
          /\ objects[k].is = "command" <=> objects[k].command # "none"

\* The service finds each object with the attributes once.
Found(objects, filters) ==
    {k \in DOMAIN objects : \A name \in DOMAIN filters : Attributes(objects, k)[name] = filters[name]}

LEMMA ServiceFinds ==
  ASSUME NEW objects, AreObjects(objects), NEW filters
  PROVE  /\ GetTriggers(objects, filters) \in Seq(DOMAIN objects)
         /\ IsInjective(GetTriggers(objects, filters))
         /\ ToSet(GetTriggers(objects, filters)) =
                {k \in Found(objects, filters) : objects[k].is # "button"}
         /\ GetButtons(objects, filters) \in Seq(DOMAIN objects)
         /\ IsInjective(GetButtons(objects, filters))
         /\ ToSet(GetButtons(objects, filters)) =
                {k \in Found(objects, filters) : objects[k].is = "button"}
<1> DEFINE Y == DOMAIN objects
           all == [k \in DOMAIN objects |-> k]
           F == Found(objects, filters)
           plain == {k \in DOMAIN objects : objects[k].is # "button"}
           buttons == {k \in DOMAIN objects : objects[k].is = "button"}
<1>1. PICK n \in Nat : Y = 1 .. n
  BY DEF AreObjects
<1>2. all \in Seq(Y) /\ IsInjective(all) /\ ToSet(all) = Y
  BY <1>1 DEF IsInjective, ToSet
<1>3. Having(objects, filters) = Kept(all, F)
  BY DEF Having, Found
<1>4. F \subseteq Y
  BY DEF Found
<1>5. GetTriggers(objects, filters) = Kept(Kept(all, F), plain)
  BY <1>3 DEF GetTriggers
<1>6. GetButtons(objects, filters) = Kept(Kept(all, F), buttons)
  BY <1>3 DEF GetButtons
<1> HIDE DEF Y, all, F, plain, buttons
<1>7. Kept(all, F) \in Seq(Y) /\ IsInjective(Kept(all, F)) /\ ToSet(Kept(all, F)) = F
  <2>1. Kept(all, F) \in Seq(Y) /\ IsInjective(Kept(all, F)) /\ ToSet(Kept(all, F)) = Y \cap F
    BY <1>2, KeptOnce
  <2>2. Y \cap F = F
    BY <1>4
  <2> QED
    BY <2>1, <2>2
<1>8. /\ Kept(Kept(all, F), plain) \in Seq(Y) /\ IsInjective(Kept(Kept(all, F), plain))
      /\ ToSet(Kept(Kept(all, F), plain)) = F \cap plain
  BY <1>7, KeptOnce
<1>9. /\ Kept(Kept(all, F), buttons) \in Seq(Y) /\ IsInjective(Kept(Kept(all, F), buttons))
      /\ ToSet(Kept(Kept(all, F), buttons)) = F \cap buttons
  BY <1>7, KeptOnce
<1>10. /\ F \cap plain = {k \in F : objects[k].is # "button"}
       /\ F \cap buttons = {k \in F : objects[k].is = "button"}
  BY <1>4 DEF Y, plain, buttons
<1> QED
  BY <1>5, <1>6, <1>8, <1>9, <1>10 DEF Y, F

\* What commands are for is no message and no button.
LEMMA CommandsFound ==
  ASSUME NEW objects, AreObjects(objects), NEW text
  PROVE  /\ CommandTriggers(objects, text) \in Seq(DOMAIN objects)
         /\ IsInjective(CommandTriggers(objects, text))
         /\ \A k \in ToSet(CommandTriggers(objects, text)) : k \in DOMAIN objects /\ objects[k].is = "command"
<1> DEFINE Fits(f) == "command" \in DOMAIN f /\ f["command"] # "none"
<1>1. ASSUME NEW f, Fits(f), NEW k \in ToSet(GetTriggers(objects, f))
      PROVE  k \in DOMAIN objects /\ objects[k].is = "command"
  <2>1. k \in Found(objects, f)
    BY <1>1, ServiceFinds
  <2>2. Attributes(objects, k)["command"] = f["command"] /\ k \in DOMAIN objects
    BY <1>1, <2>1 DEF Found
  <2>3. Attributes(objects, k)["command"] = objects[k].command
    BY DEF Attributes
  <2> QED
    BY <1>1, <2>2, <2>3 DEF AreObjects
<1>2. CASE ~IsCommand(text) \/ text.length > 32
  <2>1. CommandTriggers(objects, text) = <<>>
    BY <1>2 DEF CommandTriggers
  <2>2. \A Y : <<>> \in Seq(Y) /\ IsInjective(<<>>) /\ ToSet(<<>>) = {}
    BY DEF IsInjective, ToSet
  <2> QED
    BY <2>1, <2>2
<1>3. CASE ~(~IsCommand(text) \/ text.length > 32)
  <2> DEFINE f1 == [command |-> text.command, has_command_payload |-> FALSE]
             f2 == [command |-> text.command, has_command_payload |-> TRUE,
                    command_payload |-> text.payload]
  <2>1. Fits(f1) /\ Fits(f2)
    BY <1>3 DEF IsCommand
  <2>2. CommandTriggers(objects, text) \in {GetTriggers(objects, f1), GetTriggers(objects, f2)}
    BY <1>3 DEF CommandTriggers
  <2> HIDE DEF f1, f2, Fits
  <2>3. CASE CommandTriggers(objects, text) = GetTriggers(objects, f1)
    BY <1>1, <2>1, <2>3, ServiceFinds
  <2>4. CASE CommandTriggers(objects, text) = GetTriggers(objects, f2)
    BY <1>1, <2>1, <2>4, ServiceFinds
  <2> QED
    BY <2>2, <2>3, <2>4
<1> QED
  BY <1>2, <1>3

\* Message triggers are for this text or for any, and nothing leads to them.
LEMMA MessagesFound ==
  ASSUME NEW objects, AreObjects(objects), NEW text
  PROVE  /\ MessageTriggers(objects, text) \in Seq(DOMAIN objects)
         /\ IsInjective(MessageTriggers(objects, text))
         /\ \A k \in ToSet(MessageTriggers(objects, text)) :
               k \in DOMAIN objects /\ objects[k].is = "message" /\ ~objects[k].target
<1> DEFINE f1 == [has_message |-> TRUE, has_message_text |-> TRUE, has_target_connections |-> FALSE]
           f2 == [has_message |-> TRUE, has_message_text |-> FALSE, has_target_connections |-> FALSE]
           these == Kept(GetTriggers(objects, f1), For(objects, text))
           any == GetTriggers(objects, f2)
           Y == DOMAIN objects
<1>1. MessageTriggers(objects, text) = these \o any
  BY DEF MessageTriggers
<1>2. ASSUME NEW k \in Found(objects, f1)
      PROVE  k \in Y /\ objects[k].is = "message" /\ ~objects[k].target /\ objects[k].text # <<>>
  <2>1. /\ Attributes(objects, k)["has_message"] = TRUE
        /\ Attributes(objects, k)["has_message_text"] = TRUE
        /\ Attributes(objects, k)["has_target_connections"] = FALSE /\ k \in Y
    BY <1>2 DEF Found
  <2> QED
    BY <2>1 DEF Attributes
<1>3. ASSUME NEW k \in Found(objects, f2)
      PROVE  k \in Y /\ objects[k].is = "message" /\ ~objects[k].target /\ objects[k].text = <<>>
  <2>1. /\ Attributes(objects, k)["has_message"] = TRUE
        /\ Attributes(objects, k)["has_message_text"] = FALSE
        /\ Attributes(objects, k)["has_target_connections"] = FALSE /\ k \in Y
    BY <1>3 DEF Found
  <2> QED
    BY <2>1 DEF Attributes
<1> HIDE DEF f1, f2
<1>4. /\ GetTriggers(objects, f1) \in Seq(Y) /\ IsInjective(GetTriggers(objects, f1))
      /\ ToSet(GetTriggers(objects, f1)) \subseteq Found(objects, f1)
      /\ any \in Seq(Y) /\ IsInjective(any) /\ ToSet(any) \subseteq Found(objects, f2)
  BY ServiceFinds
<1>5. /\ these \in Seq(Y) /\ IsInjective(these) /\ ToSet(these) \subseteq Found(objects, f1)
  <2> HIDE DEF Y
  <2> QED
    BY <1>4, KeptOnce
<1>6. ToSet(these) \cap ToSet(any) = {}
  BY <1>2, <1>3, <1>4, <1>5
<1> HIDE DEF these, any, Y
<1>7. /\ these \o any \in Seq(Y) /\ IsInjective(these \o any)
      /\ ToSet(these \o any) = ToSet(these) \cup ToSet(any)
  BY <1>4, <1>5, <1>6, JoinOnce
<1> QED
  BY <1>1, <1>2, <1>3, <1>4, <1>5, <1>7 DEF Y

\* A press finds its button, and only buttons are found beside triggers.
LEMMA ButtonsFound ==
  ASSUME NEW objects, AreObjects(objects), NEW update, update.is \in {"message", "callback"}
  PROVE  /\ Buttons(objects, update) \in Seq(DOMAIN objects)
         /\ IsInjective(Buttons(objects, update))
         /\ \A k \in ToSet(Buttons(objects, update)) :
               /\ k \in DOMAIN objects /\ objects[k].is = "button"
               /\ update.is = "callback" => k = update.button
<1>0. \A Y : <<>> \in Seq(Y) /\ IsInjective(<<>>) /\ ToSet(<<>>) = {}
  BY DEF IsInjective, ToSet
<1>1. CASE update.is = "callback"
  <2> DEFINE f == [id |-> update.button]
  <2>1. Buttons(objects, update) = GetButtons(objects, f)
    BY <1>1 DEF Buttons
  <2>2. \A k \in Found(objects, f) : k = update.button /\ k \in DOMAIN objects
    <3> TAKE k \in Found(objects, f)
    <3>1. Attributes(objects, k)["id"] = update.button /\ k \in DOMAIN objects
      BY DEF Found
    <3> QED
      BY <3>1 DEF Attributes
  <2> HIDE DEF f
  <2> QED
    BY <2>1, <2>2, ServiceFinds
<1>2. CASE update.is = "message"
  <2> DEFINE f == [text |-> <<update.text>>]
  <2>1. CASE update.text.length <= 512
    <3>1. Buttons(objects, update) = GetButtons(objects, f)
      BY <1>2, <2>1 DEF Buttons
    <3>2. Found(objects, f) \subseteq DOMAIN objects
      BY DEF Found
    <3> HIDE DEF f
    <3> QED
      BY <1>2, <3>1, <3>2, ServiceFinds
  <2>2. CASE ~(update.text.length <= 512)
    <3>1. Buttons(objects, update) = <<>>
      BY <1>2, <2>2 DEF Buttons
    <3> QED
      BY <1>0, <3>1
  <2> QED
    BY <2>1, <2>2
<1> QED
  BY <1>1, <1>2

\* How often something stands in a sequence that has it, and has nothing twice.
LEMMA StandsOnce ==
  ASSUME NEW Y, NEW s \in Seq(Y), IsInjective(s), NEW x \in ToSet(s)
  PROVE  Cardinality({n \in DOMAIN s : s[n] = x}) = 1
<1>1. PICK n \in DOMAIN s : s[n] = x
  BY DEF ToSet
<1>2. {m \in DOMAIN s : s[m] = x} = {n}
  BY <1>1 DEF IsInjective
<1> QED
  BY <1>2, FS_Singleton

\* What StartedOnce says of one of those an update starts.
RightlyStarted(objects, expected, update, k) ==
    LET started == Started(objects, expected, update) IN
    /\ \/ Cardinality({n \in DOMAIN started : started[n] = k}) = 1
       \/ k = expected /\ (objects[k].is = "command" \/ ~objects[k].target)
    /\ objects[k].is = "message" /\ objects[k].target => k = expected
    /\ update.is = "message" \/ update.button = k
    /\ objects[k].is = "button" \/ HasText(update)

\* Whatever triggers and buttons a bot has, and whatever the update is.
THEOREM AnyStartedOnce ==
  ASSUME NEW objects, AreObjects(objects), NEW update, update.is \in {"message", "callback"},
         NEW expected, expected = 0 \/ (expected \in DOMAIN objects /\ objects[expected].is # "button"),
         NEW k \in ToSet(Started(objects, expected, update))
  PROVE  RightlyStarted(objects, expected, update, k)
<1> DEFINE Y == DOMAIN objects
           one == ExpectedTrigger(objects, expected, update)
           triggers == Triggers(objects, update)
           buttons == Buttons(objects, update)
           rest == triggers \o buttons
           started == Started(objects, expected, update)
<1>0. \A Z : <<>> \in Seq(Z) /\ IsInjective(<<>>) /\ ToSet(<<>>) = {}
  BY DEF IsInjective, ToSet
<1>8. \A Z : \A z \in Z : <<z>> \in Seq(Z) /\ IsInjective(<<z>>) /\ ToSet(<<z>>) = {z}
  BY DEF IsInjective, ToSet
<1>1. /\ triggers \in Seq(Y) /\ IsInjective(triggers)
      /\ \A t \in ToSet(triggers) :
            /\ HasText(update) /\ t \in Y /\ objects[t].is \in {"command", "message"}
            /\ objects[t].is = "message" => ~objects[t].target
  <2>1. CASE HasText(update)
    <3> DEFINE c == CommandTriggers(objects, update.text)
               m == MessageTriggers(objects, update.text)
    <3>1. triggers = c \o m
      BY <2>1 DEF Triggers
    <3>2. /\ c \in Seq(Y) /\ IsInjective(c)
          /\ \A t \in ToSet(c) : t \in Y /\ objects[t].is = "command"
      BY CommandsFound
    <3>3. /\ m \in Seq(Y) /\ IsInjective(m)
          /\ \A t \in ToSet(m) : t \in Y /\ objects[t].is = "message" /\ ~objects[t].target
      BY MessagesFound
    <3> HIDE DEF c, m, Y, triggers
    <3>4. ToSet(c) \cap ToSet(m) = {}
      BY <3>2, <3>3
    <3>5. c \o m \in Seq(Y) /\ IsInjective(c \o m) /\ ToSet(c \o m) = ToSet(c) \cup ToSet(m)
      BY <3>2, <3>3, <3>4, JoinOnce
    <3> QED
      BY <2>1, <3>1, <3>2, <3>3, <3>5
  <2>2. CASE ~HasText(update)
    <3>1. triggers = <<>>
      BY <2>2 DEF Triggers
    <3> QED
      BY <1>0, <3>1
  <2> QED
    BY <2>1, <2>2
<1>2. /\ buttons \in Seq(Y) /\ IsInjective(buttons)
      /\ \A t \in ToSet(buttons) : /\ t \in Y /\ objects[t].is = "button"
                                   /\ update.is = "callback" => t = update.button
  BY ButtonsFound
<1>3. one = <<>> \/ (one = <<expected>> /\ HasText(update) /\ expected \in Y)
  BY DEF ExpectedTrigger
<1>4. started = one \o rest
  <2>1. started = (one \o triggers) \o buttons
    BY DEF Started
  <2> HIDE DEF one, triggers, buttons, started, Y
  <2>2. one \in Seq(Y)
    <3>1. CASE one = <<>>
      BY <3>1
    <3>2. CASE one = <<expected>> /\ expected \in Y
      BY <3>2
    <3> QED
      BY <1>3, <3>1, <3>2
  <2> QED
    BY <1>1, <1>2, <2>1, <2>2
<1> HIDE DEF Y, one, triggers, buttons, started
<1>5. rest \in Seq(Y) /\ IsInjective(rest) /\ ToSet(rest) = ToSet(triggers) \cup ToSet(buttons)
  <2>1. ToSet(triggers) \cap ToSet(buttons) = {}
    BY <1>1, <1>2
  <2> QED
    BY <1>1, <1>2, <2>1, JoinOnce
<1> HIDE DEF rest
<1>6. k \in ToSet(started)
  BY DEF started
<1>7. CASE one = <<>>
  <2>1. started = rest
    BY <1>4, <1>5, <1>7
  <2>2. Cardinality({n \in DOMAIN started : started[n] = k}) = 1
    BY <1>5, <1>6, <2>1, StandsOnce
  <2>3. k \in ToSet(triggers) \cup ToSet(buttons)
    BY <1>5, <1>6, <2>1
  <2> QED
    BY <1>1, <1>2, <2>2, <2>3 DEF started, HasText, RightlyStarted
<1>9. CASE one = <<expected>> /\ HasText(update) /\ expected \in Y
  <2>1. one \in Seq(Y) /\ IsInjective(one) /\ ToSet(one) = {expected}
    BY <1>8, <1>9
  <2>2. CASE expected \notin ToSet(rest)
    <3>1. /\ started \in Seq(Y) /\ IsInjective(started)
          /\ ToSet(started) = {expected} \cup ToSet(rest)
      BY <1>4, <1>5, <2>1, <2>2, JoinOnce
    <3>2. Cardinality({n \in DOMAIN started : started[n] = k}) = 1
      BY <1>6, <3>1, StandsOnce
    <3>3. k = expected \/ k \in ToSet(triggers) \cup ToSet(buttons)
      BY <1>5, <1>6, <3>1
    <3> QED
      BY <1>1, <1>2, <1>9, <3>2, <3>3 DEF started, HasText, RightlyStarted
  <2>3. CASE expected \in ToSet(rest)
    <3>1. expected \in ToSet(triggers)
      <4>1. expected \notin ToSet(buttons)
        <5>1. 0 \notin Y
          BY DEF Y, AreObjects
        <5> QED
          BY <1>2, <1>9, <5>1
      <4> QED
        BY <1>5, <2>3, <4>1
    <3>2. objects[expected].is = "command" \/ ~objects[expected].target
      BY <1>1, <3>1
    <3>3. /\ Len(started) = Len(rest) + 1 /\ started[1] = expected /\ DOMAIN started = 1 .. Len(rest) + 1
          /\ Len(rest) \in Nat /\ DOMAIN rest = 1 .. Len(rest)
          /\ \A n \in 2 .. Len(rest) + 1 : started[n] = rest[n - 1]
      BY <1>4, <1>5, <1>9, <2>1
    <3>4. ToSet(started) = ToSet(rest)
      <4>1. \A n \in 1 .. Len(rest) : n + 1 \in 2 .. Len(rest) + 1 /\ (n + 1) - 1 = n
        BY <3>3
      <4>2. \A n \in 1 .. Len(rest) : started[n + 1] = rest[n] /\ n + 1 \in DOMAIN started
        BY <3>3, <4>1
      <4>3. \A n \in DOMAIN started : n = 1 \/ (n - 1 \in DOMAIN rest /\ started[n] = rest[n - 1])
        BY <3>3
      <4>4. \A x \in ToSet(rest) : x \in ToSet(started)
        BY <3>3, <4>2 DEF ToSet
      <4>5. \A x \in ToSet(started) : x \in ToSet(rest)
        <5> TAKE x \in ToSet(started)
        <5>1. PICK n \in DOMAIN started : x = started[n]
          BY DEF ToSet
        <5>2. n = 1 => x = expected
          BY <3>3, <5>1
        <5>3. n # 1 => x \in ToSet(rest)
          BY <4>3, <5>1 DEF ToSet
        <5> QED
          BY <2>3, <5>2, <5>3
      <4> QED
        BY <4>4, <4>5
    <3>5. k \in ToSet(triggers) \cup ToSet(buttons)
      BY <1>5, <1>6, <3>4
    <3>6. k # expected => Cardinality({n \in DOMAIN started : started[n] = k}) = 1
      <4> SUFFICES ASSUME k # expected PROVE Cardinality({n \in DOMAIN started : started[n] = k}) = 1
        OBVIOUS
      <4>1. PICK m \in 1 .. Len(rest) : rest[m] = k
        BY <1>6, <3>3, <3>4 DEF ToSet
      <4>2. m + 1 \in DOMAIN started /\ started[m + 1] = k
        <5>1. m + 1 \in 2 .. Len(rest) + 1 /\ (m + 1) - 1 = m
          BY <3>3
        <5> QED
          BY <3>3, <4>1, <5>1
      <4>3. \A n \in DOMAIN started : started[n] = k => n = m + 1
        <5> TAKE n \in DOMAIN started
        <5> HAVE started[n] = k
        <5>1. n \in 2 .. Len(rest) + 1 /\ n - 1 \in 1 .. Len(rest)
          BY <3>3
        <5>2. rest[n - 1] = k
          BY <3>3, <5>1
        <5>3. n - 1 = m
          BY <1>5, <3>3, <4>1, <5>1, <5>2 DEF IsInjective
        <5> QED
          BY <5>1, <5>3
      <4>4. {n \in DOMAIN started : started[n] = k} = {m + 1}
        BY <4>2, <4>3
      <4> QED
        BY <4>4, FS_Singleton
    <3> QED
      BY <1>1, <1>2, <3>2, <3>5, <3>6 DEF started, HasText, RightlyStarted
  <2> QED
    BY <2>2, <2>3
<1> QED
  BY <1>3, <1>7, <1>9

-----------------------------------------------------------------------------
(* The inputs of each function.                                             *)

\* The subject stays, and only its own step makes an input longer.
LEMMA GrowsAlone ==
  ASSUME [Longer]_<<subject, input>>
  PROVE  /\ subject' = subject
         /\ \/ input' = input
            \/ AddPart /\ subject = "condition"
            \/ AddToken /\ subject = "html"
            \/ AddToMessage /\ subject = "message"
            \/ AddButton /\ subject = "keyboard"
            \/ AddChar /\ subject = "template"
            \/ AddNode /\ subject = "data"
            \/ AddObject /\ subject = "dispatch"
  BY DEF Longer, AddPart, AddToken, AddToMessage, AddButton, AddChar, AddNode, AddObject, Grow

Parts == subject = "condition" => input \in Seq(Part)
Dispatched == subject = "dispatch" => input \in Seq(Objects)

LEMMA PartsInv == Inputs => []Parts
<1>1. Blank => Parts
  BY DEF Blank, Nothings, Parts
<1>2. Parts /\ [Longer]_<<subject, input>> => Parts'
  <2> SUFFICES ASSUME Parts, [Longer]_<<subject, input>>, subject = "condition"
               PROVE  input' \in Seq(Part)
    BY GrowsAlone DEF Parts
  <2>1. input' = input \/ AddPart
    BY GrowsAlone
  <2>2. CASE AddPart
    <3>1. PICK part \in Joined \cup Comparisons : input' = Append(input, part)
      BY <2>2 DEF AddPart, Grow
    <3> QED
      BY <3>1, InputsAssumption DEF Parts
  <2> QED
    BY <2>1, <2>2 DEF Parts
<1> QED
  BY <1>1, <1>2, PTL DEF Inputs

\* A condition leads on as its parts do from left to right.
THEOREM InOrderCorrect == Inputs => []InOrder
<1>1. Parts => InOrder
  BY LeadsFromLeft DEF Parts, InOrder
<1> QED
  BY <1>1, PartsInv, PTL

\* What the triggers and buttons of a bot are like.
LEMMA ObjectsAre ==
  ASSUME NEW object \in Objects
  PROVE  /\ object.is \in {"command", "message", "button"} /\ object.target \in BOOLEAN
         /\ object.is = "command" <=> object.command # "none"
<1>1. CASE object \in {CommandTrigger("go", payload, target) : payload \in {NoPayload, "p"}, target \in BOOLEAN}
  BY <1>1 DEF CommandTrigger, Object
<1>2. CASE object \in {MessageTrigger(for, target) :
                         for \in {<<>>, <<Plain("hi", 2)>>, <<Command("go", NoPayload, 32)>>}, target \in BOOLEAN}
  BY <1>2 DEF MessageTrigger, Object
<1>3. CASE object \in {Button(text) : text \in Plains \cup {Command("go", NoPayload, 32)}}
  <2>1. PICK text : object = Button(text)
    BY <1>3
  <2> QED
    BY <2>1 DEF Button, Object
<1> QED
  BY <1>1, <1>2, <1>3 DEF Objects

LEMMA DispatchedInv == Inputs => []Dispatched
<1>1. Blank => Dispatched
  BY DEF Blank, Nothings, Dispatched
<1>2. Dispatched /\ [Longer]_<<subject, input>> => Dispatched'
  <2> SUFFICES ASSUME Dispatched, [Longer]_<<subject, input>>, subject = "dispatch"
               PROVE  input' \in Seq(Objects)
    BY GrowsAlone DEF Dispatched
  <2>1. input' = input \/ AddObject
    BY GrowsAlone
  <2>2. CASE AddObject
    <3>1. PICK object \in Objects : input' = Append(input, object)
      BY <2>2 DEF AddObject, Grow
    <3> QED
      BY <3>1 DEF Dispatched
  <2> QED
    BY <2>1, <2>2 DEF Dispatched
<1> QED
  BY <1>1, <1>2, PTL DEF Inputs

\* An update starts each trigger once, unless the expected one is found by another fetcher
\* as well; one in the middle of a flow only when it is expected; a press its button alone.
THEOREM StartedOnceCorrect == Inputs => []StartedOnce
<1>1. Dispatched => StartedOnce
  <2> SUFFICES ASSUME Dispatched, subject = "dispatch", NEW update \in Updates,
                      NEW expected \in {0} \cup {k \in DOMAIN input : input[k].is # "button"},
                      NEW k \in ToSet(Started(input, expected, update))
               PROVE  RightlyStarted(input, expected, update, k)
    BY DEF StartedOnce, RightlyStarted
  <2>1. update.is \in {"message", "callback"}
    BY DEF Updates, Said, Pressed
  <2>2. AreObjects(input)
    <3>1. input \in Seq(Objects)
      BY DEF Dispatched
    <3> QED
      BY <3>1, ObjectsAre DEF AreObjects
  <2>3. expected = 0 \/ (expected \in DOMAIN input /\ input[expected].is # "button")
    OBVIOUS
  <2>4. k \in ToSet(Started(input, expected, update))
    OBVIOUS
  <2> QED
    BY <2>1, <2>2, <2>3, <2>4, AnyStartedOnce
<1> QED
  BY <1>1, DispatchedInv, PTL

-----------------------------------------------------------------------------
(* Sequences of sequences.                                                  *)

\* What they are flattened to so far, after each.
FlattenedBy(n, Y, seqs) == \E at \in [0 .. n -> Seq(Y)] :
    /\ at[0] = <<>> /\ FlattenSeq(seqs) = at[n]
    /\ \A i \in 1 .. n : at[i] = at[i - 1] \o seqs[i]

LEMMA FlattenStages ==
  ASSUME NEW n \in Nat, NEW Y, NEW seqs \in [1 .. n -> Seq(Y)]
  PROVE  FlattenedBy(n, Y, seqs)
<1> DEFINE X == Seq(Y)
           step == [i \in 1 .. n |-> [got \in X |-> got \o seqs[i]]]
           Eqn(f) == f = [i \in 1 .. n |-> IF i = 1 THEN seqs[i] ELSE f[i - 1] \o seqs[i]]
           chosen == CHOOSE f : Eqn(f)
<1>1. <<>> \in X /\ step \in [1 .. n -> [X -> X]]
  OBVIOUS
<1>2. HasStages(n, X, <<>>, step)
  <2> HIDE DEF X, step
  <2> QED
    BY <1>1, StepByStep, Zenon
<1>3. PICK at \in [0 .. n -> X] : at[0] = <<>> /\ \A i \in 1 .. n : at[i] = step[i][at[i - 1]]
  <2> HIDE DEF X, step
  <2> QED
    BY <1>2, Zenon DEF HasStages
<1>4. \A i \in 1 .. n : at[i] = at[i - 1] \o seqs[i]
  <2> TAKE i \in 1 .. n
  <2>1. at[i - 1] \in X
    OBVIOUS
  <2> QED
    BY <1>3, <2>1
<1> HIDE DEF step
<1>5. Len(seqs) = n /\ DOMAIN seqs = 1 .. n
  OBVIOUS
<1>6. CASE n = 0
  <2>1. FlattenSeq(seqs) = <<>>
    BY <1>5, <1>6 DEF FlattenSeq
  <2> QED
    BY <1>3, <1>4, <1>6, <2>1 DEF FlattenedBy
<1>7. CASE n # 0
  <2>1. FlattenSeq(seqs) = chosen[n]
    BY <1>5, <1>7 DEF FlattenSeq
  <2>8. at[1] = seqs[1] /\ 1 \in 1 .. n
    <3>1. 1 \in 1 .. n /\ 1 - 1 = 0 /\ seqs[1] \in Seq(Y)
      BY <1>7
    <3>2. at[1] = <<>> \o seqs[1]
      BY <1>3, <1>4, <3>1
    <3> QED
      BY <3>1, <3>2
  <2>2. Eqn([i \in 1 .. n |-> at[i]])
    <3>2. \A i \in 1 .. n : i # 1 => i - 1 \in 1 .. n
      OBVIOUS
    <3> QED
      BY <1>4, <2>8, <3>2
  <2>3. Eqn(chosen)
    <3> HIDE DEF Eqn
    <3> QED
      BY <2>2
  <2> HIDE DEF chosen
  <2>4. \A i \in 1 .. n : chosen[i] = IF i = 1 THEN seqs[i] ELSE chosen[i - 1] \o seqs[i]
    BY <2>3
  <2> HIDE DEF Eqn
  <2> DEFINE T == {i \in Nat : i + 1 <= n => chosen[i + 1] = at[i + 1]}
  <2>5. 0 \in T
    BY <1>7, <2>4, <2>8
  <2>6. ASSUME NEW i \in Nat, i \in T PROVE i + 1 \in T
    <3> SUFFICES ASSUME i + 2 <= n PROVE chosen[i + 2] = at[i + 2]
      OBVIOUS
    <3>1. chosen[i + 1] = at[i + 1] /\ i + 2 \in 1 .. n /\ i + 2 # 1 /\ (i + 2) - 1 = i + 1
      BY <2>6
    <3>2. chosen[i + 2] = chosen[i + 1] \o seqs[i + 2]
      BY <2>4, <3>1
    <3>3. at[i + 2] = at[i + 1] \o seqs[i + 2]
      BY <1>4, <3>1
    <3> QED
      BY <3>1, <3>2, <3>3
  <2>7. chosen[n] = at[n]
    <3>1. n - 1 \in Nat /\ (n - 1) + 1 = n
      BY <1>7
    <3> HIDE DEF T
    <3>2. n - 1 \in T
      BY <2>5, <2>6, <3>1, SetInduction
    <3> QED
      BY <3>1, <3>2 DEF T
  <2> QED
    BY <1>3, <1>4, <2>1, <2>7 DEF FlattenedBy
<1> QED
  BY <1>6, <1>7

-----------------------------------------------------------------------------
(* The requests of a message.                                               *)

\* Two stretches of the files of a type that follow each other.
LEMMA IntervalsJoin ==
  ASSUME NEW a \in Nat, NEW b \in Nat, a <= b
  PROVE  /\ Interval(1, a) \in Seq(Nat) /\ Interval(a + 1, b) \in Seq(Nat)
         /\ Interval(1, a) \o Interval(a + 1, b) = Interval(1, b)
<1> DEFINE s == Interval(1, a)
           t == Interval(a + 1, b)
           u == Interval(1, b)
<1>1. s \in Seq(Nat) /\ Len(s) = a /\ \A k \in 1 .. a : s[k] = k
  BY DEF Interval
<1>2. t \in Seq(Nat) /\ Len(t) = b - a /\ \A k \in 1 .. b - a : t[k] = a + k
  BY DEF Interval
<1>3. u \in Seq(Nat) /\ Len(u) = b /\ \A k \in 1 .. b : u[k] = k
  BY DEF Interval
<1> HIDE DEF s, t, u
<1>4. s \o t = u
  BY <1>1, <1>2, <1>3, SMTT(30)
<1> QED
  BY <1>1, <1>2, <1>4 DEF s, t, u

\* The requests carry the files of a type in order: after the k-th, as many as e[k].
Carries(requests, type, e) ==
    /\ e \in [0 .. Len(requests) -> Nat] /\ e[0] = 0
    /\ \A k \in 1 .. Len(requests) :
          \/ requests[k].type # type /\ e[k] = e[k - 1]
          \/ /\ requests[k].type = type /\ e[k - 1] <= e[k]
             /\ requests[k].files = Interval(e[k - 1] + 1, e[k])

LEMMA CarriedFiles ==
  ASSUME NEW requests, DOMAIN requests = 1 .. Len(requests), Len(requests) \in Nat,
         NEW type, NEW e, Carries(requests, type, e)
  PROVE  FilesSent(requests, type) = Interval(1, e[Len(requests)])
<1> DEFINE n == Len(requests)
           seqs == [k \in DOMAIN requests |-> IF requests[k].type = type THEN requests[k].files ELSE <<>>]
<1>1. n \in Nat /\ e \in [0 .. n -> Nat] /\ e[0] = 0 /\ DOMAIN requests = 1 .. n
  BY DEF Carries
<1>2. ASSUME NEW k \in 1 .. n
      PROVE  /\ e[k - 1] \in Nat /\ e[k] \in Nat /\ e[k - 1] <= e[k]
             /\ seqs[k] \in Seq(Nat) /\ Interval(1, e[k - 1]) \o seqs[k] = Interval(1, e[k])
  <2>1. e[k - 1] \in Nat /\ e[k] \in Nat
    BY <1>1
  <2>2. CASE requests[k].type # type /\ e[k] = e[k - 1]
    <3>1. seqs[k] = <<>>
      BY <1>1, <2>2
    <3>2. Interval(1, e[k]) \in Seq(Nat)
      BY <2>1 DEF Interval
    <3> QED
      BY <2>1, <2>2, <3>1, <3>2
  <2>3. CASE /\ requests[k].type = type /\ e[k - 1] <= e[k]
             /\ requests[k].files = Interval(e[k - 1] + 1, e[k])
    <3>1. seqs[k] = Interval(e[k - 1] + 1, e[k])
      BY <1>1, <2>3
    <3> QED
      BY <2>1, <2>3, <3>1, IntervalsJoin
  <2> QED
    BY <2>2, <2>3 DEF Carries
<1>3. seqs \in [1 .. n -> Seq(Nat)]
  BY <1>1, <1>2
<1>4. FilesSent(requests, type) = FlattenSeq(seqs)
  BY DEF FilesSent
<1> HIDE DEF n, seqs
<1>5. FlattenedBy(n, Nat, seqs)
  BY <1>1, <1>3, FlattenStages, Zenon
<1>6. PICK at \in [0 .. n -> Seq(Nat)] : /\ at[0] = <<>> /\ FlattenSeq(seqs) = at[n]
                                         /\ \A i \in 1 .. n : at[i] = at[i - 1] \o seqs[i]
  BY <1>5, Zenon DEF FlattenedBy
<1> DEFINE T == {i \in Nat : i <= n => at[i] = Interval(1, e[i])}
<1>7. 0 \in T
  BY <1>1, <1>6, SMTT(30) DEF Interval
<1>8. ASSUME NEW i \in Nat, i \in T PROVE i + 1 \in T
  <2> SUFFICES ASSUME i + 1 <= n PROVE at[i + 1] = Interval(1, e[i + 1])
    OBVIOUS
  <2>1. at[i] = Interval(1, e[i]) /\ i + 1 \in 1 .. n /\ (i + 1) - 1 = i
    BY <1>1, <1>8
  <2> QED
    BY <1>2, <1>6, <2>1
<1>9. n \in T
  <2> HIDE DEF T
  <2> QED
    BY <1>1, <1>7, <1>8, SetInduction
<1> QED
  BY <1>1, <1>4, <1>6, <1>9 DEF n

\* A request, and what those for the files of one type are like.
AnyRequest == [kind : {"file", "group", "text"}, type : {"photo", "document", "none"},
               files : Seq(Nat), text : BOOLEAN, keyboard : BOOLEAN]

TypeSent(requests, message, place) ==
    /\ requests \in Seq(AnyRequest)
    /\ message.media[Types[place]] = 0 => requests = <<>>
    /\ \A k \in 1 .. Len(requests) :
          /\ requests[k].type = Types[place]
          /\ requests[k].text => /\ Attaches(message, place) /\ k = Len(requests)
                                 /\ requests[k].keyboard = message.keyboard
    /\ \E e : Carries(requests, Types[place], e) /\ e[Len(requests)] = message.media[Types[place]]

\* The slices of n files follow each other and end with the last of them.
LEMMA SlicesFollow ==
  ASSUME NEW n \in Nat, n # 0
  PROVE  LET N == (n + MAX_MEDIA_LENGTH - 1) \div MAX_MEDIA_LENGTH
             e == [k \in 0 .. N |-> Smaller(k * MAX_MEDIA_LENGTH, n)]
         IN  /\ N \in Nat \ {0} /\ e \in [0 .. N -> Nat] /\ e[0] = 0 /\ e[N] = n
             /\ \A k \in 1 .. N : e[k - 1] <= e[k] /\ Slice(n, k) = Interval(e[k - 1] + 1, e[k])
<1> DEFINE M == MAX_MEDIA_LENGTH
           N == (n + M - 1) \div M
           e == [k \in 0 .. N |-> Smaller(k * M, n)]
<1>0. M \in Nat \ {0}
  BY LengthsAssumption
<1>1. N \in Nat /\ N * M <= n + M - 1 /\ n + M - 1 < (N + 1) * M
  BY <1>0
<1>2. (N + 1) * M = N * M + M
  BY <1>0, <1>1
<1>3. N # 0 /\ n <= N * M
  BY <1>0, <1>1, <1>2
<1>4. ASSUME NEW k \in 0 .. N PROVE k * M \in Nat /\ e[k] = Smaller(k * M, n)
  BY <1>0, <1>1
<1> HIDE DEF N, e
<1>5. e \in [0 .. N -> Nat]
  BY <1>0, <1>1 DEF e, Smaller
<1>6. e[0] = 0 /\ e[N] = n
  BY <1>0, <1>1, <1>3, <1>4 DEF Smaller
<1>7. ASSUME NEW k \in 1 .. N
      PROVE  e[k - 1] <= e[k] /\ Slice(n, k) = Interval(e[k - 1] + 1, e[k])
  <2>1. k \in 0 .. N /\ k - 1 \in 0 .. N /\ k - 1 \in Nat /\ k \in Nat
    BY <1>1
  <2>2. (k - 1) * M \in Nat /\ k * M \in Nat /\ k * M = (k - 1) * M + M
    BY <1>0, <2>1
  <2>3. k * M <= N * M
    BY <1>0, <1>1, <2>1
  <2>4. (k - 1) * M <= n
    BY <1>0, <1>1, <2>2, <2>3
  <2>5. e[k - 1] = (k - 1) * M
    BY <1>4, <2>1, <2>2, <2>4 DEF Smaller
  <2>6. e[k] = Smaller(k * M, n)
    BY <1>4, <2>1
  <2>7. e[k - 1] <= e[k]
    BY <1>0, <2>2, <2>4, <2>5, <2>6 DEF Smaller
  <2>8. Slice(n, k) = Interval((k - 1) * M + 1, Smaller(k * M, n))
    BY DEF Slice
  <2> QED
    BY <2>5, <2>6, <2>7, <2>8
<1> QED
  BY <1>1, <1>3, <1>5, <1>6, <1>7 DEF N, e

LEMMA OfTypeSent ==
  ASSUME NEW message \in Message, NEW place \in {1, 2}
  PROVE  TypeSent(OfType(message, place), message, place)
<1> DEFINE type == Types[place]
           n == message.media[type]
           attach == Attaches(message, place)
           O == OfType(message, place)
<1>1. /\ type \in {"photo", "document"} /\ n \in Nat /\ attach \in BOOLEAN
      /\ message.keyboard \in BOOLEAN /\ Types[place] = type
  <2>1. type \in {"photo", "document"}
    BY DEF Types
  <2>2. type \in ToSet(Types)
    BY DEF Types, ToSet
  <2>3. n \in Nat
    BY <2>2 DEF Message
  <2>4. attach \in BOOLEAN /\ message.keyboard \in BOOLEAN
    BY DEF Attaches, Message
  <2> QED
    BY <2>1, <2>3, <2>4
<1>2. O = IF n = 0 THEN <<>>
          ELSE IF n < MIN_MEDIA_LENGTH
            THEN <<Request("file", type, <<1>>, attach, attach /\ message.keyboard)>>
            ELSE [k \in 1 .. (n + MAX_MEDIA_LENGTH - 1) \div MAX_MEDIA_LENGTH |->
                     Request("group", type, Slice(n, k), FALSE, FALSE)]
  BY DEF OfType
<1> HIDE DEF O, attach, n, type
<1>3. CASE n = 0
  <2> DEFINE e == [k \in 0 .. 0 |-> 0]
  <2>1. O = <<>>
    BY <1>2, <1>3
  <2>2. Carries(O, type, e) /\ e[Len(O)] = 0
    BY <2>1 DEF Carries
  <2> HIDE DEF e
  <2>3. O \in Seq(AnyRequest) /\ \A k \in 1 .. Len(O) : FALSE
    BY <2>1
  <2> QED
    BY <1>3, <2>1, <2>2, <2>3 DEF TypeSent, O, n, type
<1>4. CASE n # 0 /\ n < MIN_MEDIA_LENGTH
  <2> DEFINE e == [k \in 0 .. 1 |-> k]
             r == Request("file", type, <<1>>, attach, attach /\ message.keyboard)
  <2>0. n = 1
    BY <1>1, <1>4, LengthsAssumption
  <2>1. O = <<r>>
    BY <1>2, <1>4
  <2>2. /\ r \in AnyRequest /\ r.type = type /\ r.files = <<1>> /\ r.text = attach
        /\ r.keyboard = (attach /\ message.keyboard)
    <3>1. <<1>> \in Seq(Nat)
      OBVIOUS
    <3> DEFINE keyboard == attach /\ message.keyboard
    <3>2. attach \in BOOLEAN /\ keyboard \in BOOLEAN
      BY <1>1, Zenon
    <3>3. r = [kind |-> "file", type |-> type, files |-> <<1>>, text |-> attach, keyboard |-> keyboard]
      BY DEF Request
    <3> HIDE DEF r, keyboard
    <3>4. r \in AnyRequest
      BY <1>1, <3>1, <3>2, <3>3 DEF AnyRequest
    <3>5. r.type = type /\ r.files = <<1>> /\ r.text = attach /\ r.keyboard = keyboard
      BY <3>3, Zenon
    <3> QED
      BY <3>4, <3>5, Zenon DEF keyboard
  <2> HIDE DEF r
  <2>3. O \in Seq(AnyRequest) /\ Len(O) = 1 /\ O[1] = r /\ O # <<>>
    BY <2>1, <2>2
  <2>4. Interval(1, 1) = <<1>>
    BY DEF Interval
  <2>5. Carries(O, type, e) /\ e[Len(O)] = n
    BY <2>0, <2>2, <2>3, <2>4 DEF Carries
  <2> HIDE DEF e
  <2>6. r.text => attach /\ r.keyboard = message.keyboard
    BY <1>1, <2>2
  <2>7. \A k \in 1 .. Len(O) : O[k] = r /\ k = Len(O)
    BY <2>3
  <2> QED
    BY <1>4, <2>2, <2>3, <2>5, <2>6, <2>7 DEF TypeSent, O, n, type, attach
<1>5. CASE ~(n < MIN_MEDIA_LENGTH)
  <2> DEFINE N == (n + MAX_MEDIA_LENGTH - 1) \div MAX_MEDIA_LENGTH
             e == [k \in 0 .. N |-> Smaller(k * MAX_MEDIA_LENGTH, n)]
  <2>0. n # 0
    BY <1>1, <1>5, LengthsAssumption
  <2>1. /\ N \in Nat \ {0} /\ e \in [0 .. N -> Nat] /\ e[0] = 0 /\ e[N] = n
        /\ \A k \in 1 .. N : e[k - 1] <= e[k] /\ Slice(n, k) = Interval(e[k - 1] + 1, e[k])
    BY <1>1, <2>0, SlicesFollow
  <2>2. O = [k \in 1 .. N |-> Request("group", type, Slice(n, k), FALSE, FALSE)]
    BY <1>2, <1>5, <2>0
  <2> HIDE DEF N, e
  <2>3. ASSUME NEW k \in 1 .. N
        PROVE  /\ O[k] \in AnyRequest /\ O[k].type = type /\ O[k].text = FALSE
               /\ O[k].files = Interval(e[k - 1] + 1, e[k]) /\ e[k - 1] <= e[k]
    <3>1. O[k] = Request("group", type, Slice(n, k), FALSE, FALSE)
      BY <2>2
    <3>2. Slice(n, k) \in Seq(Nat)
      <4>1. k - 1 \in 0 .. N /\ e[k - 1] \in Nat /\ e[k] \in Nat
        BY <2>1
      <4>2. Interval(e[k - 1] + 1, e[k]) \in Seq(Nat)
        BY <4>1, <2>1, IntervalsJoin
      <4> QED
        BY <2>1, <4>2
    <3>4. O[k] = [kind |-> "group", type |-> type, files |-> Slice(n, k), text |-> FALSE, keyboard |-> FALSE]
      BY <3>1 DEF Request
    <3>5. O[k] \in AnyRequest
      BY <1>1, <3>2, <3>4 DEF AnyRequest
    <3>6. O[k].type = type /\ O[k].text = FALSE /\ O[k].files = Slice(n, k)
      BY <3>4
    <3> QED
      BY <2>1, <3>5, <3>6
  <2>4. O \in Seq(AnyRequest) /\ Len(O) = N
    <3>1. O \in [1 .. N -> AnyRequest]
      BY <2>2, <2>3
    <3> QED
      BY <2>1, <3>1
  <2>5. Carries(O, type, e) /\ e[Len(O)] = n
    BY <2>1, <2>3, <2>4 DEF Carries
  <2> QED
    BY <2>0, <2>3, <2>4, <2>5 DEF TypeSent, O, n, type
<1> QED
  BY <1>1, <1>3, <1>4, <1>5

Sends(requests, type, n) == \E e : Carries(requests, type, e) /\ e[Len(requests)] = n

\* Requests without files of a type may follow or go ahead.
LEMMA SendsBefore ==
  ASSUME NEW s \in Seq(AnyRequest), NEW t \in Seq(AnyRequest), NEW type, NEW n,
         Sends(s, type, n), \A k \in 1 .. Len(t) : t[k].type # type
  PROVE  Sends(s \o t, type, n)
<1>1. PICK e : Carries(s, type, e) /\ e[Len(s)] = n
  BY DEF Sends
<1> DEFINE a == Len(s)
           b == Len(t)
           u == s \o t
           f == [k \in 0 .. a + b |-> IF k <= a THEN e[k] ELSE n]
<1>2. a \in Nat /\ b \in Nat /\ Len(u) = a + b
  OBVIOUS
<1>3. \A k \in 1 .. a + b : u[k] = IF k <= a THEN s[k] ELSE t[k - a]
  OBVIOUS
<1>4. e \in [0 .. a -> Nat] /\ e[0] = 0 /\ n \in Nat
  BY <1>1, <1>2 DEF Carries
<1>5. f \in [0 .. a + b -> Nat] /\ f[0] = 0 /\ f[a + b] = n
  <2>1. \A k \in 0 .. a + b : k <= a => k \in 0 .. a
    BY <1>2
  <2>2. b = 0 => a + b = a
    BY <1>2
  <2>3. b # 0 => ~(a + b <= a)
    BY <1>2
  <2>4. 0 \in 0 .. a + b /\ a + b \in 0 .. a + b /\ 0 <= a /\ a <= a /\ e[a] = n
    BY <1>1, <1>2
  <2>5. f \in [0 .. a + b -> Nat]
    BY <1>4, <2>1
  <2>6. f[0] = 0
    BY <1>4, <2>4
  <2>7. f[a + b] = n
    BY <2>2, <2>3, <2>4
  <2> QED
    BY <2>5, <2>6, <2>7
<1>6. ASSUME NEW k \in 1 .. a + b
      PROVE  \/ u[k].type # type /\ f[k] = f[k - 1]
             \/ /\ u[k].type = type /\ f[k - 1] <= f[k]
                /\ u[k].files = Interval(f[k - 1] + 1, f[k])
  <2>1. k - 1 \in 0 .. a + b /\ k \in 0 .. a + b
    BY <1>2
  <2>2. CASE k <= a
    <3>1. k \in 1 .. a /\ u[k] = s[k] /\ f[k] = e[k] /\ f[k - 1] = e[k - 1]
      BY <1>2, <1>3, <2>1, <2>2
    <3> HIDE DEF f, u, a
    <3>2. \/ s[k].type # type /\ e[k] = e[k - 1]
          \/ /\ s[k].type = type /\ e[k - 1] <= e[k]
             /\ s[k].files = Interval(e[k - 1] + 1, e[k])
      BY <1>1, <3>1 DEF Carries, a
    <3> QED
      BY <3>1, <3>2
  <2>3. CASE k > a
    <3>1. k - a \in 1 .. b /\ u[k] = t[k - a]
      BY <1>2, <1>3, <2>3
    <3>2. f[k] = n /\ f[k - 1] = n
      <4>1. k = a + 1 => e[k - 1] = n
        BY <1>1, <1>2
      <4> QED
        BY <1>2, <2>1, <2>3, <4>1
    <3> QED
      BY <3>1, <3>2
  <2> QED
    BY <1>2, <2>2, <2>3
<1> HIDE DEF f, u, a, b
<1>7. Carries(u, type, f)
  BY <1>2, <1>5, <1>6 DEF Carries
<1>8. f[Len(u)] = n
  BY <1>2, <1>5
<1>9. Sends(u, type, n)
  BY <1>7, <1>8 DEF Sends
<1> QED
  BY <1>9 DEF u

LEMMA SendsAfter ==
  ASSUME NEW s \in Seq(AnyRequest), NEW t \in Seq(AnyRequest), NEW type, NEW n,
         Sends(t, type, n), \A k \in 1 .. Len(s) : s[k].type # type
  PROVE  Sends(s \o t, type, n)
<1>1. PICK e : Carries(t, type, e) /\ e[Len(t)] = n
  BY DEF Sends
<1> DEFINE a == Len(s)
           b == Len(t)
           u == s \o t
           f == [k \in 0 .. a + b |-> IF k <= a THEN 0 ELSE e[k - a]]
<1>2. a \in Nat /\ b \in Nat /\ Len(u) = a + b
  OBVIOUS
<1>3. \A k \in 1 .. a + b : u[k] = IF k <= a THEN s[k] ELSE t[k - a]
  OBVIOUS
<1>4. e \in [0 .. b -> Nat] /\ e[0] = 0 /\ n \in Nat
  BY <1>1, <1>2 DEF Carries
<1>5. f \in [0 .. a + b -> Nat] /\ f[0] = 0 /\ f[a + b] = n
  <2>1. (a + b) - a = b
    BY <1>2
  <2>2. b = 0 => n = 0
    BY <1>1, <1>4
  <2> QED
    BY <1>1, <1>2, <1>4, <2>1, <2>2
<1>6. ASSUME NEW k \in 1 .. a + b
      PROVE  \/ u[k].type # type /\ f[k] = f[k - 1]
             \/ /\ u[k].type = type /\ f[k - 1] <= f[k]
                /\ u[k].files = Interval(f[k - 1] + 1, f[k])
  <2>1. k - 1 \in 0 .. a + b /\ k \in 0 .. a + b
    BY <1>2
  <2>2. CASE k <= a
    <3>1. k \in 1 .. a /\ u[k] = s[k] /\ f[k] = 0 /\ f[k - 1] = 0
      BY <1>2, <1>3, <2>1, <2>2
    <3> QED
      BY <3>1
  <2>3. CASE k > a
    <3>1. k - a \in 1 .. b /\ u[k] = t[k - a] /\ (k - a) - 1 \in 0 .. b
      BY <1>2, <1>3, <2>3
    <3>2. f[k] = e[k - a] /\ f[k - 1] = e[(k - a) - 1]
      <4>1. k = a + 1 => (k - a) - 1 = 0
        BY <1>2
      <4>2. k - 1 > a => (k - 1) - a = (k - a) - 1
        BY <1>2
      <4> QED
        BY <1>2, <1>4, <2>1, <2>3, <4>1, <4>2
    <3> HIDE DEF f, u, a, b
    <3>3. \/ t[k - a].type # type /\ e[k - a] = e[(k - a) - 1]
          \/ /\ t[k - a].type = type /\ e[(k - a) - 1] <= e[k - a]
             /\ t[k - a].files = Interval(e[(k - a) - 1] + 1, e[k - a])
      BY <1>1, <3>1 DEF Carries, b
    <3> QED
      BY <3>1, <3>2, <3>3
  <2> QED
    BY <1>2, <2>2, <2>3
<1> HIDE DEF f, u, a, b
<1>7. Carries(u, type, f)
  BY <1>2, <1>5, <1>6 DEF Carries
<1>8. f[Len(u)] = n
  BY <1>2, <1>5
<1>9. Sends(u, type, n)
  BY <1>7, <1>8 DEF Sends
<1> QED
  BY <1>9 DEF u

\* What the requests of a message are like: the files of both types, and the text at the end.
WellSent(requests, message) ==
    /\ requests \in Seq(AnyRequest)
    /\ Sends(requests, "photo", message.media["photo"])
    /\ Sends(requests, "document", message.media["document"])
    /\ \A k \in 1 .. Len(requests) : requests[k].text =>
          message.text /\ k = Len(requests) /\ requests[k].keyboard = message.keyboard

\* The files of the first type, then those of the second.
LEMMA FilesFirst ==
  ASSUME NEW message \in Message
  PROVE  WellSent(FlattenSeq([place \in DOMAIN Types |-> OfType(message, place)]), message)
<1> DEFINE A == OfType(message, 1)
           B == OfType(message, 2)
           seqs == [place \in DOMAIN Types |-> OfType(message, place)]
           R == FlattenSeq(seqs)
<1>1. Types[1] = "photo" /\ Types[2] = "document" /\ DOMAIN Types = 1 .. 2 /\ Len(Types) = 2
  BY DEF Types
<1>2. TypeSent(A, message, 1) /\ TypeSent(B, message, 2)
  BY OfTypeSent
<1>3. A \in Seq(AnyRequest) /\ B \in Seq(AnyRequest)
  BY <1>2 DEF TypeSent
<1>4. seqs[1] = A /\ seqs[2] = B /\ seqs = [place \in 1 .. 2 |-> OfType(message, place)]
  BY <1>1
<1> HIDE DEF A, B, seqs
<1>5. \A place \in 1 .. 2 : OfType(message, place) \in Seq(AnyRequest)
  BY <1>3 DEF A, B
<1>6. seqs \in [1 .. 2 -> Seq(AnyRequest)]
  BY <1>4, <1>5
<1>7. R = A \o B
  <2>1. FlattenedBy(2, AnyRequest, seqs)
    BY <1>6, FlattenStages
  <2>2. PICK at \in [0 .. 2 -> Seq(AnyRequest)] :
          /\ at[0] = <<>> /\ R = at[2] /\ \A i \in 1 .. 2 : at[i] = at[i - 1] \o seqs[i]
    BY <2>1 DEF FlattenedBy
  <2>3. at[1] = at[0] \o A
    <3>1. 1 \in 1 .. 2 /\ 1 - 1 = 0
      OBVIOUS
    <3> QED
      BY <1>4, <2>2, <3>1
  <2>4. at[1] = A
    BY <1>3, <2>2, <2>3
  <2>5. at[2] = at[1] \o B
    <3>1. 2 \in 1 .. 2 /\ 2 - 1 = 1
      OBVIOUS
    <3> QED
      BY <1>4, <2>2, <3>1
  <2> QED
    BY <2>2, <2>4, <2>5
<1>8. Sends(A \o B, "photo", message.media["photo"])
  <2>1. Sends(A, "photo", message.media["photo"])
    BY <1>1, <1>2 DEF TypeSent, Sends
  <2>2. \A k \in 1 .. Len(B) : B[k].type # "photo"
    BY <1>1, <1>2 DEF TypeSent
  <2> QED
    BY <1>3, <2>1, <2>2, SendsBefore
<1>9. Sends(A \o B, "document", message.media["document"])
  <2>1. Sends(B, "document", message.media["document"])
    BY <1>1, <1>2 DEF TypeSent, Sends
  <2>2. \A k \in 1 .. Len(A) : A[k].type # "document"
    BY <1>1, <1>2 DEF TypeSent
  <2> QED
    BY <1>3, <2>1, <2>2, SendsAfter
<1>10. ASSUME NEW k \in 1 .. Len(A \o B), (A \o B)[k].text
       PROVE  message.text /\ k = Len(A \o B) /\ (A \o B)[k].keyboard = message.keyboard
  <2>1. Len(A \o B) = Len(A) + Len(B) /\ Len(A) \in Nat /\ Len(B) \in Nat
    BY <1>3
  <2>2. CASE k <= Len(A)
    <3>1. k \in 1 .. Len(A) /\ (A \o B)[k] = A[k]
      BY <1>3, <2>1, <2>2
    <3>2. Attaches(message, 1) /\ k = Len(A) /\ A[k].keyboard = message.keyboard
      BY <1>2, <1>10, <3>1 DEF TypeSent
    <3>3. message.text /\ message.media[Types[2]] = 0
      <4>1. 2 \in 1 + 1 .. Len(Types)
        BY <1>1
      <4> QED
        BY <3>2, <4>1 DEF Attaches
    <3>4. B = <<>>
      BY <1>2, <3>3 DEF TypeSent
    <3> QED
      BY <2>1, <3>1, <3>2, <3>3, <3>4
  <2>3. CASE k > Len(A)
    <3>1. k - Len(A) \in 1 .. Len(B) /\ (A \o B)[k] = B[k - Len(A)]
      BY <1>3, <2>1, <2>3
    <3>2. Attaches(message, 2) /\ k - Len(A) = Len(B) /\ B[k - Len(A)].keyboard = message.keyboard
      BY <1>2, <1>10, <3>1 DEF TypeSent
    <3>3. message.text
      BY <3>2 DEF Attaches
    <3> QED
      BY <2>1, <3>1, <3>2, <3>3
  <2> QED
    BY <2>1, <2>2, <2>3
<1>11. A \o B \in Seq(AnyRequest)
  BY <1>3
<1>12. WellSent(A \o B, message)
  BY <1>8, <1>9, <1>10, <1>11 DEF WellSent
<1> QED
  BY <1>7, <1>12 DEF seqs

LEMMA MessageSent ==
  ASSUME NEW message \in Message
  PROVE  /\ WellSent(Requests(message), message)
         /\ message.text => Requests(message) # <<>> /\ Last(Requests(message)).text
<1> DEFINE R == FlattenSeq([place \in DOMAIN Types |-> OfType(message, place)])
           T == Request("text", "none", <<>>, TRUE, message.keyboard)
           attached == \E k \in DOMAIN R : R[k].text
           Q == Requests(message)
<1>1. WellSent(R, message)
  BY FilesFirst
<1>2. Q = IF message.text /\ ~attached THEN Append(R, T) ELSE R
  BY DEF Requests
<1> HIDE DEF R, Q
<1>3. R \in Seq(AnyRequest) /\ DOMAIN R = 1 .. Len(R) /\ Len(R) \in Nat
  BY <1>1 DEF WellSent
<1>4. CASE message.text /\ ~attached
  <2>1. Q = Append(R, T)
    BY <1>2, <1>4
  <2>2. T = [kind |-> "text", type |-> "none", files |-> <<>>, text |-> TRUE, keyboard |-> message.keyboard]
    BY DEF Request
  <2>3. message.keyboard \in BOOLEAN /\ <<>> \in Seq(Nat)
    BY DEF Message
  <2> HIDE DEF T
  <2>4. T \in AnyRequest
    BY <2>2, <2>3 DEF AnyRequest
  <2>5. T.type = "none" /\ T.text = TRUE /\ T.keyboard = message.keyboard
    BY <2>2
  <2> DEFINE one == <<T>>
  <2>6. one \in Seq(AnyRequest) /\ Len(one) = 1 /\ one[1] = T
    BY <2>4
  <2>7. Q = R \o one /\ Q \in Seq(AnyRequest) /\ Len(Q) = Len(R) + 1 /\ Q[Len(R) + 1] = T
    BY <1>3, <2>1, <2>4
  <2>8. \A k \in 1 .. Len(one) : one[k].type # "photo" /\ one[k].type # "document"
    <3> HIDE DEF one
    <3> QED
      BY <2>5, <2>6, SMTT(30)
  <2> HIDE DEF one
  <2>9. Sends(Q, "photo", message.media["photo"])
    BY <1>1, <1>3, <2>6, <2>7, <2>8, SendsBefore, ZenonT(30) DEF WellSent
  <2>10. Sends(Q, "document", message.media["document"])
    BY <1>1, <1>3, <2>6, <2>7, <2>8, SendsBefore, ZenonT(30) DEF WellSent
  <2>11. ASSUME NEW k \in 1 .. Len(Q), Q[k].text
         PROVE  message.text /\ k = Len(Q) /\ Q[k].keyboard = message.keyboard
    <3>1. CASE k = Len(Q)
      BY <1>4, <2>5, <2>7, <3>1
    <3>2. CASE k # Len(Q)
      <4>1. k \in 1 .. Len(R) /\ Q[k] = R[k]
        BY <1>3, <2>1, <2>4, <2>7, <3>2
      <4> QED
        BY <1>3, <1>4, <2>11, <4>1
    <3> QED
      BY <3>1, <3>2
  <2>12. WellSent(Q, message)
    BY <2>7, <2>9, <2>10, <2>11 DEF WellSent
  <2>13. Q # <<>> /\ Last(Q) = T
    BY <1>3, <2>7 DEF Last
  <2> QED
    BY <2>5, <2>12, <2>13 DEF Q
<1>5. CASE ~(message.text /\ ~attached)
  <2>1. Q = R
    BY <1>2, <1>5
  <2>2. ASSUME message.text PROVE Q # <<>> /\ Last(Q).text
    <3>1. PICK k \in 1 .. Len(R) : R[k].text
      BY <1>3, <1>5, <2>2
    <3>2. k = Len(R)
      BY <1>1, <3>1 DEF WellSent
    <3> QED
      BY <1>3, <2>1, <3>1, <3>2 DEF Last
  <2> QED
    BY <1>1, <2>1, <2>2 DEF Q
<1> QED
  BY <1>4, <1>5

Messages == subject = "message" => input \in Message

LEMMA MessagesInv == Inputs => []Messages
<1>1. Blank => Messages
  <2> SUFFICES ASSUME Blank, subject = "message" PROVE input \in Message
    BY DEF Messages
  <2>1. input = [media |-> [type \in ToSet(Types) |-> 0], text |-> FALSE, keyboard |-> FALSE]
    BY DEF Blank, Nothings
  <2>2. [type \in ToSet(Types) |-> 0] \in [ToSet(Types) -> Nat]
    OBVIOUS
  <2> QED
    BY <2>1, <2>2 DEF Message
<1>2. Messages /\ [Longer]_<<subject, input>> => Messages'
  <2> SUFFICES ASSUME Messages, [Longer]_<<subject, input>>, subject = "message"
               PROVE  input' \in Message
    BY GrowsAlone DEF Messages
  <2>1. input' = input \/ AddToMessage
    BY GrowsAlone
  <2>2. input \in Message
    BY DEF Messages
  <2>3. CASE AddToMessage
    <3>1. CASE \E type \in ToSet(Types) :
                  input.media[type] < MaxFiles /\ input' = [input EXCEPT !.media[type] = @ + 1]
      <4>1. PICK type \in ToSet(Types) : input' = [input EXCEPT !.media[type] = @ + 1]
        BY <3>1
      <4> QED
        BY <2>2, <4>1 DEF Message
    <3>2. CASE input' = [input EXCEPT !.text = TRUE]
      BY <2>2, <3>2 DEF Message
    <3>3. CASE input' = [input EXCEPT !.keyboard = TRUE]
      BY <2>2, <3>3 DEF Message
    <3> QED
      BY <2>3, <3>1, <3>2, <3>3 DEF AddToMessage
  <2> QED
    BY <2>1, <2>2, <2>3
<1> QED
  BY <1>1, <1>2, PTL DEF Inputs

\* A message is sent as a whole, each file once and in order, and its text once, at the end.
THEOREM SentOnceCorrect == Inputs => []SentOnce
<1>1. Messages => SentOnce
  <2> SUFFICES ASSUME Messages, subject = "message" PROVE SentOnce
    BY DEF SentOnce
  <2> DEFINE Q == Requests(input)
  <2>1. input \in Message
    BY DEF Messages
  <2>2. WellSent(Q, input) /\ (input.text => Q # <<>> /\ Last(Q).text)
    BY <2>1, MessageSent
  <2> HIDE DEF Q
  <2>3. Q \in Seq(AnyRequest) /\ DOMAIN Q = 1 .. Len(Q) /\ Len(Q) \in Nat
    BY <2>2, SMTT(30) DEF WellSent
  <2>4. \A k \in DOMAIN Q : Q[k].text => input.text /\ k = Len(Q) /\ Q[k].keyboard = input.keyboard
    BY <2>2, <2>3 DEF WellSent
  <2>5. ASSUME NEW type \in ToSet(Types)
        PROVE  FilesSent(Q, type) = Interval(1, input.media[type])
    <3>1. type \in {"photo", "document"}
      BY DEF Types, ToSet
    <3>2. Sends(Q, type, input.media[type])
      BY <2>2, <3>1 DEF WellSent
    <3>3. PICK e : Carries(Q, type, e) /\ e[Len(Q)] = input.media[type]
      BY <3>2 DEF Sends
    <3> QED
      BY <2>3, <3>3, CarriedFiles
  <2>6. input.text => Q # <<>> /\ Last(Q).text /\ Last(Q).keyboard = input.keyboard
    <3>1. Q # <<>> => Len(Q) \in DOMAIN Q /\ Last(Q) = Q[Len(Q)]
      BY <2>3 DEF Last
    <3> QED
      BY <2>2, <2>4, <3>1
  <2> QED
    BY <2>4, <2>5, <2>6 DEF SentOnce, Q
<1> QED
  BY <1>1, MessagesInv, PTL

-----------------------------------------------------------------------------
(* The keyboard of a message.                                               *)

\* The elements of an interval are in a strict order, total and transitive.
Orders(n, R) ==
    /\ \A a \in 1 .. n : <<a, a>> \notin R
    /\ \A a, b \in 1 .. n : a = b \/ <<a, b>> \in R \/ <<b, a>> \in R
    /\ \A a, b, c \in 1 .. n : <<a, b>> \in R /\ <<b, c>> \in R => <<a, c>> \in R

\* They are listed in that order.
Lists(n, R, s) ==
    /\ s \in [1 .. n -> 1 .. n]
    /\ \A i, j \in 1 .. n : i < j => <<s[i], s[j]>> \in R

\* Such a list has every element.
LEMMA ListsAll ==
  ASSUME NEW n \in Nat, NEW R, Orders(n, R), NEW s, Lists(n, R, s)
  PROVE  \A a \in 1 .. n : \E i \in 1 .. n : s[i] = a
<1>1. IsFiniteSet(1 .. n)
  BY FS_Interval
<1>2. ASSUME NEW i \in 1 .. n, NEW j \in 1 .. n, s[i] = s[j] PROVE i = j
  <2>1. i < j \/ j < i \/ i = j
    OBVIOUS
  <2> QED
    BY <1>2, <2>1 DEF Lists, Orders
<1>3. s \in Injection(1 .. n, 1 .. n)
  BY <1>2 DEF Injection, IsInjective, Lists
<1>4. s \in Surjection(1 .. n, 1 .. n)
  BY <1>1, <1>3, FS_Injection
<1> QED
  BY <1>4 DEF Surjection

\* There is one: an element stands behind as many as precede it.
LEMMA ListExists ==
  ASSUME NEW n \in Nat, NEW R, Orders(n, R)
  PROVE  \E s : Lists(n, R, s)
<1> DEFINE Before(a) == {b \in 1 .. n : <<b, a>> \in R}
           rank == [a \in 1 .. n |-> Cardinality(Before(a)) + 1]
           s == [i \in 1 .. n |-> CHOOSE a \in 1 .. n : rank[a] = i]
<1>1. IsFiniteSet(1 .. n) /\ Cardinality(1 .. n) = n
  BY FS_Interval
<1>2. ASSUME NEW a \in 1 .. n PROVE rank[a] \in 1 .. n
  <2>1. Before(a) \in SUBSET (1 .. n) /\ a \notin Before(a)
    BY DEF Orders
  <2> HIDE DEF Before
  <2>2. IsFiniteSet(Before(a)) /\ Cardinality(Before(a)) <= n
    BY <1>1, <2>1, FS_Subset
  <2>3. Cardinality(Before(a)) \in Nat
    BY <2>2, FS_CardinalityType
  <2>4. Cardinality(Before(a)) # n
    BY <1>1, <2>1, FS_Subset
  <2> QED
    BY <2>2, <2>3, <2>4
<1>3. ASSUME NEW a \in 1 .. n, NEW b \in 1 .. n, <<a, b>> \in R PROVE rank[a] < rank[b]
  <2>1. Before(a) \in SUBSET Before(b)
    BY <1>3 DEF Orders
  <2>2. a \in Before(b) /\ a \notin Before(a)
    BY <1>3 DEF Orders
  <2>3. Before(b) \in SUBSET (1 .. n)
    OBVIOUS
  <2> HIDE DEF Before
  <2>4. IsFiniteSet(Before(b)) /\ IsFiniteSet(Before(a))
    BY <1>1, <2>1, <2>3, FS_Subset
  <2>5. Cardinality(Before(a)) \in Nat /\ Cardinality(Before(b)) \in Nat
    BY <2>4, FS_CardinalityType
  <2>6. Cardinality(Before(a)) <= Cardinality(Before(b)) /\ Cardinality(Before(a)) # Cardinality(Before(b))
    BY <2>1, <2>2, <2>4, FS_Subset
  <2> QED
    BY <2>5, <2>6
<1> HIDE DEF Before
<1>4. rank \in [1 .. n -> 1 .. n]
  BY <1>2
<1>5. ASSUME NEW a \in 1 .. n, NEW b \in 1 .. n, rank[a] <= rank[b] PROVE a = b \/ <<a, b>> \in R
  <2>1. CASE <<b, a>> \in R
    <3>1. rank[b] < rank[a] /\ rank[a] \in 1 .. n /\ rank[b] \in 1 .. n
      BY <1>2, <1>3, <2>1
    <3> HIDE DEF rank
    <3> QED
      BY <1>5, <3>1
  <2> QED
    BY <2>1 DEF Orders
<1> HIDE DEF rank
<1>6. rank \in Injection(1 .. n, 1 .. n)
  <2>1. ASSUME NEW a \in 1 .. n, NEW b \in 1 .. n, rank[a] = rank[b] PROVE a = b
    <3>1. rank[a] \in 1 .. n /\ rank[b] \in 1 .. n
      BY <1>4
    <3>2. rank[a] <= rank[b] /\ ~(rank[a] < rank[b])
      BY <2>1, <3>1
    <3> QED
      BY <1>3, <1>5, <3>2
  <2> QED
    BY <1>4, <2>1 DEF Injection, IsInjective
<1>7. \A i \in 1 .. n : \E a \in 1 .. n : rank[a] = i
  <2>1. rank \in Surjection(1 .. n, 1 .. n)
    BY <1>1, <1>6, FS_Injection
  <2> QED
    BY <2>1 DEF Surjection
<1>8. \A i \in 1 .. n : s[i] \in 1 .. n /\ rank[s[i]] = i
  BY <1>7
<1>9. s \in [1 .. n -> 1 .. n]
  BY <1>8
<1> HIDE DEF s
<1>10. ASSUME NEW i \in 1 .. n, NEW j \in 1 .. n, i < j PROVE <<s[i], s[j]>> \in R
  <2>1. s[i] # s[j] /\ rank[s[i]] <= rank[s[j]]
    BY <1>8, <1>10
  <2> QED
    BY <1>5, <1>8, <2>1
<1>11. Lists(n, R, s)
  BY <1>9, <1>10 DEF Lists
<1> QED
  BY <1>11

Placed == [row : Nat, position : Nat]

\* The order of the buttons of a keyboard: by their places, then as they are given.
Order(n, buttons) == {pair \in (1 .. n) \X (1 .. n) :
    \/ InOrderOfPlace(buttons[pair[1]], buttons[pair[2]])
    \/ ~InOrderOfPlace(buttons[pair[2]], buttons[pair[1]]) /\ pair[1] < pair[2]}

\* It is one, and they are sorted by it.
LEMMA SortedLists ==
  ASSUME NEW n \in Nat, NEW buttons \in [1 .. n -> Placed]
  PROVE  Orders(n, Order(n, buttons)) /\ Lists(n, Order(n, buttons), Sorted(buttons))
<1> DEFINE R == Order(n, buttons)
           Good(s) == \A i, j \in 1 .. n : i < j =>
               \/ InOrderOfPlace(buttons[s[i]], buttons[s[j]])
               \/ ~InOrderOfPlace(buttons[s[j]], buttons[s[i]]) /\ s[i] < s[j]
           chosen == CHOOSE s \in [1 .. n -> 1 .. n] : Good(s)
<1>1. \A a \in 1 .. n : buttons[a].row \in Nat /\ buttons[a].position \in Nat
  BY DEF Placed
<1>2. \A a, b \in 1 .. n : <<a, b>> \in R <=>
         \/ buttons[a].row < buttons[b].row
         \/ buttons[a].row = buttons[b].row /\ buttons[a].position < buttons[b].position
         \/ buttons[a].row = buttons[b].row /\ buttons[a].position = buttons[b].position /\ a < b
  <2> TAKE a, b \in 1 .. n
  <2>1. <<a, b>> \in R <=> \/ InOrderOfPlace(buttons[a], buttons[b])
                           \/ ~InOrderOfPlace(buttons[b], buttons[a]) /\ a < b
    BY DEF Order
  <2> QED
    BY <1>1, <2>1 DEF InOrderOfPlace
<1> HIDE DEF R
<1>3. Orders(n, R)
  <2>1. \A a \in 1 .. n : <<a, a>> \notin R
    BY <1>1, <1>2
  <2>2. \A a, b \in 1 .. n : a = b \/ <<a, b>> \in R \/ <<b, a>> \in R
    <3> TAKE a, b \in 1 .. n
    <3> QED
      BY <1>1, <1>2, SMTT(30)
  <2>3. \A a, b, c \in 1 .. n : <<a, b>> \in R /\ <<b, c>> \in R => <<a, c>> \in R
    <3> SUFFICES ASSUME NEW a \in 1 .. n, NEW b \in 1 .. n, NEW c \in 1 .. n,
                        <<a, b>> \in R, <<b, c>> \in R
                 PROVE  <<a, c>> \in R
      OBVIOUS
    <3>1. buttons[a].row <= buttons[b].row /\ buttons[b].row <= buttons[c].row
      BY <1>1, <1>2
    <3>2. CASE buttons[a].row < buttons[c].row
      BY <1>2, <3>2
    <3>3. CASE buttons[a].row = buttons[c].row
      <4>1. buttons[a].row = buttons[b].row /\ buttons[b].row = buttons[c].row
        BY <1>1, <3>1, <3>3
      <4>2. /\ buttons[a].position < buttons[b].position \/ (buttons[a].position = buttons[b].position /\ a < b)
            /\ buttons[b].position < buttons[c].position \/ (buttons[b].position = buttons[c].position /\ b < c)
        BY <1>1, <1>2, <4>1
      <4>3. buttons[a].position < buttons[c].position \/ (buttons[a].position = buttons[c].position /\ a < c)
        BY <1>1, <4>2
      <4> QED
        BY <1>2, <3>3, <4>3
    <3> QED
      BY <1>1, <3>1, <3>2, <3>3
  <2> QED
    BY <2>1, <2>2, <2>3 DEF Orders
<1>4. \A s \in [1 .. n -> 1 .. n] : Good(s) <=> Lists(n, R, s)
  BY DEF Lists, Order, R
<1>5. \E s \in [1 .. n -> 1 .. n] : Good(s)
  <2>1. PICK s : Lists(n, R, s)
    BY <1>3, ListExists
  <2> HIDE DEF Good
  <2> QED
    BY <1>4, <2>1 DEF Lists
<1>6. chosen \in [1 .. n -> 1 .. n] /\ Good(chosen)
  <2> HIDE DEF Good
  <2> QED
    BY <1>5
<1>7. Sorted(buttons) = chosen
  <2>1. DOMAIN buttons = 1 .. n
    OBVIOUS
  <2> QED
    BY <2>1 DEF Sorted
<1> HIDE DEF chosen, Good
<1> QED
  BY <1>3, <1>4, <1>6, <1>7 DEF R

RowAt(keyboard, row) == IF row <= Len(keyboard) THEN keyboard[row] ELSE <<>>

\* A button is added to its row, which becomes the last one if there was none.
GrowsBy(keyboard, button, row, new) ==
    /\ Len(new) = IF row > Len(keyboard) THEN row ELSE Len(keyboard)
    /\ \A k \in 1 .. Len(new) :
          new[k] = IF k = row THEN Append(RowAt(keyboard, k), button) ELSE RowAt(keyboard, k)

LEMMA ButtonAdded ==
  ASSUME NEW B, NEW keyboard \in Seq(Seq(B)), NEW button \in B, NEW row \in Nat, row > 0
  PROVE  /\ WithButton(keyboard, button, row) \in Seq(Seq(B))
         /\ GrowsBy(keyboard, button, row, WithButton(keyboard, button, row))
<1> DEFINE long == IF row > Len(keyboard) THEN row ELSE Len(keyboard)
           Before(k) == RowAt(keyboard, k)
           New(k) == IF k = row THEN Append(Before(k), button) ELSE Before(k)
<1>1. long \in Nat /\ Len(keyboard) + (IF row > Len(keyboard) THEN row - Len(keyboard) ELSE 0) = long
  OBVIOUS
<1>2. \A k \in 1 .. long : Before(k) \in Seq(B)
  <2> TAKE k \in 1 .. long
  <2>1. k <= Len(keyboard) => keyboard[k] \in Seq(B)
    OBVIOUS
  <2>2. <<>> \in Seq(B)
    OBVIOUS
  <2> QED
    BY <2>1, <2>2 DEF RowAt
<1>3. \A s \in Seq(B) : s \o <<button>> = Append(s, button) /\ s \o <<>> = s /\ Append(s, button) \in Seq(B)
  OBVIOUS
<1>4. WithButton(keyboard, button, row)
        = [k \in 1 .. long |-> Before(k) \o (IF k = row THEN <<button>> ELSE <<>>)]
  BY <1>1 DEF WithButton, RowAt
<1> HIDE DEF long, Before
<1>5. \A k \in 1 .. long : Before(k) \o (IF k = row THEN <<button>> ELSE <<>>) = New(k) /\ New(k) \in Seq(B)
  BY <1>2, <1>3
<1>6. WithButton(keyboard, button, row) = [k \in 1 .. long |-> New(k)]
  BY <1>4, <1>5
<1>7. [k \in 1 .. long |-> New(k)] \in Seq(Seq(B)) /\ Len([k \in 1 .. long |-> New(k)]) = long
  <2> HIDE DEF New
  <2> QED
    BY <1>1, <1>5
<1> QED
  BY <1>6, <1>7 DEF GrowsBy, long, Before

\* The keyboard so far, after each button in their order.
RowsBy(n, buttons) == \E at \in [0 .. n -> Seq(Seq(1 .. n))] :
    /\ at[0] = <<>> /\ Keyboard(buttons) = at[n]
    /\ \A i \in 1 .. n : LET b == Sorted(buttons)[i] IN at[i] = WithButton(at[i - 1], b, buttons[b].row + 1)

LEMMA RowsStages ==
  ASSUME NEW n \in Nat, NEW buttons \in [1 .. n -> Placed]
  PROVE  RowsBy(n, buttons)
<1> DEFINE s == Sorted(buttons)
           X == Seq(Seq(1 .. n))
           Then(i, rows) == WithButton(rows, s[i], buttons[s[i]].row + 1)
           step == [i \in 1 .. n |-> [rows \in X |-> Then(i, rows)]]
           Eqn(iter) == iter = [t \in SUBSET (1 .. n) |-> IF t = {} THEN <<>>
                                   ELSE Then(Max(t), iter[t \ {Max(t)}])]
           chosen == CHOOSE iter : Eqn(iter)
<1>0. s \in [1 .. n -> 1 .. n]
  BY SortedLists DEF Lists
<1>12. \A b \in 1 .. n : buttons[b].row \in Nat
  BY DEF Placed
<1>1. <<>> \in X /\ \A i \in 1 .. n : \A rows \in X : Then(i, rows) \in X
  <2>1. <<>> \in X
    OBVIOUS
  <2>2. ASSUME NEW i \in 1 .. n, NEW rows \in X PROVE Then(i, rows) \in X
    <3>1. s[i] \in 1 .. n /\ buttons[s[i]].row + 1 \in Nat /\ buttons[s[i]].row + 1 > 0
      BY <1>0, <1>12
    <3> HIDE DEF s
    <3> QED
      BY <3>1, ButtonAdded
  <2> QED
    BY <2>1, <2>2
<1>2. Keyboard(buttons) = chosen[1 .. n]
  <2>1. DOMAIN s = 1 .. n
    BY <1>0
  <2> QED
    BY <2>1 DEF Keyboard, FoldLeft, MapThenFoldSet
<1> HIDE DEF s, X
<1>13. step \in [1 .. n -> [X -> X]] /\ \A i \in 1 .. n : \A rows \in X : step[i][rows] = Then(i, rows)
  <2> HIDE DEF Then
  <2> QED
    BY <1>1
<1>3. HasStages(n, X, <<>>, step)
  <2> HIDE DEF step
  <2> QED
    BY <1>1, <1>13, StepByStep, Zenon
<1>4. PICK at \in [0 .. n -> X], iter \in [SUBSET (1 .. n) -> X] :
        /\ at[0] = <<>> /\ \A i \in 1 .. n : at[i] = step[i][at[i - 1]]
        /\ IsFold(iter, 1 .. n, <<>>, Largest(n), step)
        /\ \A f : Follows(f, 1 .. n, X, <<>>, Largest(n), step) => f[1 .. n] = at[n]
  <2> HIDE DEF step
  <2> QED
    BY <1>3, Zenon DEF HasStages
<1>5. \A t \in (SUBSET (1 .. n)) \ {{}} :
         Largest(n)[t] = Max(t) /\ Max(t) \in 1 .. n /\ t \ {Max(t)} \in SUBSET (1 .. n)
  BY MaxOf DEF Largest
<1>6. Eqn(iter)
  <2>1. iter[{}] = <<>>
    BY <1>4 DEF IsFold
  <2>2. ASSUME NEW t \in (SUBSET (1 .. n)) \ {{}}
        PROVE  iter[t] = Then(Max(t), iter[t \ {Max(t)}])
    <3> HIDE DEF step, Then
    <3>1. iter[t] = step[Max(t)][iter[t \ {Max(t)}]]
      BY <1>4, <1>5 DEF IsFold
    <3>2. iter[t \ {Max(t)}] \in X
      BY <1>5
    <3> QED
      BY <3>1, <3>2, <1>13, <1>5
  <2> HIDE DEF step, Then
  <2> QED
    BY <2>1, <2>2
<1>7. Eqn(chosen)
  <2> HIDE DEF Eqn
  <2> QED
    BY <1>6
<1> HIDE DEF chosen
<1>8. Follows(chosen, 1 .. n, X, <<>>, Largest(n), step)
  <2>1. chosen[{}] = <<>>
    BY <1>7
  <2>2. ASSUME NEW t \in (SUBSET (1 .. n)) \ {{}}, chosen[t \ {Largest(n)[t]}] \in X
        PROVE  chosen[t] = step[Largest(n)[t]][chosen[t \ {Largest(n)[t]}]]
    <3> HIDE DEF step, Then
    <3>1. Largest(n)[t] = Max(t) /\ Max(t) \in 1 .. n
      BY <1>5
    <3>2. chosen[t] = Then(Max(t), chosen[t \ {Max(t)}])
      BY <1>7
    <3> QED
      BY <3>1, <3>2, <1>13, <2>2
  <2> HIDE DEF step
  <2> QED
    BY <2>1, <2>2 DEF Follows
<1>9. chosen[1 .. n] = at[n]
  <2> HIDE DEF step
  <2> QED
    BY <1>4, <1>8, Zenon
<1>10. ASSUME NEW i \in 1 .. n PROVE at[i] = Then(i, at[i - 1])
  <2> HIDE DEF step, Then
  <2>1. at[i - 1] \in X
    OBVIOUS
  <2> QED
    BY <2>1, <1>13, <1>4
<1>11. at \in [0 .. n -> X] /\ at[0] = <<>> /\ Keyboard(buttons) = at[n]
  BY <1>2, <1>4, <1>9
<1>14. \A i \in 1 .. n : LET b == s[i] IN at[i] = WithButton(at[i - 1], b, buttons[b].row + 1)
  BY <1>10
<1> HIDE DEF step, Then
<1> QED
  BY <1>11, <1>14, Zenon DEF RowsBy, s, X

\* A row that has the buttons of this number among the first ones of a list, in its order.
RowHas(shown, row, m, n, buttons, s) ==
    /\ shown \in Seq(1 .. n)
    /\ \A b \in 1 .. n : (\E k \in 1 .. Len(shown) : shown[k] = b)
                         <=> buttons[b].row + 1 = row /\ \E i \in 1 .. m : s[i] = b
    /\ \A k, l \in 1 .. Len(shown) : k < l => <<shown[k], shown[l]>> \in Order(n, buttons)

\* So do all rows, and the last of them is that of the last button.
Shows(keyboard, m, n, buttons, s) ==
    /\ Len(keyboard) = IF m = 0 THEN 0 ELSE buttons[s[m]].row + 1
    /\ \A row \in Nat \ {0} : RowHas(RowAt(keyboard, row), row, m, n, buttons, s)

\* A button that comes behind them is the last of its row.
LEMMA RowGrows ==
  ASSUME NEW n \in Nat, NEW buttons \in [1 .. n -> Placed], NEW s, Lists(n, Order(n, buttons), s),
         NEW m \in Nat, m + 1 <= n, NEW row \in Nat \ {0}, NEW shown,
         RowHas(shown, row, m, n, buttons, s)
  PROVE  RowHas(IF row = buttons[s[m + 1]].row + 1 THEN Append(shown, s[m + 1]) ELSE shown,
                row, m + 1, n, buttons, s)
<1> DEFINE b == s[m + 1]
           Among(i, x) == \E j \in 1 .. i : s[j] = x
           more == Append(shown, b)
<1>1. m + 1 \in 1 .. n /\ b \in 1 .. n /\ \A i \in 1 .. m : i \in 1 .. n /\ i < m + 1
  BY DEF Lists
<1>2. \A x : Among(m + 1, x) <=> Among(m, x) \/ x = b
  <2> TAKE x
  <2>1. \A j : j \in 1 .. (m + 1) <=> j \in 1 .. m \/ j = m + 1
    OBVIOUS
  <2> QED
    BY <2>1
<1>3. /\ shown \in Seq(1 .. n)
      /\ \A x \in 1 .. n : (\E k \in 1 .. Len(shown) : shown[k] = x)
                           <=> buttons[x].row + 1 = row /\ Among(m, x)
      /\ \A k, l \in 1 .. Len(shown) : k < l => <<shown[k], shown[l]>> \in Order(n, buttons)
  BY Zenon DEF RowHas
<1>7. Len(shown) \in Nat
  BY <1>3
<1>4. \A x \in 1 .. n : Among(m, x) => <<x, b>> \in Order(n, buttons)
  BY <1>1 DEF Lists
<1> HIDE DEF b, Among
<1>5. CASE row # buttons[b].row + 1
  <2>1. \A x \in 1 .. n : (\E k \in 1 .. Len(shown) : shown[k] = x)
                          <=> buttons[x].row + 1 = row /\ Among(m + 1, x)
    BY <1>2, <1>3, <1>5
  <2>2. RowHas(shown, row, m + 1, n, buttons, s)
    BY <1>3, <2>1 DEF RowHas, Among
  <2> QED
    BY <1>5, <2>2 DEF b
<1>6. CASE row = buttons[b].row + 1
  <2>1. /\ more \in Seq(1 .. n) /\ Len(more) = Len(shown) + 1 /\ more[Len(shown) + 1] = b
        /\ \A k \in 1 .. Len(shown) : more[k] = shown[k] /\ shown[k] \in 1 .. n
    BY <1>1, <1>3, <1>7
  <2> HIDE DEF more
  <2>2. \A k : k \in 1 .. Len(more) <=> k \in 1 .. Len(shown) \/ k = Len(shown) + 1
    BY <1>7, <2>1
  <2>3. \A x \in 1 .. n : (\E k \in 1 .. Len(more) : more[k] = x)
                          <=> (\E k \in 1 .. Len(shown) : shown[k] = x) \/ x = b
    BY <2>1, <2>2
  <2>4. \A x \in 1 .. n : (\E k \in 1 .. Len(more) : more[k] = x)
                          <=> buttons[x].row + 1 = row /\ Among(m + 1, x)
    BY <1>2, <1>3, <1>6, <2>3
  <2>5. ASSUME NEW k \in 1 .. Len(more), NEW l \in 1 .. Len(more), k < l
        PROVE  <<more[k], more[l]>> \in Order(n, buttons)
    <3>1. k \in 1 .. Len(shown)
      BY <1>7, <2>1, <2>5
    <3>2. CASE l \in 1 .. Len(shown)
      BY <1>3, <2>1, <2>5, <3>1, <3>2
    <3>3. CASE l = Len(shown) + 1
      <4>1. shown[k] \in 1 .. n /\ Among(m, shown[k])
        BY <1>3, <2>1, <3>1
      <4> QED
        BY <1>4, <2>1, <3>1, <3>3, <4>1
    <3> QED
      BY <2>2, <3>2, <3>3
  <2>6. RowHas(more, row, m + 1, n, buttons, s)
    BY <2>1, <2>4, <2>5 DEF RowHas, Among
  <2> QED
    BY <1>6, <2>6 DEF b, more
<1> QED
  BY <1>5, <1>6

\* So the keyboard shows the buttons that have been added, after each of them.
LEMMA KeyboardShows ==
  ASSUME NEW n \in Nat, NEW buttons \in [1 .. n -> Placed]
  PROVE  /\ Keyboard(buttons) \in Seq(Seq(1 .. n))
         /\ Shows(Keyboard(buttons), n, n, buttons, Sorted(buttons))
<1> DEFINE s == Sorted(buttons)
<1>1. Lists(n, Order(n, buttons), s)
  BY SortedLists
<1>2. PICK at \in [0 .. n -> Seq(Seq(1 .. n))] :
        /\ at[0] = <<>> /\ Keyboard(buttons) = at[n]
        /\ \A i \in 1 .. n : at[i] = WithButton(at[i - 1], s[i], buttons[s[i]].row + 1)
  BY RowsStages DEF RowsBy
<1> HIDE DEF s
<1>3. \A b \in 1 .. n : buttons[b].row \in Nat
  BY DEF Placed
<1> DEFINE T == {m \in Nat : m <= n => Shows(at[m], m, n, buttons, s)}
<1>4. 0 \in T
  <2>1. \A row \in Nat \ {0} : RowAt(<<>>, row) = <<>>
    BY DEF RowAt
  <2>2. \A row \in Nat \ {0} : RowHas(<<>>, row, 0, n, buttons, s)
    BY DEF RowHas
  <2> QED
    BY <1>2, <2>1, <2>2 DEF Shows
<1>5. ASSUME NEW m \in Nat, m \in T PROVE m + 1 \in T
  <2> SUFFICES ASSUME m + 1 <= n PROVE Shows(at[m + 1], m + 1, n, buttons, s)
    OBVIOUS
  <2> DEFINE b == s[m + 1]
             row == buttons[b].row + 1
  <2>1. m + 1 \in 1 .. n /\ m \in 0 .. n /\ (m + 1) - 1 = m /\ m <= n
    OBVIOUS
  <2>2. b \in 1 .. n /\ row \in Nat \ {0} /\ row > 0
    <3>1. b \in 1 .. n
      BY <1>1, <2>1 DEF Lists
    <3> HIDE DEF b
    <3> QED
      BY <1>3, <3>1
  <2>3. at[m + 1] = WithButton(at[m], b, row) /\ at[m] \in Seq(Seq(1 .. n))
    BY <1>2, <2>1
  <2>4. Shows(at[m], m, n, buttons, s)
    BY <1>5, <2>1
  <2>5. Len(at[m]) <= row
    <3>1. CASE m = 0
      BY <2>2, <2>4, <3>1 DEF Shows
    <3>2. CASE m # 0
      <4>1. m \in 1 .. n /\ m < m + 1
        BY <2>1, <3>2
      <4>2. s[m] \in 1 .. n /\ <<s[m], b>> \in Order(n, buttons)
        BY <1>1, <2>1, <4>1 DEF Lists
      <4>3. buttons[s[m]].row <= buttons[b].row
        <5> HIDE DEF b
        <5>1. \/ InOrderOfPlace(buttons[s[m]], buttons[b])
              \/ ~InOrderOfPlace(buttons[b], buttons[s[m]])
          BY <2>2, <4>2 DEF Order
        <5>2. buttons[s[m]].row \in Nat /\ buttons[b].row \in Nat
          BY <1>3, <2>2, <4>2
        <5> QED
          BY <5>1, <5>2 DEF InOrderOfPlace
      <4> QED
        <5>1. Len(at[m]) = buttons[s[m]].row + 1
          BY <2>4, <3>2 DEF Shows
        <5>2. buttons[s[m]].row \in Nat /\ buttons[b].row \in Nat
          BY <1>3, <2>2, <4>2
        <5>3. row = buttons[b].row + 1
          OBVIOUS
        <5> HIDE DEF b, row
        <5>4. \A x, y \in Nat : x <= y => x + 1 <= y + 1
          OBVIOUS
        <5>5. buttons[s[m]].row + 1 <= buttons[b].row + 1
          BY <4>3, <5>2, <5>4, Zenon
        <5> QED
          BY <5>1, <5>3, <5>5, Zenon
    <3> QED
      BY <3>1, <3>2
  <2> HIDE DEF row, b
  <2>6. /\ Len(at[m + 1]) = row
        /\ \A k \in 1 .. row : at[m + 1][k]
             = IF k = row THEN Append(RowAt(at[m], k), b) ELSE RowAt(at[m], k)
    <3> DEFINE W == WithButton(at[m], b, row)
    <3>1. Len(at[m]) \in Nat /\ (IF row > Len(at[m]) THEN row ELSE Len(at[m])) = row
      BY <2>2, <2>3, <2>5
    <3>4. GrowsBy(at[m], b, row, W)
      BY <2>2, <2>3, ButtonAdded, Zenon
    <3> HIDE DEF W
    <3>2. /\ Len(W) = IF row > Len(at[m]) THEN row ELSE Len(at[m])
          /\ \A k \in 1 .. Len(W) :
                W[k] = IF k = row THEN Append(RowAt(at[m], k), b) ELSE RowAt(at[m], k)
      BY <3>4, Zenon DEF GrowsBy
    <3>3. Len(W) = row
      BY <3>1, <3>2, Zenon
    <3> QED
      BY <2>3, <3>2, <3>3, Zenon DEF W
  <2>7. ASSUME NEW k \in Nat \ {0} PROVE RowHas(RowAt(at[m + 1], k), k, m + 1, n, buttons, s)
    <3>1. RowHas(RowAt(at[m], k), k, m, n, buttons, s)
      BY <2>4 DEF Shows
    <3>2. RowAt(at[m + 1], k) = IF k = row THEN Append(RowAt(at[m], k), b) ELSE RowAt(at[m], k)
      <4>1. CASE k <= row
        <5>1. row \in Nat
          BY <2>2
        <5>2. k \in 1 .. row
          BY <4>1, <5>1
        <5>3. RowAt(at[m + 1], k) = at[m + 1][k]
          BY <2>6, <4>1, ZenonT(30) DEF RowAt
        <5> QED
          BY <2>6, <5>2, <5>3, ZenonT(30)
      <4>2. CASE ~(k <= row)
        <5>1. ~(k <= Len(at[m])) /\ k # row
          BY <2>2, <2>3, <2>5, <4>2
        <5> QED
          BY <2>6, <4>2, <5>1 DEF RowAt
      <4> QED
        BY <4>1, <4>2, ZenonT(30)
    <3> QED
      BY <1>1, <3>1, <3>2, RowGrows DEF row, b
  <2> QED
    BY <2>1, <2>6, <2>7 DEF Shows, row, b
<1>6. Shows(at[n], n, n, buttons, s)
  <2> HIDE DEF T
  <2>1. n \in T
    BY <1>4, <1>5, SetInduction
  <2> QED
    BY <2>1 DEF T
<1> QED
  BY <1>2, <1>6 DEF s

Placing == subject = "keyboard" => input \in Seq(Placed)

LEMMA PlacingInv == Inputs => []Placing
<1>1. Blank => Placing
  BY DEF Blank, Nothings, Placing
<1>2. Placing /\ [Longer]_<<subject, input>> => Placing'
  <2> SUFFICES ASSUME Placing, [Longer]_<<subject, input>>, subject = "keyboard"
               PROVE  input' \in Seq(Placed)
    BY GrowsAlone DEF Placing
  <2>1. input' = input \/ AddButton
    BY GrowsAlone
  <2>2. CASE AddButton
    <3>1. PICK button \in [row : 0 .. 2, position : 0 .. 1] : input' = Append(input, button)
      BY <2>2 DEF AddButton, Grow
    <3>2. button \in Placed
      BY DEF Placed
    <3> QED
      BY <3>1, <3>2 DEF Placing
  <2> QED
    BY <2>1, <2>2 DEF Placing
<1> QED
  BY <1>1, <1>2, PTL DEF Inputs

\* Each button is shown once, in its row and in the order of positions, those at the same
\* place in the order they were given in, and rows go up to the last one that is used.
THEOREM ButtonsPlacedCorrect == Inputs => []ButtonsPlaced
<1>1. Placing => ButtonsPlaced
  <2> SUFFICES ASSUME Placing, subject = "keyboard" PROVE ButtonsPlaced
    BY DEF ButtonsPlaced
  <2> DEFINE n == Len(input)
             K == Keyboard(input)
             s == Sorted(input)
             Rows == {0} \cup {input[b].row + 1 : b \in DOMAIN input}
  <2>1. n \in Nat /\ input \in [1 .. n -> Placed] /\ DOMAIN input = 1 .. n
    BY DEF Placing
  <2> HIDE DEF n
  <2>2. Orders(n, Order(n, input)) /\ Lists(n, Order(n, input), s)
    BY <2>1, SortedLists
  <2>3. K \in Seq(Seq(1 .. n)) /\ Shows(K, n, n, input, s)
    BY <2>1, KeyboardShows
  <2>4. \A b \in 1 .. n : input[b].row \in Nat /\ input[b].position \in Nat
    BY <2>1 DEF Placed
  <2>5. \A b \in 1 .. n : \E i \in 1 .. n : s[i] = b
    BY <2>1, <2>2, ListsAll
  <2> HIDE DEF K, s
  <2>6. Len(K) = Max(Rows)
    <3>1. Len(K) \in Rows /\ \A r \in Rows : r <= Len(K)
      <4>1. CASE n = 0
        BY <2>1, <2>3, <4>1 DEF Shows
      <4>2. CASE n # 0
        <5>1. n \in 1 .. n /\ s[n] \in 1 .. n
          BY <2>1, <2>2, <4>2 DEF Lists
        <5>2. Len(K) = input[s[n]].row + 1
          BY <2>3, <4>2 DEF Shows
        <5>3. ASSUME NEW b \in 1 .. n PROVE input[b].row + 1 <= input[s[n]].row + 1
          <6>1. PICK i \in 1 .. n : s[i] = b
            BY <2>5
          <6>2. CASE i = n
            BY <2>4, <5>1, <6>1, <6>2
          <6>3. CASE i < n
            <7>1. <<b, s[n]>> \in Order(n, input)
              BY <2>2, <5>1, <6>1, <6>3 DEF Lists
            <7>2. \/ InOrderOfPlace(input[b], input[s[n]])
                  \/ ~InOrderOfPlace(input[s[n]], input[b])
              BY <7>1 DEF Order
            <7>3. input[b].row <= input[s[n]].row
              BY <2>4, <5>1, <7>2 DEF InOrderOfPlace
            <7> QED
              BY <2>4, <5>1, <7>3
          <6> QED
            BY <2>1, <6>2, <6>3
        <5>4. Len(K) \in Rows
          BY <2>1, <5>1, <5>2
        <5>5. ASSUME NEW r \in Rows PROVE r <= Len(K)
          <6>1. CASE r = 0
            BY <2>4, <5>1, <5>2, <6>1
          <6>2. CASE r # 0
            <7>1. PICK b \in 1 .. n : r = input[b].row + 1
              BY <2>1, <6>2
            <7> QED
              BY <5>2, <5>3, <7>1
          <6> QED
            BY <6>1, <6>2
        <5> QED
          BY <5>4, <5>5
      <4> QED
        BY <4>1, <4>2
    <3>2. Rows \subseteq Nat
      BY <2>1, <2>4
    <3> HIDE DEF Rows
    <3>3. \A r \in Rows : (\A x \in Rows : r >= x) => r = Len(K)
      BY <3>1, <3>2
    <3> QED
      BY <3>1, <3>2, <3>3 DEF Max
  <2>7. ASSUME NEW row \in DOMAIN K
        PROVE  /\ ToSet(K[row]) = {b \in DOMAIN input : input[b].row + 1 = row}
               /\ \A i, j \in DOMAIN K[row] : i < j =>
                    \/ input[K[row][i]].position < input[K[row][j]].position
                    \/ input[K[row][i]].position = input[K[row][j]].position /\ K[row][i] < K[row][j]
    <3>1. row \in Nat \ {0} /\ RowAt(K, row) = K[row] /\ K[row] \in Seq(1 .. n)
      BY <2>3 DEF RowAt
    <3> DEFINE shown == K[row]
    <3>2. RowHas(shown, row, n, n, input, s)
      BY <2>3, <3>1 DEF Shows
    <3> HIDE DEF shown
    <3>3. DOMAIN shown = 1 .. Len(shown) /\ \A k \in DOMAIN shown : shown[k] \in 1 .. n
      <4>1. shown \in Seq(1 .. n)
        BY <3>2, Zenon DEF RowHas
      <4>2. \A B : \A t \in Seq(B) : DOMAIN t = 1 .. Len(t) /\ \A k \in DOMAIN t : t[k] \in B
        OBVIOUS
      <4> QED
        BY <4>1, <4>2, Zenon
    <3>4. \A b \in 1 .. n : (\E k \in DOMAIN shown : shown[k] = b) <=> input[b].row + 1 = row
      BY <2>5, <3>2, <3>3 DEF RowHas
    <3>5. ToSet(shown) = {b \in DOMAIN input : input[b].row + 1 = row}
      BY <2>1, <3>3, <3>4 DEF ToSet
    <3>6. ASSUME NEW i \in DOMAIN shown, NEW j \in DOMAIN shown, i < j
          PROVE  \/ input[shown[i]].position < input[shown[j]].position
                 \/ input[shown[i]].position = input[shown[j]].position /\ shown[i] < shown[j]
      <4>1. <<shown[i], shown[j]>> \in Order(n, input)
        BY <3>2, <3>3, <3>6 DEF RowHas
      <4>2. \/ InOrderOfPlace(input[shown[i]], input[shown[j]])
            \/ ~InOrderOfPlace(input[shown[j]], input[shown[i]]) /\ shown[i] < shown[j]
        BY <4>1 DEF Order
      <4>3. shown[i] \in 1 .. n /\ shown[j] \in 1 .. n
        BY <3>3
      <4>4. input[shown[i]].row + 1 = row /\ input[shown[j]].row + 1 = row
        BY <3>4, <4>3
      <4>5. input[shown[i]].row = input[shown[j]].row
        BY <2>4, <4>3, <4>4
      <4> QED
        BY <2>4, <4>2, <4>3, <4>5 DEF InOrderOfPlace
    <3> QED
      BY <3>5, <3>6 DEF shown
  <2> QED
    BY <2>6, <2>7 DEF ButtonsPlaced, K
<1> QED
  BY <1>1, PlacingInv, PTL

-----------------------------------------------------------------------------
(* Sequences that are put together.                                         *)

\* Concatenation.
LEMMA Joins ==
  ASSUME NEW S, NEW s \in Seq(S), NEW t \in Seq(S), NEW u \in Seq(S)
  PROVE  /\ s \o t \in Seq(S) /\ (s \o t) \o u = s \o (t \o u)
         /\ s \o <<>> = s /\ <<>> \o s = s /\ Len(s \o t) = Len(s) + Len(t) /\ Len(s) \in Nat
  OBVIOUS

\* Concatenations may be grouped as one likes.
Regroups(s, t, u) == (s \o t) \o u = s \o (t \o u)
LEMMA JoinsAssociate ==
  ASSUME NEW S, NEW s \in Seq(S), NEW t \in Seq(S), NEW u \in Seq(S)
  PROVE  Regroups(s, t, u)
<1>1. (s \o t) \o u = s \o (t \o u)
  OBVIOUS
<1> QED
  BY <1>1 DEF Regroups

\* The elements of two sequences put together.
LEMMA JoinedAre ==
  ASSUME NEW S, NEW s \in Seq(S), NEW t \in Seq(S)
  PROVE  /\ Len(s) \in Nat /\ Len(t) \in Nat /\ Len(s) + Len(t) \in Nat
         /\ s \in [1 .. Len(s) -> S] /\ t \in [1 .. Len(t) -> S]
         /\ s \o t \in [1 .. Len(s) + Len(t) -> S]
         /\ \A i \in 1 .. Len(s) + Len(t) : (s \o t)[i] = IF i <= Len(s) THEN s[i] ELSE t[i - Len(s)]
<1>1. Len(s) \in Nat /\ Len(t) \in Nat /\ Len(s) + Len(t) \in Nat
  OBVIOUS
<1>2. s \in [1 .. Len(s) -> S] /\ t \in [1 .. Len(t) -> S]
  OBVIOUS
<1>3. s \o t \in Seq(S) /\ Len(s \o t) = Len(s) + Len(t)
  OBVIOUS
<1>4. s \o t \in [1 .. Len(s) + Len(t) -> S]
  <2> DEFINE u == s \o t
  <2>1. u \in Seq(S) /\ Len(u) = Len(s) + Len(t)
    BY <1>3
  <2> HIDE DEF u
  <2>2. u \in [1 .. Len(u) -> S]
    BY <2>1
  <2>3. u \in [1 .. Len(s) + Len(t) -> S]
    BY <2>1, <2>2
  <2> QED
    BY <2>3 DEF u
<1>5. \A i \in 1 .. Len(s) + Len(t) : (s \o t)[i] = IF i <= Len(s) THEN s[i] ELSE t[i - Len(s)]
  OBVIOUS
<1> QED
  BY <1>1, <1>2, <1>4, <1>5

\* Whatever grows by the sequences in turn ends as they are flattened.
LEMMA FlattenedIs ==
  ASSUME NEW n \in Nat, NEW Y, NEW seqs \in [1 .. n -> Seq(Y)], NEW at \in [0 .. n -> Seq(Y)],
         at[0] = <<>>, \A i \in 1 .. n : at[i] = at[i - 1] \o seqs[i]
  PROVE  FlattenSeq(seqs) = at[n] /\ FlattenSeq(seqs) \in Seq(Y)
<1>1. PICK other \in [0 .. n -> Seq(Y)] :
        /\ other[0] = <<>> /\ FlattenSeq(seqs) = other[n]
        /\ \A i \in 1 .. n : other[i] = other[i - 1] \o seqs[i]
  <2>1. FlattenedBy(n, Y, seqs)
    BY FlattenStages, Zenon
  <2> QED
    BY <2>1, Zenon DEF FlattenedBy
<1> DEFINE T == {i \in Nat : i <= n => at[i] = other[i]}
<1>2. 0 \in T
  BY <1>1
<1>3. ASSUME NEW i \in Nat, i \in T PROVE i + 1 \in T
  <2> SUFFICES ASSUME i + 1 <= n PROVE at[i + 1] = other[i + 1]
    OBVIOUS
  <2>1. at[i] = other[i] /\ i + 1 \in 1 .. n /\ (i + 1) - 1 = i
    BY <1>3
  <2> QED
    BY <1>1, <2>1
<1>4. at[n] = other[n]
  <2> HIDE DEF T
  <2>1. n \in T
    BY <1>2, <1>3, SetInduction
  <2> QED
    BY <2>1 DEF T
<1> QED
  BY <1>1, <1>4

\* Two lists of sequences, one after the other.
LEMMA FlattenJoined ==
  ASSUME NEW Y, NEW s \in Seq(Seq(Y)), NEW t \in Seq(Seq(Y))
  PROVE  /\ FlattenSeq(s) \in Seq(Y) /\ FlattenSeq(t) \in Seq(Y)
         /\ FlattenSeq(s \o t) = FlattenSeq(s) \o FlattenSeq(t)
<1> DEFINE m == Len(s)
           n == Len(t)
           u == s \o t
<1>1. /\ m \in Nat /\ n \in Nat /\ s \in [1 .. m -> Seq(Y)] /\ t \in [1 .. n -> Seq(Y)]
      /\ u \in [1 .. m + n -> Seq(Y)] /\ m + n \in Nat
      /\ \A i \in 1 .. m + n : u[i] = IF i <= m THEN s[i] ELSE t[i - m]
  BY JoinedAre
<1> HIDE DEF m, n, u
<1>2. PICK a \in [0 .. m -> Seq(Y)] :
        /\ a[0] = <<>> /\ FlattenSeq(s) = a[m] /\ \A i \in 1 .. m : a[i] = a[i - 1] \o s[i]
  <2>1. FlattenedBy(m, Y, s)
    BY <1>1, FlattenStages, Zenon
  <2> QED
    BY <2>1, Zenon DEF FlattenedBy
<1>3. PICK b \in [0 .. n -> Seq(Y)] :
        /\ b[0] = <<>> /\ FlattenSeq(t) = b[n] /\ \A i \in 1 .. n : b[i] = b[i - 1] \o t[i]
  <2>1. FlattenedBy(n, Y, t)
    BY <1>1, FlattenStages, Zenon
  <2> QED
    BY <2>1, Zenon DEF FlattenedBy
<1> DEFINE c == [i \in 0 .. m + n |-> IF i <= m THEN a[i] ELSE a[m] \o b[i - m]]
<1>4. a[m] \in Seq(Y) /\ b[n] \in Seq(Y) /\ \A i \in 0 .. n : b[i] \in Seq(Y)
  BY <1>1
<1>5. c \in [0 .. m + n -> Seq(Y)]
  <2>1. ASSUME NEW i \in 0 .. m + n
        PROVE  (IF i <= m THEN a[i] ELSE a[m] \o b[i - m]) \in Seq(Y)
    <3>1. CASE i <= m
      BY <1>1, <3>1
    <3>2. CASE ~(i <= m)
      <4>1. i - m \in 0 .. n
        BY <1>1, <3>2
      <4> QED
        BY <1>4, <3>2, <4>1
    <3> QED
      BY <3>1, <3>2
  <2> QED
    BY <2>1
<1>6. c[0] = <<>> /\ c[m + n] = a[m] \o b[n]
  <2>1. 0 \in 0 .. m + n /\ m + n \in 0 .. m + n /\ 0 <= m
    BY <1>1
  <2>2. n = 0 => m + n = m /\ b[n] = <<>>
    BY <1>1, <1>3
  <2>3. n # 0 => ~(m + n <= m) /\ (m + n) - m = n
    BY <1>1
  <2>4. n = 0 => c[m + n] = a[m] /\ a[m] \o b[n] = a[m]
    BY <1>4, <2>1, <2>2
  <2>5. n # 0 => c[m + n] = a[m] \o b[n]
    BY <2>1, <2>3
  <2> QED
    BY <1>2, <2>1, <2>4, <2>5
<1>7. ASSUME NEW i \in 1 .. m + n PROVE c[i] = c[i - 1] \o u[i]
  <2>1. i \in 0 .. m + n /\ i - 1 \in 0 .. m + n
    BY <1>1
  <2>2. CASE i <= m
    <3>1. i \in 1 .. m /\ i - 1 <= m
      BY <1>1, <2>2
    <3> QED
      BY <1>1, <1>2, <2>1, <2>2, <3>1
  <2>3. CASE ~(i <= m)
    <3>1. i - m \in 1 .. n /\ (i - m) - 1 \in 0 .. n
      BY <1>1, <2>3
    <3>2. c[i] = a[m] \o b[i - m]
      BY <2>1, <2>3
    <3>3. c[i - 1] = a[m] \o b[(i - m) - 1]
      <4>1. CASE i = m + 1
        <5>1. (i - m) - 1 = 0 /\ i - 1 = m
          BY <1>1, <4>1
        <5>2. c[i - 1] = a[m]
          BY <2>1, <5>1
        <5>3. a[m] \o <<>> = a[m]
          BY <1>4, Joins
        <5> QED
          BY <1>3, <5>1, <5>2, <5>3
      <4>2. CASE i # m + 1
        <5>1. ~(i - 1 <= m) /\ (i - 1) - m = (i - m) - 1
          BY <1>1, <2>3, <4>2
        <5> QED
          BY <2>1, <5>1
      <4> QED
        BY <4>1, <4>2
    <3>4. b[i - m] = b[(i - m) - 1] \o t[i - m]
      BY <1>3, <3>1
    <3>5. u[i] = t[i - m] /\ t[i - m] \in Seq(Y) /\ b[(i - m) - 1] \in Seq(Y)
      BY <1>1, <1>4, <2>3, <3>1
    <3>6. Regroups(a[m], b[(i - m) - 1], t[i - m])
      BY <1>4, <3>5, JoinsAssociate, Zenon
    <3> HIDE DEF c
    <3> QED
      BY <3>2, <3>3, <3>4, <3>5, <3>6 DEF Regroups
  <2> QED
    BY <2>2, <2>3
<1> HIDE DEF c
<1>8. FlattenSeq(u) = c[m + n]
  BY <1>1, <1>5, <1>6, <1>7, FlattenedIs
<1> QED
  BY <1>2, <1>3, <1>4, <1>6, <1>8 DEF u

LEMMA FlattenOne ==
  ASSUME NEW Y, NEW s \in Seq(Y)
  PROVE  FlattenSeq(<<s>>) = s
<1> DEFINE at == [i \in 0 .. 1 |-> IF i = 0 THEN <<>> ELSE s]
           one == <<s>>
<1>1. one \in [1 .. 1 -> Seq(Y)] /\ one[1] = s
  OBVIOUS
<1>2. at \in [0 .. 1 -> Seq(Y)] /\ at[0] = <<>> /\ at[1] = s /\ <<>> \o s = s
  OBVIOUS
<1> HIDE DEF at, one
<1>3. \A i \in 1 .. 1 : at[i] = at[i - 1] \o one[i]
  <2> TAKE i \in 1 .. 1
  <2>1. i = 1 /\ i - 1 = 0
    OBVIOUS
  <2> QED
    BY <1>1, <1>2, <2>1
<1>4. FlattenSeq(one) = at[1]
  BY <1>1, <1>2, <1>3, FlattenedIs
<1> QED
  BY <1>2, <1>4 DEF one

-----------------------------------------------------------------------------
(* Texts with tags.                                                         *)

Token == [is : {"open"}, of : Opening] \cup [is : {"close"}, of : Closing]
         \cup [is : {"text", "lined", "held"}, of : Nat]
Item == Token \cup {NewLine}

\* What a piece adds to the text, and that nothing else does.
Text(item) == IF item.is \in {"text", "lined", "held"} THEN <<item.of>> ELSE <<>>

LEMMA TextOf ==
  ASSUME NEW item \in Item
  PROVE  Text(item) \in Seq(Nat)
<1>1. CASE item.is \in {"text", "lined", "held"}
  <2>1. item.of \in Nat
    BY <1>1 DEF Item, Token, NewLine
  <2> QED
    BY <1>1, <2>1 DEF Text
<1>2. CASE item.is \notin {"text", "lined", "held"}
  BY <1>2 DEF Text
<1> QED
  BY <1>1, <1>2

LEMMA TextsJoined ==
  ASSUME NEW s \in Seq(Item), NEW t \in Seq(Item)
  PROVE  Texts(s) \in Seq(Nat) /\ Texts(t) \in Seq(Nat) /\ Texts(s \o t) = Texts(s) \o Texts(t)
<1> DEFINE Each(r) == [k \in DOMAIN r |-> Text(r[k])]
<1>1. ASSUME NEW r \in Seq(Item)
      PROVE  Each(r) \in Seq(Seq(Nat)) /\ Texts(r) = FlattenSeq(Each(r))
  <2>1. \A k \in 1 .. Len(r) : Text(r[k]) \in Seq(Nat)
    BY TextOf
  <2>2. DOMAIN r = 1 .. Len(r) /\ Len(r) \in Nat
    OBVIOUS
  <2>3. Texts(r) = FlattenSeq(Each(r))
    BY DEF Texts, Text
  <2> QED
    BY <2>1, <2>2, <2>3
<1>2. s \o t \in Seq(Item)
  OBVIOUS
<1>3. Each(s \o t) = Each(s) \o Each(t)
  BY SMTT(30)
<1> HIDE DEF Each
<1>4. FlattenSeq(Each(s) \o Each(t)) = FlattenSeq(Each(s)) \o FlattenSeq(Each(t))
      /\ FlattenSeq(Each(s)) \in Seq(Nat) /\ FlattenSeq(Each(t)) \in Seq(Nat)
  BY <1>1, FlattenJoined
<1> QED
  BY <1>1, <1>2, <1>3, <1>4

LEMMA TextsOne ==
  ASSUME NEW item \in Item
  PROVE  Texts(<<item>>) = Text(item) /\ Texts(<<>>) = <<>>
<1>1. Texts(<<item>>) = FlattenSeq(<<Text(item)>>)
  <2>1. [k \in DOMAIN <<item>> |-> Text(<<item>>[k])] = <<Text(item)>>
    OBVIOUS
  <2> QED
    BY <2>1 DEF Texts, Text
<1>2. Texts(<<>>) = FlattenSeq(<<>>)
  <2>1. [k \in DOMAIN <<>> |-> IF <<>>[k].is \in {"text", "lined", "held"} THEN <<<<>>[k].of>> ELSE <<>>] = <<>>
    OBVIOUS
  <2> QED
    BY <2>1 DEF Texts
<1>3. FlattenSeq(<<>>) = <<>>
  BY DEF FlattenSeq
<1> QED
  BY <1>1, <1>2, <1>3, TextOf, FlattenOne

\* The tags that can be open, and what items lead from some open ones to others, unless one
\* brings others.
Mark == Opening \cup {"mismatch"}
Takes(s, from, to) == Spoilt(s) \/ \E at \in [0 .. Len(s) -> Seq(Mark)] :
    at[0] = from /\ at[Len(s)] = to /\ \A i \in 1 .. Len(s) : at[i] = Follow(at[i - 1], s[i])

\* Such an item is one of the whole as it is one of a part.
LEMMA SpoiltJoined ==
  ASSUME NEW s \in Seq(Item), NEW t \in Seq(Item)
  PROVE  (Spoilt(s) => Spoilt(s \o t)) /\ (Spoilt(t) => Spoilt(s \o t))
<1> DEFINE m == Len(s)
           n == Len(t)
           u == s \o t
<1>1. /\ m \in Nat /\ n \in Nat /\ DOMAIN s = 1 .. m /\ DOMAIN t = 1 .. n /\ DOMAIN u = 1 .. m + n
      /\ \A i \in 1 .. m + n : u[i] = IF i <= m THEN s[i] ELSE t[i - m]
  OBVIOUS
<1> HIDE DEF m, n, u
<1>2. ASSUME NEW k \in DOMAIN s, s[k] = Open("quoting") PROVE Spoilt(u)
  <2>1. k \in 1 .. m + n /\ k <= m
    BY <1>1
  <2>2. u[k] = s[k]
    BY <1>1, <2>1
  <2> QED
    BY <1>1, <1>2, <2>1, <2>2 DEF Spoilt
<1>3. ASSUME NEW k \in DOMAIN t, t[k] = Open("quoting") PROVE Spoilt(u)
  <2>1. k + m \in 1 .. m + n /\ ~(k + m <= m) /\ (k + m) - m = k
    BY <1>1
  <2>2. u[k + m] = t[k]
    BY <1>1, <2>1
  <2> QED
    BY <1>1, <1>3, <2>1, <2>2 DEF Spoilt
<1> QED
  BY <1>2, <1>3 DEF Spoilt, u

\* Such items leave what is open as it is, whatever that is.
Balanced(s) == s \in Seq(Item) /\ \A open \in Seq(Mark) : Takes(s, open, open)

LEMMA FollowType ==
  ASSUME NEW open \in Seq(Mark), NEW item \in Item
  PROVE  Follow(open, item) \in Seq(Mark)
<1>0. CASE item = Open("quoting")
  <2>1. "mismatch" \in Mark
    BY DEF Mark
  <2> QED
    BY <1>0, <2>1 DEF Follow
<1>1. CASE item # Open("quoting") /\ item.is = "open"
  <2>1. item.of \in Mark
    BY <1>1 DEF Item, Token, NewLine, Mark
  <2> QED
    BY <1>1, <2>1 DEF Follow
<1>2. CASE item # Open("quoting") /\ item.is # "open" /\ item.is # "close"
  BY <1>2 DEF Follow
<1>3. CASE item # Open("quoting") /\ item.is = "close"
  <2>1. open # <<>> => Front(open) \in Seq(Mark)
    BY DEF Front
  <2>2. <<"mismatch">> \in Seq(Mark)
    <3>1. "mismatch" \in Mark
      BY DEF Mark
    <3> QED
      BY <3>1
  <2> QED
    BY <1>3, <2>1, <2>2 DEF Follow
<1> QED
  BY <1>0, <1>1, <1>2, <1>3

\* The fold that Pending is.
LEMMA PendingStages ==
  ASSUME NEW n \in Nat, NEW s \in [1 .. n -> Item]
  PROVE  \E at \in [0 .. n -> Seq(Mark)] :
            /\ at[0] = <<>> /\ Pending(s) = at[n]
            /\ \A i \in 1 .. n : at[i] = Follow(at[i - 1], s[i])
<1> DEFINE X == Seq(Mark)
           Then(i, open) == Follow(open, s[i])
           step == [i \in 1 .. n |-> [open \in X |-> Then(i, open)]]
           Eqn(iter) == iter = [t \in SUBSET (1 .. n) |-> IF t = {} THEN <<>>
                                   ELSE Then(Max(t), iter[t \ {Max(t)}])]
           chosen == CHOOSE iter : Eqn(iter)
<1>1. <<>> \in X /\ step \in [1 .. n -> [X -> X]]
  <2>1. \A i \in 1 .. n : \A open \in X : Then(i, open) \in X
    BY FollowType
  <2> HIDE DEF Then
  <2> QED
    BY <2>1
<1>0. \A i \in 1 .. n : \A open \in X : step[i][open] = Then(i, open)
  OBVIOUS
<1>2. Pending(s) = chosen[1 .. n]
  BY DEF Pending, FoldLeft, MapThenFoldSet
<1> HIDE DEF X, Then, step
<1>3. HasStages(n, X, <<>>, step)
  BY <1>1, StepByStep, Zenon
<1>4. PICK at \in [0 .. n -> X], iter \in [SUBSET (1 .. n) -> X] :
        /\ at[0] = <<>> /\ \A i \in 1 .. n : at[i] = step[i][at[i - 1]]
        /\ IsFold(iter, 1 .. n, <<>>, Largest(n), step)
        /\ \A f : Follows(f, 1 .. n, X, <<>>, Largest(n), step) => f[1 .. n] = at[n]
  BY <1>3, Zenon DEF HasStages
<1>5. \A t \in (SUBSET (1 .. n)) \ {{}} :
         Largest(n)[t] = Max(t) /\ Max(t) \in 1 .. n /\ t \ {Max(t)} \in SUBSET (1 .. n)
  BY MaxOf DEF Largest
<1>6. Eqn(iter)
  <2>1. iter[{}] = <<>>
    BY <1>4 DEF IsFold
  <2>2. ASSUME NEW t \in (SUBSET (1 .. n)) \ {{}}
        PROVE  iter[t] = Then(Max(t), iter[t \ {Max(t)}])
    <3>1. iter[t] = step[Max(t)][iter[t \ {Max(t)}]]
      BY <1>4, <1>5 DEF IsFold
    <3>2. iter[t \ {Max(t)}] \in X
      BY <1>5
    <3> QED
      BY <3>1, <3>2, <1>0, <1>5
  <2> QED
    BY <2>1, <2>2
<1>7. Eqn(chosen)
  <2> HIDE DEF Eqn
  <2> QED
    BY <1>6
<1> HIDE DEF chosen
<1>8. Follows(chosen, 1 .. n, X, <<>>, Largest(n), step)
  <2>1. chosen[{}] = <<>>
    BY <1>7
  <2>2. ASSUME NEW t \in (SUBSET (1 .. n)) \ {{}}, chosen[t \ {Largest(n)[t]}] \in X
        PROVE  chosen[t] = step[Largest(n)[t]][chosen[t \ {Largest(n)[t]}]]
    <3>1. Largest(n)[t] = Max(t) /\ Max(t) \in 1 .. n
      BY <1>5
    <3>2. chosen[t] = Then(Max(t), chosen[t \ {Max(t)}])
      BY <1>7
    <3> QED
      BY <3>1, <3>2, <1>0, <2>2
  <2> QED
    BY <2>1, <2>2 DEF Follows
<1>9. chosen[1 .. n] = at[n]
  BY <1>4, <1>8, Zenon
<1>10. ASSUME NEW i \in 1 .. n PROVE at[i] = Then(i, at[i - 1])
  <2>1. at[i - 1] \in X
    OBVIOUS
  <2> QED
    BY <2>1, <1>0, <1>4
<1>11. at \in [0 .. n -> Seq(Mark)] /\ at[0] = <<>> /\ Pending(s) = at[n]
  BY <1>2, <1>4, <1>9 DEF X
<1>12. \A i \in 1 .. n : at[i] = Follow(at[i - 1], s[i])
  BY <1>10 DEF Then
<1> QED
  BY <1>11, <1>12, Zenon

\* What items take nothing to is pending after them.
LEMMA PendingIs ==
  ASSUME NEW s \in Seq(Item), NEW open, Takes(s, <<>>, open)
  PROVE  Spoilt(s) \/ Pending(s) = open
<1> SUFFICES ASSUME ~Spoilt(s) PROVE Pending(s) = open
  OBVIOUS
<1> DEFINE n == Len(s)
<1>1. n \in Nat /\ s \in [1 .. n -> Item]
  OBVIOUS
<1>2. PICK a \in [0 .. n -> Seq(Mark)] :
        a[0] = <<>> /\ a[n] = open /\ \A i \in 1 .. n : a[i] = Follow(a[i - 1], s[i])
  BY DEF Takes
<1> HIDE DEF n
<1>3. PICK b \in [0 .. n -> Seq(Mark)] :
        b[0] = <<>> /\ Pending(s) = b[n] /\ \A i \in 1 .. n : b[i] = Follow(b[i - 1], s[i])
  BY <1>1, PendingStages
<1> DEFINE T == {i \in Nat : i <= n => a[i] = b[i]}
<1>4. 0 \in T
  BY <1>2, <1>3
<1>5. ASSUME NEW i \in Nat, i \in T PROVE i + 1 \in T
  <2> SUFFICES ASSUME i + 1 <= n PROVE a[i + 1] = b[i + 1]
    OBVIOUS
  <2>1. a[i] = b[i] /\ i + 1 \in 1 .. n /\ (i + 1) - 1 = i
    BY <1>1, <1>5
  <2> QED
    BY <1>2, <1>3, <2>1
<1>6. a[n] = b[n]
  <2> HIDE DEF T
  <2>1. n \in T
    BY <1>1, <1>4, <1>5, SetInduction
  <2> QED
    BY <1>1, <2>1 DEF T
<1> QED
  BY <1>2, <1>3, <1>6

LEMMA TakesJoined ==
  ASSUME NEW s \in Seq(Item), NEW t \in Seq(Item), NEW x, NEW y, NEW z,
         Takes(s, x, y), Takes(t, y, z)
  PROVE  Takes(s \o t, x, z)
<1> SUFFICES ASSUME ~Spoilt(s), ~Spoilt(t) PROVE Takes(s \o t, x, z)
  BY SpoiltJoined DEF Takes
<1> DEFINE m == Len(s)
           n == Len(t)
           u == s \o t
<1>1. /\ m \in Nat /\ n \in Nat /\ Len(u) = m + n
      /\ \A i \in 1 .. m + n : u[i] = IF i <= m THEN s[i] ELSE t[i - m]
  OBVIOUS
<1>2. PICK a \in [0 .. m -> Seq(Mark)] :
        a[0] = x /\ a[m] = y /\ \A i \in 1 .. m : a[i] = Follow(a[i - 1], s[i])
  BY DEF Takes
<1>3. PICK b \in [0 .. n -> Seq(Mark)] :
        b[0] = y /\ b[n] = z /\ \A i \in 1 .. n : b[i] = Follow(b[i - 1], t[i])
  BY DEF Takes
<1> HIDE DEF m, n, u
<1> DEFINE c == [i \in 0 .. m + n |-> IF i <= m THEN a[i] ELSE b[i - m]]
<1>4. c \in [0 .. m + n -> Seq(Mark)]
  <2>1. ASSUME NEW i \in 0 .. m + n, ~(i <= m) PROVE i - m \in 0 .. n
    BY <1>1, <2>1
  <2>2. ASSUME NEW i \in 0 .. m + n, i <= m PROVE i \in 0 .. m
    BY <1>1, <2>2
  <2> QED
    BY <2>1, <2>2
<1>5. c[0] = x /\ c[m + n] = z
  <2>1. 0 \in 0 .. m + n /\ m + n \in 0 .. m + n /\ 0 <= m
    BY <1>1
  <2>2. n = 0 => m + n = m /\ m <= m
    BY <1>1
  <2>3. n # 0 => ~(m + n <= m) /\ (m + n) - m = n
    BY <1>1
  <2>4. n = 0 => c[m + n] = a[m]
    BY <2>1, <2>2
  <2>5. n # 0 => c[m + n] = b[n]
    BY <2>1, <2>3
  <2> QED
    BY <1>2, <1>3, <2>1, <2>4, <2>5
<1>6. ASSUME NEW i \in 1 .. m + n PROVE c[i] = Follow(c[i - 1], u[i])
  <2>1. i \in 0 .. m + n /\ i - 1 \in 0 .. m + n
    BY <1>1
  <2>2. CASE i <= m
    <3>1. i \in 1 .. m /\ i - 1 <= m
      BY <1>1, <2>2
    <3>2. c[i] = a[i] /\ c[i - 1] = a[i - 1] /\ u[i] = s[i]
      BY <1>1, <2>1, <2>2, <3>1
    <3> QED
      BY <1>2, <3>1, <3>2
  <2>3. CASE ~(i <= m)
    <3>1. i - m \in 1 .. n /\ u[i] = t[i - m] /\ c[i] = b[i - m]
      BY <1>1, <2>1, <2>3
    <3>2. c[i - 1] = b[(i - m) - 1]
      <4>1. CASE i = m + 1
        <5>1. (i - m) - 1 = 0 /\ i - 1 = m /\ m <= m
          BY <1>1, <4>1
        <5>2. c[i - 1] = a[m]
          BY <2>1, <5>1
        <5> QED
          BY <1>2, <1>3, <5>1, <5>2
      <4>2. CASE i # m + 1
        <5>1. ~(i - 1 <= m) /\ (i - 1) - m = (i - m) - 1
          BY <1>1, <2>3, <4>2
        <5> QED
          BY <2>1, <5>1
      <4> QED
        BY <4>1, <4>2
    <3> QED
      BY <1>3, <3>1, <3>2
  <2> QED
    BY <2>2, <2>3
<1> HIDE DEF c
<1>7. Takes(u, x, z)
  BY <1>1, <1>4, <1>5, <1>6 DEF Takes
<1> QED
  BY <1>7 DEF u

LEMMA TakesOne ==
  ASSUME NEW open \in Seq(Mark), NEW item \in Item
  PROVE  Takes(<<item>>, open, Follow(open, item)) /\ Takes(<<>>, open, open)
<1> DEFINE at == [i \in 0 .. 1 |-> IF i = 0 THEN open ELSE Follow(open, item)]
           s == <<item>>
<1>1. at \in [0 .. 1 -> Seq(Mark)] /\ at[0] = open /\ at[1] = Follow(open, item)
  BY FollowType
<1>2. Len(s) = 1 /\ s[1] = item
  OBVIOUS
<1> HIDE DEF at, s
<1>3. \A i \in 1 .. 1 : at[i] = Follow(at[i - 1], s[i])
  <2> TAKE i \in 1 .. 1
  <2>1. i = 1 /\ i - 1 = 0
    OBVIOUS
  <2> QED
    BY <1>1, <1>2, <2>1
<1>4. Takes(s, open, Follow(open, item))
  BY <1>1, <1>2, <1>3 DEF Takes
<1> DEFINE none == [i \in 0 .. 0 |-> open]
           e == <<>>
<1>5. none \in [0 .. 0 -> Seq(Mark)] /\ none[0] = open /\ Len(e) = 0
  OBVIOUS
<1> HIDE DEF none, e
<1>6. Takes(e, open, open)
  BY <1>5 DEF Takes
<1> QED
  BY <1>4, <1>6 DEF s, e

\* Without its last item, if that is a line end, items take the same to the same.
LEMMA TakesFront ==
  ASSUME NEW s \in Seq(Item), s # <<>>, Last(s) = NewLine, NEW x, NEW y, Takes(s, x, y)
  PROVE  /\ Front(s) \in Seq(Item) /\ Takes(Front(s), x, y) /\ Texts(Front(s)) = Texts(s)
<1> DEFINE n == Len(s) - 1
           f == Front(s)
<1>1. n \in Nat /\ Len(s) = n + 1 /\ s[n + 1] = NewLine
  BY DEF Last
<1>2. f \in Seq(Item) /\ Len(f) = n /\ (\A i \in 1 .. n : f[i] = s[i]) /\ s = f \o <<NewLine>>
  <2>1. f \in Seq(Item) /\ Len(f) = n /\ \A i \in 1 .. n : f[i] = s[i]
    BY <1>1 DEF Front
  <2> HIDE DEF f, n
  <2>2. s = f \o <<NewLine>>
    BY <1>1, <2>1
  <2> QED
    BY <2>1, <2>2
<1> HIDE DEF n, f
<1>3. Takes(f, x, y)
  <2>1. CASE Spoilt(s)
    <3>1. PICK k \in 1 .. n + 1 : s[k] = Open("quoting")
      BY <1>1, <2>1 DEF Spoilt
    <3>2. k # n + 1
      BY <1>1, <3>1 DEF Open, NewLine
    <3>3. k \in 1 .. n
      BY <1>1, <3>2
    <3>4. f[k] = Open("quoting") /\ k \in DOMAIN f
      BY <1>2, <3>1, <3>3
    <3> QED
      BY <3>4 DEF Takes, Spoilt
  <2>2. CASE ~Spoilt(s)
    <3>1. PICK a \in [0 .. n + 1 -> Seq(Mark)] :
            a[0] = x /\ a[n + 1] = y /\ \A i \in 1 .. n + 1 : a[i] = Follow(a[i - 1], s[i])
      BY <1>1, <2>2 DEF Takes
    <3>2. a[n] = y
      <4>1. n + 1 \in 1 .. n + 1 /\ (n + 1) - 1 = n
        BY <1>1
      <4>2. a[n + 1] = Follow(a[n], NewLine)
        BY <1>1, <3>1, <4>1
      <4>3. Follow(a[n], NewLine) = a[n]
        BY DEF Follow, NewLine, Open
      <4> QED
        BY <3>1, <4>2, <4>3
    <3> DEFINE b == [i \in 0 .. n |-> a[i]]
    <3>3. b \in [0 .. n -> Seq(Mark)] /\ b[0] = x /\ b[n] = y
      BY <1>1, <3>1, <3>2
    <3>4. \A i \in 1 .. n : b[i] = Follow(b[i - 1], f[i])
      <4> TAKE i \in 1 .. n
      <4>1. i \in 1 .. n + 1 /\ i \in 0 .. n /\ i - 1 \in 0 .. n
        BY <1>1
      <4> QED
        BY <1>2, <3>1, <4>1
    <3> HIDE DEF b
    <3>5. Takes(f, x, y)
      BY <1>2, <3>3, <3>4 DEF Takes
    <3> QED
      BY <3>5
  <2> QED
    BY <2>1, <2>2
<1>4. Texts(s) = Texts(f)
  <2>1. NewLine \in Item /\ <<NewLine>> \in Seq(Item)
    BY DEF Item
  <2>2. Texts(<<NewLine>>) = <<>>
    BY <2>1, TextsOne DEF Text, NewLine
  <2>3. Texts(f) \in Seq(Nat) /\ Texts(s) = Texts(f) \o <<>>
    BY <1>2, <2>1, <2>2, TextsJoined
  <2> QED
    BY <2>3
<1> QED
  BY <1>2, <1>3, <1>4 DEF f

LEMMA BalancedJoined ==
  ASSUME NEW s, NEW t, Balanced(s), Balanced(t)
  PROVE  Balanced(s \o t)
<1>1. s \in Seq(Item) /\ t \in Seq(Item) /\ s \o t \in Seq(Item)
  BY DEF Balanced
<1>2. ASSUME NEW open \in Seq(Mark) PROVE Takes(s \o t, open, open)
  <2>1. Takes(s, open, open) /\ Takes(t, open, open)
    BY DEF Balanced
  <2> QED
    BY <1>1, <2>1, TakesJoined
<1> QED
  BY <1>1, <1>2 DEF Balanced

\* Pieces and line ends are balanced, and a tag around balanced items.
LEMMA BalancedOne ==
  ASSUME NEW item \in Item, item.is \notin {"open", "close"}
  PROVE  Balanced(<<item>>) /\ Balanced(<<>>)
<1>1. <<item>> \in Seq(Item) /\ <<>> \in Seq(Item)
  OBVIOUS
<1>2. ASSUME NEW open \in Seq(Mark) PROVE Takes(<<item>>, open, open) /\ Takes(<<>>, open, open)
  <2>1. Follow(open, item) = open
    BY DEF Follow, Open
  <2> QED
    BY <2>1, TakesOne
<1> QED
  BY <1>1, <1>2 DEF Balanced

LEMMA BalancedTag ==
  ASSUME NEW opened \in Opening, NEW tag \in ALLOWED_TAGS, TagOf(opened) = tag, NEW s, Balanced(s)
  PROVE  Balanced(<<Open(opened)>> \o s \o <<Close(tag)>>)
<1> DEFINE o == <<Open(opened)>>
           c == <<Close(tag)>>
<1>1. Open(opened) \in Item /\ Close(tag) \in Item /\ tag \in Mark
  BY DEF Open, Close, Item, Token, Opening, Closing, ALLOWED_TAGS, Mark
<1>2. /\ s \in Seq(Item) /\ o \in Seq(Item) /\ c \in Seq(Item) /\ o \o s \in Seq(Item)
      /\ o \o s \o c \in Seq(Item)
  <2>1. s \in Seq(Item) /\ o \in Seq(Item) /\ c \in Seq(Item)
    BY <1>1 DEF Balanced
  <2> HIDE DEF o, c
  <2> QED
    BY <2>1
<1>0. ASSUME opened = "quoting" PROVE Spoilt(o \o s \o c)
  <2>1. o[1] = Open("quoting") /\ 1 \in DOMAIN o
    BY <1>0
  <2>2. Spoilt(o)
    BY <2>1 DEF Spoilt
  <2> HIDE DEF o, c
  <2>3. Spoilt(o \o s)
    BY <1>2, <2>2, SpoiltJoined
  <2> QED
    BY <1>2, <2>3, SpoiltJoined
<1>3. ASSUME NEW open \in Seq(Mark) PROVE Takes(o \o s \o c, open, open)
  <2> SUFFICES ASSUME opened # "quoting" PROVE Takes(o \o s \o c, open, open)
    BY <1>0 DEF Takes
  <2>0. opened = tag
    BY DEF TagOf
  <2> DEFINE more == Append(open, tag)
  <2>1. more \in Seq(Mark) /\ more # <<>> /\ Last(more) = tag /\ Front(more) = open
    BY <1>1 DEF Last, Front
  <2>2. Follow(open, Open(opened)) = more
    BY <2>0 DEF Follow, Open
  <2>3. Follow(more, Close(tag)) = open
    <3> HIDE DEF more
    <3> QED
      BY <2>1 DEF Follow, Close, Open
  <2> HIDE DEF more
  <2>4. Takes(o, open, more)
    BY <1>1, <2>2, TakesOne
  <2>5. Takes(s, more, more)
    BY <2>1 DEF Balanced
  <2>6. Takes(c, more, open)
    BY <1>1, <2>1, <2>3, TakesOne
  <2> HIDE DEF o, c
  <2>7. Takes(o \o s, open, more)
    BY <1>2, <2>4, <2>5, TakesJoined
  <2> QED
    BY <1>2, <2>6, <2>7, TakesJoined
<1> HIDE DEF o, c
<1>4. Balanced(o \o s \o c)
  BY <1>2, <1>3 DEF Balanced
<1> QED
  BY <1>4 DEF o, c

\* The formatter's state.
Entry == [tag : Opening, from : Nat, to : Nat]
State == [result : Seq(Item), stack : Seq(Entry)]

\* What is written for an opened tag, and what for a closed one, in a result.
Opened(tag) == IF TagOf(tag) \in ALLOWED_TAGS THEN <<Open(tag)>> ELSE <<>>

LEMMA TagsWritten ==
  ASSUME NEW tag \in Opening
  PROVE  Opened(tag) \in Seq(Item) /\ Len(Opened(tag)) \in Nat /\ Texts(Opened(tag)) = <<>>
<1>1. CASE TagOf(tag) \in ALLOWED_TAGS
  <2>1. Open(tag) \in Item /\ Text(Open(tag)) = <<>>
    BY <1>1 DEF Open, Item, Token, Text
  <2>2. Texts(<<Open(tag)>>) = <<>>
    BY <2>1, TextsOne
  <2> QED
    BY <1>1, <2>1, <2>2 DEF Opened
<1>2. CASE TagOf(tag) \notin ALLOWED_TAGS
  <2>1. NewLine \in Item
    BY DEF Item
  <2>2. Texts(<<>>) = <<>>
    BY <2>1, TextsOne
  <2>3. Opened(tag) = <<>>
    BY <1>2 DEF Opened
  <2> QED
    BY <2>2, <2>3
<1> QED
  BY <1>1, <1>2

LEMMA ClosedWritten ==
  ASSUME NEW tag \in Closing
  PROVE  Written(tag) \in Seq(Item) /\ Texts(Written(tag)) = <<>>
<1> DEFINE c == IF tag \in ALLOWED_TAGS THEN <<Close(tag)>> ELSE <<>>
           l == IF tag \in EndsLine THEN <<NewLine>> ELSE <<>>
<1>1. c \in Seq(Item) /\ Texts(c) = <<>>
  <2>1. Close(tag) \in Item /\ Text(Close(tag)) = <<>>
    BY DEF Close, Item, Token, Text
  <2>2. Texts(<<Close(tag)>>) = <<>> /\ Texts(<<>>) = <<>>
    BY <2>1, TextsOne
  <2> QED
    BY <2>1, <2>2
<1>2. l \in Seq(Item) /\ Texts(l) = <<>>
  <2>1. NewLine \in Item /\ Text(NewLine) = <<>>
    BY DEF NewLine, Item, Text
  <2>2. Texts(<<NewLine>>) = <<>> /\ Texts(<<>>) = <<>>
    BY <2>1, TextsOne
  <2> QED
    BY <2>1, <2>2
<1>3. Written(tag) = c \o l
  BY DEF Written
<1> HIDE DEF c, l
<1>4. Texts(c \o l) = <<>> \o <<>> /\ c \o l \in Seq(Item)
  BY <1>1, <1>2, TextsJoined
<1> QED
  BY <1>3, <1>4

\* The result consists of what was written for the tags that are still open and of balanced
\* items before, between and behind: seg[j] behind the j-th, pre[j] up to there.
LaidBy(state, seg, pre) ==
    LET m == Len(state.stack) IN
    /\ seg \in [0 .. m -> Seq(Item)] /\ pre \in [0 .. m -> Seq(Item)]
    /\ \A j \in 0 .. m : Balanced(seg[j])
    /\ pre[0] = seg[0] /\ state.result = pre[m]
    /\ \A j \in 1 .. m :
          /\ pre[j] = (pre[j - 1] \o Opened(state.stack[j].tag)) \o seg[j]
          /\ state.stack[j].from = Len(pre[j - 1])
          /\ state.stack[j].to = Len(pre[j - 1] \o Opened(state.stack[j].tag))
Laid(state) == \E seg, pre : LaidBy(state, seg, pre)

LEMMA LaidReset == Reset \in State /\ Laid(Reset)
<1> DEFINE none == [j \in 0 .. 0 |-> <<>>]
<1>1. Reset.result = <<>> /\ Reset.stack = <<>> /\ Len(Reset.stack) = 0
  BY DEF Reset
<1>2. none \in [0 .. 0 -> Seq(Item)] /\ none[0] = <<>> /\ \A j \in 0 .. 0 : none[j] = <<>>
  OBVIOUS
<1>3. Balanced(<<>>)
  <2>1. NewLine \in Item /\ NewLine.is \notin {"open", "close"}
    BY DEF NewLine, Item
  <2> QED
    BY <2>1, BalancedOne
<1> HIDE DEF none
<1>4. LaidBy(Reset, none, none)
  BY <1>1, <1>2, <1>3 DEF LaidBy
<1>5. Reset \in State
  <2>1. <<>> \in Seq(Item) /\ <<>> \in Seq(Entry)
    OBVIOUS
  <2> QED
    BY <2>1 DEF Reset, State
<1> QED
  BY <1>4, <1>5 DEF Laid

\* Balanced items are written behind the rest.
LEMMA LaidMore ==
  ASSUME NEW state \in State, Laid(state), NEW s, Balanced(s),
         NEW new \in State, new.stack = state.stack, new.result = state.result \o s
  PROVE  Laid(new)
<1> DEFINE m == Len(state.stack)
<1>1. m \in Nat /\ s \in Seq(Item)
  BY DEF State, Balanced
<1>2. PICK seg, pre : LaidBy(state, seg, pre)
  BY DEF Laid
<1> HIDE DEF m
<1>3. /\ seg \in [0 .. m -> Seq(Item)] /\ pre \in [0 .. m -> Seq(Item)]
      /\ \A j \in 0 .. m : Balanced(seg[j])
      /\ pre[0] = seg[0] /\ state.result = pre[m]
      /\ \A j \in 1 .. m :
          /\ pre[j] = (pre[j - 1] \o Opened(state.stack[j].tag)) \o seg[j]
          /\ state.stack[j].from = Len(pre[j - 1])
          /\ state.stack[j].to = Len(pre[j - 1] \o Opened(state.stack[j].tag))
  BY <1>2 DEF LaidBy, m
<1> DEFINE seg2 == [seg EXCEPT ![m] = @ \o s]
           pre2 == [pre EXCEPT ![m] = @ \o s]
<1>4. /\ m \in 0 .. m /\ seg[m] \o s \in Seq(Item) /\ pre[m] \o s \in Seq(Item)
      /\ Balanced(seg[m] \o s)
  <2>1. m \in 0 .. m /\ seg[m] \in Seq(Item) /\ pre[m] \in Seq(Item) /\ Balanced(seg[m])
    BY <1>1, <1>3
  <2> QED
    BY <1>1, <2>1, BalancedJoined, Joins
<1>5. /\ seg2 \in [0 .. m -> Seq(Item)] /\ pre2 \in [0 .. m -> Seq(Item)]
      /\ seg2[m] = seg[m] \o s /\ pre2[m] = pre[m] \o s
      /\ \A j \in 0 .. m : j # m => seg2[j] = seg[j] /\ pre2[j] = pre[j]
  BY <1>3, <1>4
<1> HIDE DEF seg2, pre2
<1>6. \A j \in 0 .. m : Balanced(seg2[j])
  BY <1>3, <1>4, <1>5
<1>7. pre2[0] = seg2[0]
  <2>1. 0 \in 0 .. m
    BY <1>1
  <2> QED
    BY <1>3, <1>5, <2>1
<1>8. ASSUME NEW j \in 1 .. m
      PROVE  /\ pre2[j] = (pre2[j - 1] \o Opened(state.stack[j].tag)) \o seg2[j]
             /\ state.stack[j].from = Len(pre2[j - 1])
             /\ state.stack[j].to = Len(pre2[j - 1] \o Opened(state.stack[j].tag))
  <2>1. j - 1 \in 0 .. m /\ j \in 0 .. m /\ j - 1 # m
    BY <1>1
  <2>2. pre2[j - 1] = pre[j - 1]
    BY <1>5, <2>1
  <2>3. CASE j # m
    BY <1>3, <1>5, <2>1, <2>2, <2>3, ZenonT(30)
  <2>4. CASE j = m
    <3> DEFINE p == pre[j - 1] \o Opened(state.stack[j].tag)
    <3>1. p \in Seq(Item)
      <4>1. state.stack[j].tag \in Opening
        <5>1. state.stack \in Seq(Entry) /\ j \in 1 .. Len(state.stack)
          BY DEF m, State
        <5>2. state.stack[j] \in Entry
          BY <5>1
        <5> QED
          BY <5>2 DEF Entry
      <4> QED
        BY <1>3, <2>1, <4>1, TagsWritten, Joins
    <3>2. pre[m] = p \o seg[m]
      BY <1>3, <2>4
    <3> HIDE DEF p
    <3>3. Regroups(p, seg[m], s)
      <4>1. seg[m] \in Seq(Item)
        BY <1>3, <1>4
      <4> QED
        BY <1>1, <3>1, <4>1, JoinsAssociate, Zenon
    <3> QED
      BY <1>3, <1>5, <2>2, <2>4, <3>2, <3>3, ZenonT(30) DEF p, Regroups
  <2> QED
    BY <2>3, <2>4
<1>9. LaidBy(new, seg2, pre2)
  BY <1>3, <1>5, <1>6, <1>7, <1>8 DEF LaidBy, m
<1> QED
  BY <1>9 DEF Laid

\* A tag is opened.
LEMMA LaidStart ==
  ASSUME NEW state \in State, Laid(state), NEW tag \in Opening, NEW new \in State, NEW entry \in Entry,
         entry.tag = tag, entry.from = Len(state.result), entry.to = Len(state.result \o Opened(tag)),
         new.stack = Append(state.stack, entry), new.result = state.result \o Opened(tag)
  PROVE  Laid(new)
<1> DEFINE m == Len(state.stack)
           o == Opened(tag)
<1>1. m \in Nat /\ state.stack \in Seq(Entry) /\ o \in Seq(Item)
  BY TagsWritten DEF State
<1>2. PICK seg, pre : LaidBy(state, seg, pre)
  BY DEF Laid
<1> HIDE DEF m
<1>3. /\ seg \in [0 .. m -> Seq(Item)] /\ pre \in [0 .. m -> Seq(Item)]
      /\ \A j \in 0 .. m : Balanced(seg[j])
      /\ pre[0] = seg[0] /\ state.result = pre[m]
      /\ \A j \in 1 .. m :
          /\ pre[j] = (pre[j - 1] \o Opened(state.stack[j].tag)) \o seg[j]
          /\ state.stack[j].from = Len(pre[j - 1])
          /\ state.stack[j].to = Len(pre[j - 1] \o Opened(state.stack[j].tag))
  BY <1>2 DEF LaidBy, m
<1>4. m \in 0 .. m /\ pre[m] \in Seq(Item) /\ pre[m] \o o \in Seq(Item) /\ (pre[m] \o o) \o <<>> = pre[m] \o o
  <2>1. m \in 0 .. m /\ pre[m] \in Seq(Item)
    BY <1>1, <1>3
  <2>2. pre[m] \o o \in Seq(Item)
    BY <1>1, <2>1, Joins
  <2> QED
    BY <2>1, <2>2, Joins
<1> HIDE DEF o
<1> DEFINE seg2 == [j \in 0 .. m + 1 |-> IF j = m + 1 THEN <<>> ELSE seg[j]]
           pre2 == [j \in 0 .. m + 1 |-> IF j = m + 1 THEN pre[m] \o o ELSE pre[j]]
<1>5. /\ seg2 \in [0 .. m + 1 -> Seq(Item)] /\ pre2 \in [0 .. m + 1 -> Seq(Item)]
      /\ seg2[m + 1] = <<>> /\ pre2[m + 1] = pre[m] \o o
      /\ \A j \in 0 .. m : seg2[j] = seg[j] /\ pre2[j] = pre[j]
  <2>1. \A j \in 0 .. m + 1 : j # m + 1 => j \in 0 .. m
    BY <1>1
  <2>2. \A j \in 0 .. m : j # m + 1 /\ j \in 0 .. m + 1
    BY <1>1
  <2>3. m + 1 \in 0 .. m + 1 /\ <<>> \in Seq(Item)
    BY <1>1
  <2> QED
    BY <1>3, <1>4, <2>1, <2>2, <2>3
<1> HIDE DEF seg2, pre2
<1>6. ASSUME NEW j \in 0 .. m + 1 PROVE Balanced(seg2[j])
  <2>1. CASE j = m + 1
    <3>1. NewLine \in Item /\ NewLine.is \notin {"open", "close"}
      BY DEF NewLine, Item
    <3> QED
      BY <1>5, <2>1, <3>1, BalancedOne
  <2>2. CASE j # m + 1
    <3>1. j \in 0 .. m
      BY <1>1, <2>2
    <3> QED
      BY <1>3, <1>5, <3>1
  <2> QED
    BY <2>1, <2>2
<1>7. pre2[0] = seg2[0]
  <2>1. 0 \in 0 .. m
    BY <1>1
  <2> QED
    BY <1>3, <1>5, <2>1
<1>8. /\ Len(new.stack) = m + 1 /\ new.stack[m + 1] = entry
      /\ \A j \in 1 .. m : new.stack[j] = state.stack[j]
  BY <1>1 DEF m
<1>9. ASSUME NEW j \in 1 .. m + 1
      PROVE  /\ pre2[j] = (pre2[j - 1] \o Opened(new.stack[j].tag)) \o seg2[j]
             /\ new.stack[j].from = Len(pre2[j - 1])
             /\ new.stack[j].to = Len(pre2[j - 1] \o Opened(new.stack[j].tag))
  <2>1. j - 1 \in 0 .. m
    BY <1>1
  <2>2. pre2[j - 1] = pre[j - 1]
    BY <1>5, <2>1
  <2>3. CASE j # m + 1
    <3>1. j \in 1 .. m /\ j \in 0 .. m
      BY <1>1, <2>3
    <3> QED
      BY <1>3, <1>5, <1>8, <2>2, <3>1
  <2>4. CASE j = m + 1
    <3>1. j - 1 = m /\ new.stack[j] = entry /\ seg2[j] = <<>> /\ pre2[j] = pre[m] \o o
      <4>1. j - 1 = m
        BY <1>1, <2>4
      <4> QED
        BY <1>5, <1>8, <2>4, <4>1
    <3> QED
      BY <1>3, <1>4, <2>2, <3>1 DEF o
  <2> QED
    BY <2>3, <2>4
<1>10. LaidBy(new, seg2, pre2)
  <2>1. new.result = pre2[m + 1]
    BY <1>3, <1>5 DEF o
  <2> QED
    BY <1>5, <1>6, <1>7, <1>8, <1>9, <2>1 DEF LaidBy
<1> QED
  BY <1>10 DEF Laid

\* What closes a tag makes what stands since it was opened balanced.
LEMMA BalancedAround ==
  ASSUME NEW opened \in Opening, NEW tag \in Closing, TagOf(opened) = tag, NEW s, Balanced(s)
  PROVE  Balanced(Opened(opened) \o s \o Written(tag)) /\ Opened(opened) \in Seq(Item)
<1>0. s \in Seq(Item)
  BY DEF Balanced
<1> DEFINE l == IF tag \in EndsLine THEN <<NewLine>> ELSE <<>>
<1>1. Balanced(l) /\ l \in Seq(Item)
  <2>1. NewLine \in Item /\ NewLine.is \notin {"open", "close"}
    BY DEF NewLine, Item
  <2>2. Balanced(<<NewLine>>) /\ Balanced(<<>>)
    BY <2>1, BalancedOne
  <2> QED
    BY <2>2 DEF Balanced
<1>2. CASE tag \in ALLOWED_TAGS
  <2> DEFINE o == <<Open(opened)>>
             c == <<Close(tag)>>
  <2>1. Opened(opened) = o /\ Written(tag) = c \o l
    BY <1>2 DEF Opened, Written
  <2>2. Balanced(o \o s \o c)
    BY <1>2, BalancedTag
  <2>3. o \in Seq(Item) /\ c \in Seq(Item)
    <3>1. Open(opened) \in Item /\ Close(tag) \in Item
      BY <1>2 DEF Open, Close, Item, Token, Opening, ALLOWED_TAGS
    <3> QED
      BY <3>1
  <2> HIDE DEF o, c, l
  <2>4. o \o s \in Seq(Item)
    BY <1>0, <2>3, Joins
  <2>5. Regroups(o \o s, c, l)
    BY <1>1, <2>3, <2>4, JoinsAssociate, Zenon
  <2>6. Balanced((o \o s \o c) \o l)
    BY <1>1, <2>2, BalancedJoined
  <2> QED
    BY <2>1, <2>3, <2>5, <2>6 DEF Regroups
<1>3. CASE tag \notin ALLOWED_TAGS
  <2>1. Opened(opened) = <<>> /\ Written(tag) = <<>> \o l
    BY <1>3 DEF Opened, Written
  <2> HIDE DEF l
  <2>2. <<>> \o s = s /\ <<>> \o l = l /\ <<>> \in Seq(Item)
    BY <1>0, <1>1, Joins
  <2>3. Balanced(s \o l)
    BY <1>1, BalancedJoined
  <2> QED
    BY <2>1, <2>2, <2>3
<1> QED
  BY <1>2, <1>3

ClosesBehind(a, o, z, w) == ((a \o o) \o z) \o w = a \o (o \o z \o w)
LEMMA ClosedBehind ==
  ASSUME NEW a \in Seq(Item), NEW o \in Seq(Item), NEW z \in Seq(Item), NEW w \in Seq(Item)
  PROVE  ClosesBehind(a, o, z, w)
<1>1. a \o o \in Seq(Item) /\ z \o w \in Seq(Item) /\ o \o z \in Seq(Item)
  BY Joins
<1>2. Regroups(a \o o, z, w) /\ Regroups(a, o, z \o w) /\ Regroups(o, z, w)
  BY <1>1, JoinsAssociate, Zenon
<1> QED
  BY <1>2 DEF Regroups, ClosesBehind

\* The tag opened last is closed.
LEMMA LaidEnd ==
  ASSUME NEW state \in State, Laid(state), state.stack # <<>>, NEW tag \in Closing,
         TagOf(Last(state.stack).tag) = tag, NEW new \in State,
         new.stack = Front(state.stack), new.result = state.result \o Written(tag)
  PROVE  Laid(new)
<1> DEFINE n == Len(state.stack) - 1
           opened == state.stack[n + 1].tag
           o == Opened(opened)
           w == Written(tag)
<1>1. /\ n \in Nat /\ Len(state.stack) = n + 1 /\ state.stack \in Seq(Entry)
      /\ TagOf(opened) = tag /\ opened \in Opening
  <2>1. /\ n \in Nat /\ Len(state.stack) = n + 1 /\ state.stack \in Seq(Entry)
        /\ Last(state.stack) = state.stack[n + 1]
    BY DEF State, Last
  <2> HIDE DEF n
  <2>2. state.stack[n + 1] \in Entry
    BY <2>1
  <2> QED
    BY <2>1, <2>2 DEF Entry
<1>2. PICK seg, pre : LaidBy(state, seg, pre)
  BY DEF Laid
<1>8. Len(new.stack) = n /\ \A j \in 1 .. n : new.stack[j] = state.stack[j]
  BY <1>1 DEF Front
<1> HIDE DEF n
<1>3. /\ seg \in [0 .. n + 1 -> Seq(Item)] /\ pre \in [0 .. n + 1 -> Seq(Item)]
      /\ \A j \in 0 .. n + 1 : Balanced(seg[j])
      /\ pre[0] = seg[0] /\ state.result = pre[n + 1]
      /\ \A j \in 1 .. n + 1 :
          /\ pre[j] = (pre[j - 1] \o Opened(state.stack[j].tag)) \o seg[j]
          /\ state.stack[j].from = Len(pre[j - 1])
          /\ state.stack[j].to = Len(pre[j - 1] \o Opened(state.stack[j].tag))
  BY <1>1, <1>2 DEF LaidBy
<1> DEFINE last == seg[n + 1]
           more == o \o last \o w
<1>4. /\ n \in 0 .. n + 1 /\ seg[n] \in Seq(Item) /\ pre[n] \in Seq(Item) /\ last \in Seq(Item)
      /\ Balanced(seg[n]) /\ Balanced(last) /\ pre[n + 1] = (pre[n] \o o) \o last
  <2>1. n \in 0 .. n + 1 /\ n + 1 \in 0 .. n + 1 /\ n + 1 \in 1 .. n + 1 /\ (n + 1) - 1 = n
    BY <1>1
  <2>2. pre[n + 1] = (pre[n] \o Opened(state.stack[n + 1].tag)) \o seg[n + 1]
    BY <1>3, <2>1
  <2> QED
    BY <1>1, <1>3, <2>1, <2>2
<1>5. Balanced(more) /\ o \in Seq(Item) /\ w \in Seq(Item) /\ more \in Seq(Item)
  <2>1. Balanced(more) /\ o \in Seq(Item)
    BY <1>1, <1>4, BalancedAround
  <2>2. w \in Seq(Item)
    BY ClosedWritten
  <2> QED
    BY <2>1, <2>2 DEF Balanced
<1>6. new.result = pre[n] \o more
  <2>1. new.result = ((pre[n] \o o) \o last) \o w
    BY <1>3, <1>4
  <2> HIDE DEF o, w, last
  <2>2. ClosesBehind(pre[n], o, last, w)
    BY <1>4, <1>5, ClosedBehind, Zenon
  <2> QED
    BY <2>1, <2>2 DEF ClosesBehind
<1> HIDE DEF more
<1> DEFINE seg2 == [j \in 0 .. n |-> IF j = n THEN seg[n] \o more ELSE seg[j]]
           pre2 == [j \in 0 .. n |-> IF j = n THEN pre[n] \o more ELSE pre[j]]
<1>7. /\ seg2 \in [0 .. n -> Seq(Item)] /\ pre2 \in [0 .. n -> Seq(Item)]
      /\ seg2[n] = seg[n] \o more /\ pre2[n] = pre[n] \o more
      /\ \A j \in 0 .. n : j # n => seg2[j] = seg[j] /\ pre2[j] = pre[j]
  <2>1. \A j \in 0 .. n : j \in 0 .. n + 1
    BY <1>1
  <2>2. n \in 0 .. n
    BY <1>1
  <2>3. seg[n] \o more \in Seq(Item) /\ pre[n] \o more \in Seq(Item)
    BY <1>4, <1>5, Joins
  <2> QED
    BY <1>3, <2>1, <2>2, <2>3
<1> HIDE DEF seg2, pre2
<1>9. ASSUME NEW j \in 0 .. n PROVE Balanced(seg2[j])
  <2>1. CASE j = n
    BY <1>4, <1>5, <1>7, <2>1, BalancedJoined
  <2>2. CASE j # n
    <3>1. j \in 0 .. n + 1
      BY <1>1
    <3> QED
      BY <1>3, <1>7, <2>2, <3>1
  <2> QED
    BY <2>1, <2>2
<1>10. pre2[0] = seg2[0]
  <2>1. 0 \in 0 .. n
    BY <1>1
  <2> QED
    BY <1>3, <1>7, <2>1
<1>11. ASSUME NEW j \in 1 .. n
       PROVE  /\ pre2[j] = (pre2[j - 1] \o Opened(new.stack[j].tag)) \o seg2[j]
              /\ new.stack[j].from = Len(pre2[j - 1])
              /\ new.stack[j].to = Len(pre2[j - 1] \o Opened(new.stack[j].tag))
  <2>1. j - 1 \in 0 .. n /\ j - 1 # n /\ j \in 0 .. n /\ j \in 1 .. n + 1 /\ j - 1 \in 0 .. n + 1
    BY <1>1
  <2>2. pre2[j - 1] = pre[j - 1] /\ new.stack[j] = state.stack[j]
    BY <1>7, <1>8, <2>1
  <2>3. CASE j # n
    BY <1>3, <1>7, <2>1, <2>2, <2>3, ZenonT(30)
  <2>4. CASE j = n
    <3> DEFINE p == pre[j - 1] \o Opened(state.stack[j].tag)
    <3>1. p \in Seq(Item)
      <4>1. state.stack[j].tag \in Opening
        <5>1. state.stack[j] \in Entry
          BY <1>1, <2>1
        <5> QED
          BY <5>1 DEF Entry
      <4> QED
        BY <1>3, <2>1, <4>1, TagsWritten, Joins
    <3>2. pre[n] = p \o seg[n]
      BY <1>3, <2>1, <2>4
    <3> HIDE DEF p
    <3>3. Regroups(p, seg[n], more)
      BY <1>4, <1>5, <3>1, JoinsAssociate, Zenon
    <3> QED
      BY <1>3, <1>7, <2>1, <2>2, <2>4, <3>2, <3>3, ZenonT(30) DEF p, Regroups
  <2> QED
    BY <2>3, <2>4
<1>12. new.result = pre2[n]
  BY <1>6, <1>7
<1>13. LaidBy(new, seg2, pre2)
  BY <1>7, <1>8, <1>9, <1>10, <1>11, <1>12 DEF LaidBy
<1> QED
  BY <1>13 DEF Laid

\* Whatever token comes, the result stays laid out so, and only pieces add to the text.
Adds(token) == IF token.is \in {"text", "lined"} THEN <<token.of>> ELSE <<>>
LEMMA FedLaid ==
  ASSUME NEW state \in State, Laid(state), NEW token \in Token
  PROVE  /\ Feed(state, token) \in State /\ Laid(Feed(state, token))
         /\ Texts(Feed(state, token).result) = Texts(state.result) \o Adds(token)
<1> DEFINE new == Feed(state, token)
           r == state.result
<1>1. r \in Seq(Item) /\ state.stack \in Seq(Entry) /\ Texts(r) \in Seq(Nat)
  <2>1. r \in Seq(Item) /\ state.stack \in Seq(Entry)
    BY DEF State
  <2> QED
    BY <2>1, TextsJoined
<1>2. token.is \in {"open", "close", "text", "lined", "held"}
  BY DEF Token
<1>3. CASE token.is = "open"
  <2> DEFINE tag == token.of
             o == Opened(tag)
             entry == [tag |-> tag, from |-> Len(r), to |-> Len(r \o o)]
  <2>1. tag \in Opening /\ Adds(token) = <<>>
    BY <1>3 DEF Token, Adds
  <2>2. new = StartTag(state, tag)
    BY <1>3 DEF Feed
  <2>3. o \in Seq(Item) /\ Texts(o) = <<>> /\ r \o o \in Seq(Item) /\ Len(r \o o) \in Nat
    BY <1>1, <2>1, TagsWritten, Joins
  <2>4. (IF TagOf(tag) \in ALLOWED_TAGS THEN Append(r, Open(tag)) ELSE r) = r \o o
    <3>1. CASE TagOf(tag) \in ALLOWED_TAGS
      <4>1. Open(tag) \in Item
        BY <2>1 DEF Open, Item, Token
      <4>2. Append(r, Open(tag)) = r \o <<Open(tag)>>
        BY <1>1, <4>1, SMTT(30)
      <4> QED
        BY <3>1, <4>2 DEF Opened
    <3>2. CASE TagOf(tag) \notin ALLOWED_TAGS
      BY <1>1, <3>2, Joins DEF Opened
    <3> QED
      BY <3>1, <3>2
  <2>5. /\ new.result = r \o o
        /\ new.stack = IF tag \in {"br", "anchor"} THEN state.stack ELSE Append(state.stack, entry)
    <3> DEFINE written == IF TagOf(tag) \in ALLOWED_TAGS THEN Append(r, Open(tag)) ELSE r
    <3>1. StartTag(state, tag) =
            [result |-> written,
             stack |-> IF tag \in {"br", "anchor"} THEN state.stack
                       ELSE Append(state.stack, [tag |-> tag, from |-> Len(r), to |-> Len(written)])]
      BY DEF StartTag
    <3>2. written = r \o o
      BY <2>4
    <3> HIDE DEF new, o, written, tag, r
    <3> QED
      BY <2>2, <3>1, <3>2
  <2>6. entry \in Entry
    <3>1. Len(r) \in Nat
      BY <1>1
    <3> QED
      BY <2>1, <2>3, <3>1 DEF Entry
  <2>7. entry.tag = tag /\ entry.from = Len(r) /\ entry.to = Len(r \o o)
    OBVIOUS
  <2> HIDE DEF entry
  <2>8. new \in State
    <3>1. new = [result |-> new.result, stack |-> new.stack]
      BY <2>2 DEF StartTag
    <3>2. Append(state.stack, entry) \in Seq(Entry)
      BY <1>1, <2>6
    <3>3. new.result \in Seq(Item) /\ new.stack \in Seq(Entry)
      BY <1>1, <2>3, <2>5, <3>2
    <3> HIDE DEF new
    <3> QED
      BY <3>1, <3>3 DEF State
  <2>9. Laid(new)
    <3>1. CASE tag \in {"br", "anchor"}
      <4>1. o = <<>>
        BY <3>1 DEF Opened, ALLOWED_TAGS, TagOf
      <4>2. Balanced(<<>>)
        <5>1. NewLine \in Item /\ NewLine.is \notin {"open", "close"}
          BY DEF NewLine, Item
        <5> QED
          BY <5>1, BalancedOne
      <4>3. new.result = r \o <<>> /\ new.stack = state.stack
        BY <2>5, <3>1, <4>1
      <4> HIDE DEF new
      <4> QED
        BY <2>8, <4>2, <4>3, LaidMore
    <3>2. CASE tag \notin {"br", "anchor"}
      <4>1. new.stack = Append(state.stack, entry)
        BY <2>5, <3>2
      <4> HIDE DEF new, o, tag
      <4> QED
        BY <2>1, <2>5, <2>6, <2>7, <2>8, <4>1, LaidStart DEF o
    <3> QED
      BY <3>1, <3>2
  <2>10. Texts(new.result) = Texts(r) \o <<>>
    BY <1>1, <2>3, <2>5, TextsJoined
  <2> QED
    BY <2>1, <2>8, <2>9, <2>10
<1>4. CASE token.is = "close"
  <2> DEFINE tag == token.of
             w == Written(tag)
  <2>1. tag \in Closing /\ Adds(token) = <<>>
    BY <1>4 DEF Token, Adds
  <2>2. new = EndTag(state, tag)
    BY <1>4 DEF Feed
  <2>3. CASE state.stack = <<>> \/ TagOf(Last(state.stack).tag) # tag
    <3>1. new = state
      BY <2>2, <2>3 DEF EndTag
    <3>2. Texts(r) \o <<>> = Texts(r)
      BY <1>1, Joins
    <3> HIDE DEF new
    <3> QED
      BY <2>1, <3>1, <3>2 DEF new
  <2>4. CASE ~(state.stack = <<>> \/ TagOf(Last(state.stack).tag) # tag)
    <3>1. new = [result |-> r \o w, stack |-> Front(state.stack)]
      BY <2>2, <2>4 DEF EndTag
    <3>2. w \in Seq(Item) /\ Texts(w) = <<>> /\ r \o w \in Seq(Item)
      BY <1>1, <2>1, ClosedWritten, Joins
    <3>3. Front(state.stack) \in Seq(Entry)
      BY <1>1, <2>4 DEF Front
    <3>4. new.result = r \o w /\ new.stack = Front(state.stack)
      <4> HIDE DEF new, r, w
      <4> QED
        BY <3>1
    <3> HIDE DEF new
    <3>5. new \in State
      BY <3>1, <3>2, <3>3 DEF State
    <3>6. Laid(new)
      BY <2>1, <2>4, <3>4, <3>5, LaidEnd
    <3>7. Texts(new.result) = Texts(r) \o <<>>
      BY <1>1, <3>2, <3>4, TextsJoined
    <3> QED
      BY <2>1, <3>5, <3>6, <3>7 DEF new
  <2> QED
    BY <2>3, <2>4
<1>5. CASE token.is = "text"
  <2> DEFINE s == <<token>>
  <2>1. token \in Item /\ token.is \notin {"open", "close"} /\ Adds(token) = <<token.of>>
    BY <1>5 DEF Item, Adds
  <2>2. Balanced(s) /\ s \in Seq(Item) /\ Texts(s) = <<token.of>>
    <3>1. Text(token) = <<token.of>>
      BY <1>5 DEF Text
    <3> QED
      BY <2>1, <3>1, BalancedOne, TextsOne
  <2>3. new = [state EXCEPT !.result = Append(@, token)]
    BY <1>5 DEF Feed
  <2>4. Append(r, token) = r \o s
    <3> HIDE DEF r
    <3> QED
      BY <1>1, <2>1
  <2>5. new.result = r \o s /\ new.stack = state.stack /\ new = [result |-> r \o s, stack |-> state.stack]
    BY <2>3, <2>4 DEF State
  <2> HIDE DEF new, s
  <2>6. r \o s \in Seq(Item)
    BY <1>1, <2>2, Joins
  <2>7. new \in State
    BY <1>1, <2>5, <2>6 DEF State
  <2>8. Laid(new)
    BY <2>2, <2>5, <2>7, LaidMore
  <2>9. Texts(new.result) = Texts(r) \o Texts(s)
    BY <1>1, <2>2, <2>5, TextsJoined
  <2> QED
    BY <2>1, <2>2, <2>7, <2>8, <2>9 DEF new
<1>6. CASE token.is = "held"
  <2>1. new = state /\ Adds(token) = <<>>
    BY <1>6 DEF Feed, Adds
  <2>2. Texts(r) \o <<>> = Texts(r)
    BY <1>1, Joins
  <2> HIDE DEF new
  <2> QED
    BY <2>1, <2>2 DEF new
<1>7. CASE token.is = "lined"
  <2> DEFINE p == Piece(token.of)
             s == <<p, NewLine>>
  <2>1. token.of \in Nat /\ Adds(token) = <<token.of>>
    BY <1>7 DEF Token, Adds
  <2>2. /\ p \in Item /\ p.is \notin {"open", "close"} /\ Text(p) = <<token.of>>
        /\ NewLine \in Item /\ NewLine.is \notin {"open", "close"} /\ Text(NewLine) = <<>>
    BY <2>1 DEF Piece, NewLine, Item, Token, Text
  <2> HIDE DEF p
  <2>3. s = <<p>> \o <<NewLine>>
    OBVIOUS
  <2>4. /\ Balanced(<<p>>) /\ Texts(<<p>>) = <<token.of>> /\ <<p>> \in Seq(Item)
        /\ Balanced(<<NewLine>>) /\ Texts(<<NewLine>>) = <<>> /\ <<NewLine>> \in Seq(Item)
    BY <2>2, BalancedOne, TextsOne
  <2>5. Balanced(s) /\ s \in Seq(Item)
    BY <2>3, <2>4, BalancedJoined DEF Balanced
  <2>6. Texts(s) = <<token.of>>
    <3>1. Texts(s) = <<token.of>> \o <<>>
      BY <2>3, <2>4, TextsJoined
    <3> QED
      BY <2>1, <3>1
  <2>7. new = [state EXCEPT !.result = @ \o s]
    BY <1>7 DEF Feed, p
  <2>8. new.result = r \o s /\ new.stack = state.stack /\ new = [result |-> r \o s, stack |-> state.stack]
    BY <2>7 DEF State
  <2> HIDE DEF new, s
  <2>9. r \o s \in Seq(Item)
    BY <1>1, <2>5, Joins
  <2>10. new \in State
    BY <1>1, <2>8, <2>9 DEF State
  <2>11. Laid(new)
    BY <2>5, <2>8, <2>10, LaidMore
  <2>12. Texts(new.result) = Texts(r) \o Texts(s)
    BY <1>1, <2>5, <2>8, TextsJoined
  <2> QED
    BY <2>1, <2>6, <2>10, <2>11, <2>12 DEF new
<1> QED
  BY <1>2, <1>3, <1>4, <1>5, <1>6, <1>7

LaidStates == {state \in State : Laid(state)}

\* The fold that Fed is.
LEMMA FedStages ==
  ASSUME NEW n \in Nat, NEW s \in [1 .. n -> Token]
  PROVE  \E at \in [0 .. n -> LaidStates] :
            /\ at[0] = Reset /\ Fed(s) = at[n]
            /\ \A i \in 1 .. n : at[i] = Feed(at[i - 1], s[i])
<1> DEFINE X == LaidStates
           Then(i, state) == Feed(state, s[i])
           step == [i \in 1 .. n |-> [state \in X |-> Then(i, state)]]
           Eqn(iter) == iter = [t \in SUBSET (1 .. n) |-> IF t = {} THEN Reset
                                   ELSE Then(Max(t), iter[t \ {Max(t)}])]
           chosen == CHOOSE iter : Eqn(iter)
<1>1. Reset \in X /\ step \in [1 .. n -> [X -> X]]
  <2>1. ASSUME NEW i \in 1 .. n, NEW state \in X PROVE Then(i, state) \in X
    <3>1. state \in State /\ Laid(state) /\ s[i] \in Token
      BY DEF LaidStates
    <3> QED
      BY <3>1, FedLaid DEF LaidStates
  <2>2. Reset \in X
    BY LaidReset DEF LaidStates
  <2> HIDE DEF Then
  <2> QED
    BY <2>1, <2>2
<1>0. \A i \in 1 .. n : \A state \in X : step[i][state] = Then(i, state)
  OBVIOUS
<1>2. Fed(s) = chosen[1 .. n]
  BY DEF Fed, FoldLeft, MapThenFoldSet
<1> HIDE DEF X, Then, step
<1>3. HasStages(n, X, Reset, step)
  BY <1>1, StepByStep, Zenon
<1>4. PICK at \in [0 .. n -> X], iter \in [SUBSET (1 .. n) -> X] :
        /\ at[0] = Reset /\ \A i \in 1 .. n : at[i] = step[i][at[i - 1]]
        /\ IsFold(iter, 1 .. n, Reset, Largest(n), step)
        /\ \A f : Follows(f, 1 .. n, X, Reset, Largest(n), step) => f[1 .. n] = at[n]
  BY <1>3, Zenon DEF HasStages
<1>5. \A t \in (SUBSET (1 .. n)) \ {{}} :
         Largest(n)[t] = Max(t) /\ Max(t) \in 1 .. n /\ t \ {Max(t)} \in SUBSET (1 .. n)
  BY MaxOf DEF Largest
<1>6. Eqn(iter)
  <2>1. iter[{}] = Reset
    BY <1>4 DEF IsFold
  <2>2. ASSUME NEW t \in (SUBSET (1 .. n)) \ {{}}
        PROVE  iter[t] = Then(Max(t), iter[t \ {Max(t)}])
    <3>1. iter[t] = step[Max(t)][iter[t \ {Max(t)}]]
      BY <1>4, <1>5 DEF IsFold
    <3>2. iter[t \ {Max(t)}] \in X
      BY <1>5
    <3> QED
      BY <3>1, <3>2, <1>0, <1>5
  <2> QED
    BY <2>1, <2>2
<1>7. Eqn(chosen)
  <2> HIDE DEF Eqn
  <2> QED
    BY <1>6
<1> HIDE DEF chosen
<1>8. Follows(chosen, 1 .. n, X, Reset, Largest(n), step)
  <2>1. chosen[{}] = Reset
    BY <1>7
  <2>2. ASSUME NEW t \in (SUBSET (1 .. n)) \ {{}}, chosen[t \ {Largest(n)[t]}] \in X
        PROVE  chosen[t] = step[Largest(n)[t]][chosen[t \ {Largest(n)[t]}]]
    <3>1. Largest(n)[t] = Max(t) /\ Max(t) \in 1 .. n
      BY <1>5
    <3>2. chosen[t] = Then(Max(t), chosen[t \ {Max(t)}])
      BY <1>7
    <3> QED
      BY <3>1, <3>2, <1>0, <2>2
  <2> QED
    BY <2>1, <2>2 DEF Follows
<1>9. chosen[1 .. n] = at[n]
  BY <1>4, <1>8, Zenon
<1>10. ASSUME NEW i \in 1 .. n PROVE at[i] = Then(i, at[i - 1])
  <2>1. at[i - 1] \in X
    OBVIOUS
  <2> QED
    BY <2>1, <1>0, <1>4
<1>11. at \in [0 .. n -> LaidStates] /\ at[0] = Reset /\ Fed(s) = at[n]
  BY <1>2, <1>4, <1>9 DEF X
<1>12. \A i \in 1 .. n : at[i] = Feed(at[i - 1], s[i])
  BY <1>10 DEF Then
<1> QED
  BY <1>11, <1>12, Zenon

\* An entry is cut out where it lies within the result.
LEMMA CutLies ==
  ASSUME NEW r \in Seq(Item), NEW entry \in Entry, entry.from <= entry.to, entry.to <= Len(r)
  PROVE  Cut(r, entry) \in Seq(Item) /\ Len(Cut(r, entry)) >= entry.from
<1> DEFINE a == SubSeq(r, 1, entry.from)
           z == SubSeq(r, entry.to + 1, Len(r))
<1>1. entry.from \in Nat /\ entry.to \in Nat
  BY DEF Entry
<1>2. a \in Seq(Item) /\ Len(a) = entry.from
  BY <1>1
<1>3. z \in Seq(Item) /\ Len(z) \in Nat
  BY <1>1
<1>4. Cut(r, entry) = a \o z
  BY DEF Cut
<1> HIDE DEF a, z
<1>5. a \o z \in Seq(Item) /\ Len(a \o z) = Len(a) + Len(z)
  BY <1>2, <1>3, Joins
<1> QED
  BY <1>1, <1>2, <1>3, <1>4, <1>5

\* What an entry stands for is cut out, and nothing else.
LEMMA CutOut ==
  ASSUME NEW a \in Seq(Item), NEW o \in Seq(Item), NEW z \in Seq(Item), NEW entry \in Entry,
         entry.from = Len(a), entry.to = Len(a \o o)
  PROVE  Cut((a \o o) \o z, entry) = a \o z
<1> DEFINE r == (a \o o) \o z
<1>1. SubSeq(r, 1, Len(a)) = a
  OBVIOUS
<1>2. SubSeq(r, Len(a \o o) + 1, Len(r)) = z
  OBVIOUS
<1> QED
  BY <1>1, <1>2 DEF Cut

\* The largest of a set of indices, and of those up to one of them.
LEMMA MaxWithin ==
  ASSUME NEW n \in Nat, NEW t \in (SUBSET (1 .. n)) \ {{}}
  PROVE  /\ Max(t) \in t /\ Max(t) \in 1 .. n /\ Max(t) - 1 \in 0 .. n
         /\ t \ {Max(t)} \in SUBSET (1 .. n) /\ t \ {Max(t)} \in SUBSET (1 .. (Max(t) - 1))
<1> DEFINE m == Max(t)
<1>1. m \in t /\ \A x \in t : m >= x /\ x \in 1 .. n
  BY MaxOf
<1> HIDE DEF m
<1>2. m \in 1 .. n /\ m - 1 \in 0 .. n
  BY <1>1
<1>3. t \ {m} \in SUBSET (1 .. (m - 1))
  BY <1>1, <1>2
<1> QED
  BY <1>1, <1>2, <1>3 DEF m

LEMMA MaxUpto ==
  ASSUME NEW n \in Nat, NEW i \in 1 .. n
  PROVE  /\ 1 .. i \in (SUBSET (1 .. n)) \ {{}} /\ Max(1 .. i) = i
         /\ (1 .. i) \ {i} = 1 .. (i - 1) /\ i - 1 \in 0 .. n /\ i \in 0 .. n
<1>1. 1 .. i \in (SUBSET (1 .. n)) \ {{}} /\ i \in 1 .. i
  OBVIOUS
<1>2. Max(1 .. i) \in 1 .. i /\ Max(1 .. i) >= i
  BY <1>1, MaxOf
<1> QED
  BY <1>1, <1>2

LEMMA MaxTop ==
  ASSUME NEW n \in Nat, NEW i \in Nat, i + 1 <= n, NEW t \in SUBSET (1 .. (i + 1)), i + 1 \in t
  PROVE  t \in (SUBSET (1 .. n)) \ {{}} /\ Max(t) = i + 1
<1>1. t \in (SUBSET (1 .. n)) \ {{}}
  OBVIOUS
<1> DEFINE m == Max(t)
<1>2. m \in t /\ m >= i + 1
  BY <1>1, MaxOf
<1> HIDE DEF m
<1>3. m = i + 1
  BY <1>2
<1> QED
  BY <1>1, <1>3 DEF m

\* The fold that cuts out entries each of which lies before the one that was cut out last.
CutBy(n, base, e) == \E at \in [0 .. n -> Seq(Item)] :
    /\ at[0] = base /\ FoldLeft(Cut, base, e) = at[n]
    /\ \A i \in 1 .. n : at[i] = Cut(at[i - 1], e[i])

LEMMA CutStages ==
  ASSUME NEW n \in Nat, NEW base \in Seq(Item), NEW e \in [1 .. n -> Entry],
         NEW low \in [0 .. n -> Nat], low[0] <= Len(base),
         \A i \in 1 .. n : e[i].from <= e[i].to /\ e[i].to <= low[i - 1] /\ low[i] = e[i].from
  PROVE  CutBy(n, base, e)
<1> DEFINE X == Seq(Item)
           S == 1 .. n
           Then(i, r) == Cut(r, e[i])
           step == [i \in S |-> [r \in X |-> IF Then(i, r) \in X THEN Then(i, r) ELSE r]]
           Eqn(iter) == iter = [t \in SUBSET S |-> IF t = {} THEN base
                                   ELSE Then(Max(t), iter[t \ {Max(t)}])]
           chosen == CHOOSE iter : Eqn(iter)
<1>1. base \in X /\ step \in [S -> [X -> X]]
  <2> HIDE DEF Then
  <2> QED
    OBVIOUS
<1>2. \A i \in S : \A r \in X : Then(i, r) \in X => step[i][r] = Then(i, r)
  <2> HIDE DEF Then
  <2> QED
    OBVIOUS
<1>3. FoldLeft(Cut, base, e) = chosen[1 .. n]
  BY DEF FoldLeft, MapThenFoldSet
<1>4. ASSUME NEW i \in S, NEW r \in X, Len(r) >= low[i - 1]
      PROVE  Then(i, r) \in X /\ Len(Then(i, r)) >= low[i]
  <2>1. e[i] \in Entry /\ e[i].from <= e[i].to /\ e[i].to <= low[i - 1] /\ low[i] = e[i].from
    OBVIOUS
  <2>2. e[i].to \in Nat /\ low[i - 1] \in Nat /\ Len(r) \in Nat
    <3>1. i - 1 \in 0 .. n
      OBVIOUS
    <3> QED
      BY <2>1, <3>1 DEF Entry
  <2>3. e[i].to <= Len(r)
    BY <1>4, <2>1, <2>2
  <2> QED
    BY <2>1, <2>3, CutLies
<1>5. /\ HasFold(S, X, base, Largest(n), step)
      /\ \A t \in (SUBSET S) \ {{}} : Largest(n)[t] = Max(t) /\ Max(t) \in t /\ \A x \in t : Max(t) >= x
  <2>1. IsFiniteSet(S) /\ Largest(n) \in Picks(S)
    BY FS_Interval, LargestPicks
  <2>2. \A t \in (SUBSET S) \ {{}} : Largest(n)[t] = Max(t) /\ Max(t) \in t /\ \A x \in t : Max(t) >= x
    BY MaxOf DEF Largest
  <2> HIDE DEF X, S, step
  <2>3. HasFold(S, X, base, Largest(n), step)
    BY <1>1, <2>1, FoldExists, Zenon
  <2> QED
    BY <2>2, <2>3
<1> HIDE DEF X, Then, step
<1>6. PICK iter \in [SUBSET S -> X] : IsFold(iter, S, base, Largest(n), step)
  <2> HIDE DEF S
  <2> QED
    BY <1>5, Zenon DEF HasFold
<1>7. /\ iter[{}] = base
      /\ \A t \in (SUBSET S) \ {{}} : iter[t] = step[Max(t)][iter[t \ {Max(t)}]]
  BY <1>5, <1>6 DEF IsFold
<1> DEFINE Enough(i) == \A t \in SUBSET (1 .. i) : Len(iter[t]) >= low[i]
           T == {i \in Nat : i <= n => Enough(i)}
<1>8. ASSUME NEW t \in (SUBSET S) \ {{}}, Enough(Max(t) - 1)
      PROVE  iter[t] = Then(Max(t), iter[t \ {Max(t)}]) /\ Len(iter[t]) >= low[Max(t)]
  <2> DEFINE m == Max(t)
             rest == t \ {m}
  <2>1. m \in S /\ rest \in SUBSET S /\ rest \in SUBSET (1 .. (m - 1))
    BY MaxWithin
  <2>2. Len(iter[rest]) >= low[m - 1] /\ iter[rest] \in X
    BY <1>8, <2>1
  <2>3. iter[t] = step[m][iter[rest]]
    BY <1>7
  <2> HIDE DEF m, rest, Enough
  <2>4. Then(m, iter[rest]) \in X /\ Len(Then(m, iter[rest])) >= low[m]
    BY <1>4, <2>1, <2>2
  <2>5. iter[t] = Then(m, iter[rest])
    BY <1>2, <2>1, <2>2, <2>3, <2>4
  <2> QED
    BY <2>4, <2>5 DEF m, rest
<1>9. 0 \in T
  <2>1. \A t \in SUBSET (1 .. 0) : t = {}
    OBVIOUS
  <2> QED
    BY <1>7, <2>1
<1>10. ASSUME NEW i \in Nat, i \in T PROVE i + 1 \in T
  <2> HIDE DEF Enough
  <2> SUFFICES ASSUME i + 1 <= n PROVE Enough(i + 1)
    OBVIOUS
  <2>1. i + 1 \in S /\ (i + 1) - 1 = i /\ i \in 0 .. n /\ i + 1 \in 0 .. n /\ i <= n
    OBVIOUS
  <2>2. Enough(i)
    BY <1>10, <2>1
  <2> HIDE DEF T
  <2>3. low[i + 1] <= low[i] /\ low[i] \in Nat /\ low[i + 1] \in Nat
    <3>1. e[i + 1] \in Entry /\ e[i + 1].from <= e[i + 1].to /\ e[i + 1].to <= low[i]
          /\ low[i + 1] = e[i + 1].from
      BY <2>1
    <3>2. e[i + 1].from \in Nat /\ e[i + 1].to \in Nat /\ low[i] \in Nat
      BY <2>1, <3>1 DEF Entry
    <3> QED
      BY <3>1, <3>2, SMTT(30)
  <2>4. ASSUME NEW t \in SUBSET (1 .. (i + 1)) PROVE Len(iter[t]) >= low[i + 1]
    <3>1. CASE i + 1 \in t
      <4>1. t \in (SUBSET S) \ {{}} /\ Max(t) = i + 1
        BY <3>1, MaxTop
      <4> HIDE DEF S
      <4> QED
        BY <1>8, <2>1, <2>2, <4>1
    <3>2. CASE i + 1 \notin t
      <4>1. t \in SUBSET (1 .. i) /\ t \in SUBSET S
        BY <2>1, <3>2
      <4>2. Len(iter[t]) >= low[i] /\ iter[t] \in X
        BY <2>2, <4>1 DEF Enough
      <4>3. Len(iter[t]) \in Nat
        BY <4>2 DEF X
      <4> QED
        BY <2>3, <4>2, <4>3, SMTT(30)
    <3> QED
      BY <3>1, <3>2
  <2> QED
    BY <2>4 DEF Enough
<1>11. ASSUME NEW i \in 0 .. n PROVE Enough(i)
  <2> HIDE DEF T, Enough
  <2>1. i \in Nat
    OBVIOUS
  <2>2. Nat \subseteq T
    BY <1>9, <1>10, SetInduction
  <2> QED
    BY <2>1, <2>2 DEF T
<1> HIDE DEF T, Enough
<1>12. Eqn(iter)
  <2>1. ASSUME NEW t \in (SUBSET S) \ {{}} PROVE iter[t] = Then(Max(t), iter[t \ {Max(t)}])
    <3>1. Max(t) - 1 \in 0 .. n
      BY MaxWithin
    <3> HIDE DEF S
    <3> QED
      BY <1>8, <1>11, <3>1
  <2> QED
    BY <1>7, <2>1
<1>13. Eqn(chosen)
  <2> HIDE DEF Eqn
  <2> QED
    BY <1>12
<1> HIDE DEF chosen
<1>14. chosen[{}] = base /\ \A t \in (SUBSET S) \ {{}} : chosen[t] = Then(Max(t), chosen[t \ {Max(t)}])
  BY <1>13
<1> DEFINE at == [i \in 0 .. n |-> iter[1 .. i]]
           U == {i \in Nat : i <= n => chosen[1 .. i] = at[i]}
<1>15. at \in [0 .. n -> X] /\ at[0] = base
  <2>1. 1 .. 0 = {} /\ 0 \in 0 .. n /\ \A i \in 0 .. n : 1 .. i \in SUBSET S
    OBVIOUS
  <2> QED
    BY <1>7, <2>1
<1>16. ASSUME NEW i \in 1 .. n
       PROVE  /\ at[i] = Then(i, at[i - 1]) /\ chosen[1 .. i] = Then(i, chosen[1 .. (i - 1)])
  <2>1. 1 .. i \in (SUBSET S) \ {{}} /\ (1 .. i) \ {i} = 1 .. (i - 1) /\ i - 1 \in 0 .. n /\ i \in 0 .. n
    BY MaxUpto
  <2>2. Max(1 .. i) = i
    BY MaxUpto
  <2>3. iter[1 .. i] = Then(i, iter[1 .. (i - 1)])
    BY <1>8, <1>11, <2>1, <2>2
  <2>4. chosen[1 .. i] = Then(i, chosen[1 .. (i - 1)])
    BY <1>14, <2>1, <2>2
  <2> QED
    BY <2>1, <2>3, <2>4
<1>17. 0 \in U
  <2>1. 1 .. 0 = {}
    OBVIOUS
  <2> QED
    BY <1>14, <1>15, <2>1
<1>18. ASSUME NEW i \in Nat, i \in U PROVE i + 1 \in U
  <2> HIDE DEF at
  <2> SUFFICES ASSUME i + 1 <= n PROVE chosen[1 .. (i + 1)] = at[i + 1]
    OBVIOUS
  <2>1. chosen[1 .. i] = at[i] /\ i + 1 \in 1 .. n /\ (i + 1) - 1 = i
    BY <1>18
  <2>2. at[i + 1] = Then(i + 1, at[i]) /\ chosen[1 .. (i + 1)] = Then(i + 1, chosen[1 .. i])
    BY <1>16, <2>1
  <2> QED
    BY <2>1, <2>2
<1> HIDE DEF at
<1>19. chosen[1 .. n] = at[n]
  <2> HIDE DEF U
  <2>1. n \in U
    BY <1>17, <1>18, SetInduction
  <2> QED
    BY <2>1 DEF U
<1>20. /\ at \in [0 .. n -> Seq(Item)] /\ at[0] = base /\ FoldLeft(Cut, base, e) = at[n]
       /\ \A i \in 1 .. n : at[i] = Cut(at[i - 1], e[i])
  BY <1>3, <1>15, <1>16, <1>19 DEF X, Then
<1> QED
  BY <1>20, Zenon DEF CutBy

\* Once the tags that are still open are cut out, what is left is balanced and has the text.
LEMMA CutLaid ==
  ASSUME NEW state \in State, Laid(state)
  PROVE  LET whole == FoldLeft(Cut, state.result, Reverse(state.stack))
         IN  Balanced(whole) /\ Texts(whole) = Texts(state.result)
<1> DEFINE m == Len(state.stack)
           base == state.result
           e == Reverse(state.stack)
<1>1. /\ m \in Nat /\ base \in Seq(Item) /\ state.stack \in [1 .. m -> Entry]
      /\ e \in [1 .. m -> Entry] /\ \A i \in 1 .. m : e[i] = state.stack[m - i + 1]
  <2>1. state.stack \in Seq(Entry) /\ base \in Seq(Item)
    BY DEF State
  <2>2. m \in Nat /\ state.stack \in [1 .. m -> Entry]
    BY <2>1
  <2>3. e = [i \in 1 .. m |-> state.stack[(m - i) + 1]]
    BY DEF Reverse
  <2> HIDE DEF e, m
  <2>4. \A i \in 1 .. m : (m - i) + 1 \in 1 .. m
    BY <2>2
  <2> QED
    BY <2>1, <2>2, <2>3, <2>4
<1>2. PICK seg, pre : LaidBy(state, seg, pre)
  BY DEF Laid
<1> HIDE DEF m, e
<1>3. /\ seg \in [0 .. m -> Seq(Item)] /\ pre \in [0 .. m -> Seq(Item)]
      /\ \A j \in 0 .. m : Balanced(seg[j])
      /\ pre[0] = seg[0] /\ base = pre[m]
      /\ \A j \in 1 .. m :
          /\ pre[j] = (pre[j - 1] \o Opened(state.stack[j].tag)) \o seg[j]
          /\ state.stack[j].from = Len(pre[j - 1])
          /\ state.stack[j].to = Len(pre[j - 1] \o Opened(state.stack[j].tag))
  BY <1>2 DEF LaidBy, m
<1> DEFINE low == [i \in 0 .. m |-> Len(pre[m - i])]
<1>4. \A i \in 0 .. m : m - i \in 0 .. m /\ pre[m - i] \in Seq(Item) /\ low[i] = Len(pre[m - i])
  <2>1. \A i \in 0 .. m : m - i \in 0 .. m
    BY <1>1
  <2> QED
    BY <1>3, <2>1
<1>5. low \in [0 .. m -> Nat] /\ low[0] = Len(base)
  <2>1. \A i \in 0 .. m : Len(pre[m - i]) \in Nat
    BY <1>4
  <2>2. 0 \in 0 .. m /\ m - 0 = m
    BY <1>1
  <2> QED
    BY <1>3, <2>1, <2>2
<1> HIDE DEF low
<1>6. ASSUME NEW j \in 1 .. m
      PROVE  LET a == pre[j - 1]
                 o == Opened(state.stack[j].tag)
             IN  /\ a \in Seq(Item) /\ o \in Seq(Item) /\ seg[j] \in Seq(Item) /\ Texts(o) = <<>>
                 /\ pre[j] = (a \o o) \o seg[j] /\ j \in 0 .. m /\ j - 1 \in 0 .. m
                 /\ state.stack[j] \in Entry
                 /\ state.stack[j].from = Len(a) /\ state.stack[j].to = Len(a \o o)
                 /\ Len(a) <= Len(a \o o) /\ Len(a \o o) <= Len(pre[j])
  <2> DEFINE a == pre[j - 1]
             o == Opened(state.stack[j].tag)
             z == seg[j]
  <2>1. j - 1 \in 0 .. m /\ j \in 0 .. m
    BY <1>1
  <2>2. state.stack[j] \in Entry
    BY <1>1
  <2>3. o \in Seq(Item) /\ Texts(o) = <<>>
    <3>1. state.stack[j].tag \in Opening
      BY <2>2 DEF Entry
    <3> QED
      BY <3>1, TagsWritten
  <2>4. a \in Seq(Item) /\ z \in Seq(Item)
    BY <1>3, <2>1
  <2>5. /\ pre[j] = (a \o o) \o z /\ state.stack[j].from = Len(a)
        /\ state.stack[j].to = Len(a \o o)
    BY <1>3
  <2>6. Len(a) <= Len(a \o o) /\ Len(a \o o) <= Len((a \o o) \o z)
    <3> HIDE DEF a, o, z
    <3>1. a \o o \in Seq(Item) /\ Len(a \o o) = Len(a) + Len(o) /\ Len(a) \in Nat /\ Len(o) \in Nat
      BY <2>3, <2>4, Joins
    <3>2. Len((a \o o) \o z) = Len(a \o o) + Len(z) /\ Len(z) \in Nat
      BY <2>4, <3>1, Joins
    <3> QED
      BY <3>1, <3>2
  <2> QED
    BY <2>1, <2>2, <2>3, <2>4, <2>5, <2>6
<1>7. ASSUME NEW i \in 1 .. m
      PROVE  /\ m - i + 1 \in 1 .. m /\ m - (i - 1) = m - i + 1 /\ (m - i + 1) - 1 = m - i
             /\ i \in 0 .. m /\ i - 1 \in 0 .. m
  BY <1>1
<1>8. \A i \in 1 .. m : e[i].from <= e[i].to /\ e[i].to <= low[i - 1] /\ low[i] = e[i].from
  <2> TAKE i \in 1 .. m
  <2> DEFINE j == m - i + 1
  <2>1. j \in 1 .. m /\ m - (i - 1) = j /\ j - 1 = m - i /\ i \in 0 .. m /\ i - 1 \in 0 .. m
    BY <1>7
  <2>2. e[i] = state.stack[j]
    BY <1>1
  <2> HIDE DEF j
  <2>3. low[i] = Len(pre[j - 1]) /\ low[i - 1] = Len(pre[j])
    BY <1>4, <2>1
  <2> QED
    BY <1>6, <2>1, <2>2, <2>3
<1>9. PICK at \in [0 .. m -> Seq(Item)] :
        /\ at[0] = base /\ FoldLeft(Cut, base, e) = at[m]
        /\ \A i \in 1 .. m : at[i] = Cut(at[i - 1], e[i])
  <2>1. low[0] <= Len(base)
    <3>1. Len(base) \in Nat
      BY <1>1
    <3> QED
      BY <1>5, <3>1
  <2> HIDE DEF base
  <2>2. CutBy(m, base, e)
    BY <1>1, <1>5, <1>8, <2>1, CutStages
  <2> QED
    BY <2>2, Zenon DEF CutBy
<1> HIDE DEF base
<1> DEFINE Left(i, tail) == /\ Balanced(tail) /\ at[i] = pre[m - i] \o tail
                            /\ Texts(at[i]) = Texts(base)
           T == {i \in Nat : i <= m => \E tail : Left(i, tail)}
<1>10. 0 \in T
  <2>1. Balanced(<<>>)
    <3>1. NewLine \in Item /\ NewLine.is \notin {"open", "close"}
      BY DEF NewLine, Item
    <3> QED
      BY <3>1, BalancedOne
  <2>2. base \o <<>> = base /\ m - 0 = m
    BY <1>1, Joins
  <2>3. Left(0, <<>>)
    BY <1>3, <1>9, <2>1, <2>2
  <2> QED
    BY <2>3
<1>11. ASSUME NEW i \in Nat, i \in T PROVE i + 1 \in T
  <2> HIDE DEF Left
  <2> SUFFICES ASSUME i + 1 <= m PROVE \E tail : Left(i + 1, tail)
    OBVIOUS
  <2> DEFINE j == m - i
             a == pre[j - 1]
             o == Opened(state.stack[j].tag)
             z == seg[j]
  <2>1. PICK tail : Left(i, tail)
    BY <1>1, <1>11
  <2>2. /\ j \in 1 .. m /\ i + 1 \in 1 .. m /\ (i + 1) - 1 = i /\ m - (i + 1) = j - 1
        /\ m - (i + 1) + 1 = j /\ j \in 0 .. m
    BY <1>1
  <2> HIDE DEF T, j
  <2>3. /\ a \in Seq(Item) /\ o \in Seq(Item) /\ z \in Seq(Item) /\ Texts(o) = <<>>
        /\ pre[j] = (a \o o) \o z /\ state.stack[j] \in Entry
        /\ state.stack[j].from = Len(a) /\ state.stack[j].to = Len(a \o o)
    BY <1>6, <2>2
  <2>4. at[i + 1] = Cut(at[i], state.stack[j])
    BY <1>1, <1>9, <2>2
  <2>5. Balanced(tail) /\ tail \in Seq(Item) /\ at[i] = pre[j] \o tail /\ Texts(at[i]) = Texts(base)
    BY <2>1 DEF Left, Balanced, j
  <2>6. Balanced(z)
    BY <1>3, <2>2
  <2> HIDE DEF a, o, z
  <2>7. Balanced(z \o tail) /\ z \o tail \in Seq(Item) /\ a \o o \in Seq(Item)
    BY <2>3, <2>5, <2>6, BalancedJoined, Joins
  <2>8. ((a \o o) \o z) \o tail = (a \o o) \o (z \o tail)
    <3> DEFINE b == a \o o
    <3>1. b \in Seq(Item) /\ z \in Seq(Item) /\ tail \in Seq(Item)
      BY <2>3, <2>5, <2>7
    <3> HIDE DEF b
    <3>2. Regroups(b, z, tail)
      BY <3>1, JoinsAssociate, Zenon
    <3> QED
      BY <3>2 DEF Regroups, b
  <2>9. at[i] = (a \o o) \o (z \o tail)
    BY <2>3, <2>5, <2>8
  <2>10. at[i + 1] = a \o (z \o tail)
    <3> DEFINE rest == z \o tail
               entry == state.stack[j]
    <3>1. /\ a \in Seq(Item) /\ o \in Seq(Item) /\ rest \in Seq(Item) /\ entry \in Entry
          /\ entry.from = Len(a) /\ entry.to = Len(a \o o)
      BY <2>3, <2>7
    <3>2. at[i + 1] = Cut((a \o o) \o rest, entry)
      BY <2>4, <2>9
    <3> HIDE DEF rest, entry
    <3>3. Cut((a \o o) \o rest, entry) = a \o rest
      BY <3>1, CutOut
    <3> QED
      BY <3>2, <3>3 DEF rest
  <2>11. Texts(a \o (z \o tail)) = Texts((a \o o) \o (z \o tail))
    <3>1. Texts(a \o o) = Texts(a) \o Texts(o) /\ Texts(a) \in Seq(Nat)
      BY <2>3, TextsJoined
    <3>2. Texts(a) \o <<>> = Texts(a)
      BY <3>1, Joins
    <3>3. Texts(a \o o) = Texts(a)
      BY <2>3, <3>1, <3>2
    <3>4. /\ Texts((a \o o) \o (z \o tail)) = Texts(a \o o) \o Texts(z \o tail)
          /\ Texts(a \o (z \o tail)) = Texts(a) \o Texts(z \o tail)
      BY <2>3, <2>7, TextsJoined
    <3> QED
      BY <3>3, <3>4
  <2>12. Left(i + 1, z \o tail)
    BY <2>2, <2>5, <2>7, <2>9, <2>10, <2>11 DEF Left, a
  <2> QED
    BY <2>12
<1>12. PICK tail : Left(m, tail)
  <2> HIDE DEF T, Left
  <2>1. Nat \subseteq T
    BY <1>10, <1>11, SetInduction
  <2> QED
    BY <1>1, <2>1 DEF T
<1>13. Balanced(at[m]) /\ Texts(at[m]) = Texts(base)
  <2>1. m - m = 0 /\ 0 \in 0 .. m
    BY <1>1
  <2>2. Balanced(seg[0])
    BY <1>3, <2>1
  <2> QED
    BY <1>3, <1>12, <2>1, <2>2, BalancedJoined
<1> QED
  BY <1>9, <1>13 DEF base, e

\* The piece that is held back, which is the last token if there is one, comes at the end.
AtTheEnd(tokens) == FlattenSeq([k \in DOMAIN tokens |->
    IF tokens[k].is = "held" THEN <<Piece(tokens[k].of)>> ELSE <<>>])
HeldLast(tokens) == \A k \in DOMAIN tokens : tokens[k].is = "held" => k = Len(tokens)

LEMMA HeldAre ==
  ASSUME NEW tokens \in Seq(Token), HeldLast(tokens)
  PROVE  /\ Balanced(AtTheEnd(tokens))
         /\ Texts(tokens) = Texts(Fed(tokens).result) \o Texts(AtTheEnd(tokens))
         /\ Fed(tokens) \in LaidStates
<1> DEFINE n == Len(tokens)
           isHeld == n > 0 /\ tokens[n].is = "held"
           piece == IF isHeld THEN <<Piece(tokens[n].of)>> ELSE <<>>
           text == IF isHeld THEN <<tokens[n].of>> ELSE <<>>
<1>1. n \in Nat /\ tokens \in [1 .. n -> Token] /\ DOMAIN tokens = 1 .. n
  OBVIOUS
<1>2. \A k \in 1 .. n : tokens[k].is = "held" => k = n
  BY <1>1, ZenonT(30) DEF HeldLast
<1>3. PICK at \in [0 .. n -> LaidStates] :
        /\ at[0] = Reset /\ Fed(tokens) = at[n]
        /\ \A i \in 1 .. n : at[i] = Feed(at[i - 1], tokens[i])
  <2> HIDE DEF n
  <2> QED
    BY <1>1, FedStages
<1>4. /\ piece \in Seq(Item) /\ Balanced(piece) /\ Texts(piece) = text /\ text \in Seq(Nat)
  <2>1. CASE isHeld
    <3> DEFINE p == Piece(tokens[n].of)
    <3>1. tokens[n].of \in Nat
      <4>1. tokens[n] \in Token /\ tokens[n].is = "held"
        BY <1>1, <2>1
      <4> QED
        BY <4>1 DEF Token
    <3>2. p \in Item /\ p.is \notin {"open", "close"} /\ Text(p) = <<tokens[n].of>>
      BY <3>1 DEF Piece, Item, Token, Text
    <3> HIDE DEF p
    <3>3. Balanced(<<p>>) /\ Texts(<<p>>) = Text(p) /\ <<p>> \in Seq(Item)
      BY <3>2, BalancedOne, TextsOne
    <3> QED
      BY <2>1, <3>1, <3>2, <3>3 DEF p
  <2>2. CASE ~isHeld
    <3>1. NewLine \in Item /\ NewLine.is \notin {"open", "close"}
      BY DEF NewLine, Item
    <3>2. Balanced(<<>>) /\ Texts(<<>>) = <<>>
      BY <3>1, BalancedOne, TextsOne
    <3> QED
      BY <2>2, <3>2
  <2> QED
    BY <2>1, <2>2
<1>5. ASSUME NEW k \in 1 .. n
      PROVE  /\ (tokens[k].is = "held") <=> (k = n /\ isHeld)
             /\ Text(tokens[k]) = Adds(tokens[k]) \o (IF k = n THEN text ELSE <<>>)
             /\ Text(tokens[k]) \in Seq(Nat)
  <2>1. (tokens[k].is = "held") <=> (k = n /\ isHeld)
    <3>1. n > 0
      BY <1>1
    <3>2. tokens[k].is = "held" => k = n
      BY <1>2
    <3> HIDE DEF n
    <3> QED
      BY <3>1, <3>2
  <2>2. tokens[k] \in Token /\ tokens[k] \in Item
    BY <1>1 DEF Item
  <2>3. Text(tokens[k]) \in Seq(Nat)
    BY <2>2, TextOf
  <2>4. CASE tokens[k].is = "held"
    <3>1. k = n /\ text = <<tokens[k].of>> /\ tokens[k].of \in Nat
      BY <2>1, <2>2, <2>4 DEF Token
    <3>2. Adds(tokens[k]) = <<>> /\ Text(tokens[k]) = <<tokens[k].of>>
      BY <2>4 DEF Adds, Text
    <3>3. <<>> \o <<tokens[k].of>> = <<tokens[k].of>>
      BY <3>1
    <3> QED
      BY <2>1, <2>3, <3>1, <3>2, <3>3
  <2>5. CASE tokens[k].is # "held"
    <3>1. k = n => text = <<>>
      BY <2>1, <2>5
    <3>2. Adds(tokens[k]) = Text(tokens[k])
      BY <2>5 DEF Adds, Text
    <3>3. Text(tokens[k]) \o <<>> = Text(tokens[k])
      BY <2>3
    <3> QED
      BY <2>1, <2>3, <3>1, <3>2, <3>3
  <2> QED
    BY <2>4, <2>5
<1> HIDE DEF n, piece, text
<1>6. AtTheEnd(tokens) = piece
  <2> DEFINE seqs == [k \in 1 .. n |-> IF tokens[k].is = "held" THEN <<Piece(tokens[k].of)>> ELSE <<>>]
             d == [k \in 0 .. n |-> IF k < n THEN <<>> ELSE piece]
  <2>1. \A k \in 1 .. n : seqs[k] = IF k = n THEN piece ELSE <<>>
    <3> TAKE k \in 1 .. n
    <3>1. k = n /\ isHeld => piece = <<Piece(tokens[k].of)>>
      BY DEF piece
    <3>2. ~isHeld => piece = <<>>
      BY DEF piece
    <3> HIDE DEF isHeld
    <3> QED
      BY <1>5, <3>1, <3>2
  <2>2. seqs \in [1 .. n -> Seq(Item)]
    <3>1. \A k \in 1 .. n : (IF k = n THEN piece ELSE <<>>) \in Seq(Item)
      BY <1>4
    <3>2. seqs = [k \in 1 .. n |-> IF k = n THEN piece ELSE <<>>]
      <4> HIDE DEF isHeld
      <4> QED
        BY <2>1
    <3> HIDE DEF seqs
    <3> QED
      BY <3>1, <3>2
  <2>3. d \in [0 .. n -> Seq(Item)]
    BY <1>1, <1>4
  <2>4. d[0] = <<>>
    <3>1. CASE n = 0
      BY <1>1, <3>1 DEF piece
    <3>2. CASE n # 0
      BY <1>1, <3>2
    <3> QED
      BY <3>1, <3>2
  <2>5. \A i \in 1 .. n : d[i] = d[i - 1] \o seqs[i]
    <3> TAKE i \in 1 .. n
    <3>1. i - 1 \in 0 .. n /\ i - 1 < n /\ i \in 0 .. n /\ (i < n <=> i # n)
      BY <1>1
    <3>2. d[i - 1] = <<>> /\ d[i] = IF i = n THEN piece ELSE <<>>
      BY <3>1
    <3>3. <<>> \o piece = piece /\ <<>> \o <<>> = <<>>
      BY <1>4, Joins
    <3> HIDE DEF seqs, d
    <3> QED
      BY <2>1, <3>2, <3>3
  <2> HIDE DEF d
  <2>6. d[n] = piece
    BY <1>1 DEF d
  <2>7. AtTheEnd(tokens) = FlattenSeq(seqs)
    BY <1>1 DEF AtTheEnd
  <2> HIDE DEF seqs
  <2>8. FlattenSeq(seqs) = d[n]
    BY <1>1, <2>2, <2>3, <2>4, <2>5, FlattenedIs
  <2> QED
    BY <2>6, <2>7, <2>8
<1>7. ASSUME NEW i \in 0 .. n
      PROVE  at[i] \in State /\ Laid(at[i]) /\ Texts(at[i].result) \in Seq(Nat)
  <2>1. at[i] \in State /\ Laid(at[i])
    BY DEF LaidStates
  <2>2. at[i].result \in Seq(Item)
    BY <2>1 DEF State
  <2> QED
    BY <2>1, <2>2, TextsJoined
<1>8. ASSUME NEW i \in 1 .. n
      PROVE  Texts(at[i].result) = Texts(at[i - 1].result) \o Adds(tokens[i])
  <2>1. i - 1 \in 0 .. n
    BY <1>1
  <2>2. at[i - 1] \in State /\ Laid(at[i - 1]) /\ tokens[i] \in Token
    BY <1>1, <1>7, <2>1
  <2>3. at[i] = Feed(at[i - 1], tokens[i])
    BY <1>3
  <2> QED
    BY <2>2, <2>3, FedLaid
<1>9. Texts(tokens) = Texts(at[n].result) \o text
  <2> DEFINE Got(i) == Texts(at[i].result)
             End(i) == IF i = n THEN text ELSE <<>>
             seqs == [k \in 1 .. n |-> Text(tokens[k])]
             c == [k \in 0 .. n |-> Got(k) \o End(k)]
  <2>1. seqs \in [1 .. n -> Seq(Nat)] /\ \A k \in 1 .. n : seqs[k] = Adds(tokens[k]) \o End(k)
    BY <1>5
  <2>2. \A k \in 0 .. n : Got(k) \in Seq(Nat) /\ End(k) \in Seq(Nat)
    BY <1>4, <1>7
  <2>3. c \in [0 .. n -> Seq(Nat)]
    <3> HIDE DEF Got, End
    <3> QED
      BY <2>2, Joins
  <2>4. c[0] = <<>>
    <3>1. Got(0) = <<>>
      <4>1. NewLine \in Item
        BY DEF Item
      <4>2. at[0].result = <<>>
        BY <1>3 DEF Reset
      <4>3. Texts(<<>>) = <<>>
        BY <4>1, TextsOne
      <4> QED
        BY <4>2, <4>3
    <3>2. End(0) = <<>>
      BY <1>1 DEF text
    <3>3. c[0] = Got(0) \o End(0)
      BY <1>1
    <3> QED
      BY <3>1, <3>2, <3>3
  <2>5. \A i \in 1 .. n : c[i] = c[i - 1] \o seqs[i]
    <3> TAKE i \in 1 .. n
    <3>1. i - 1 \in 0 .. n /\ i - 1 # n /\ i \in 0 .. n
      BY <1>1
    <3>2. c[i - 1] = Got(i - 1) \o <<>> /\ c[i] = Got(i) \o End(i)
      BY <3>1
    <3>3. Got(i) = Got(i - 1) \o Adds(tokens[i])
      BY <1>8
    <3>4. Got(i - 1) \in Seq(Nat) /\ End(i) \in Seq(Nat) /\ Adds(tokens[i]) \in Seq(Nat)
      <4>1. Adds(tokens[i]) \in Seq(Nat)
        <5>1. tokens[i] \in Token
          BY <1>1
        <5> QED
          BY <5>1 DEF Adds, Token
      <4> QED
        BY <2>2, <3>1, <4>1
    <3>5. seqs[i] = Adds(tokens[i]) \o End(i)
      BY <2>1
    <3> DEFINE p == Got(i - 1)
               q == Adds(tokens[i])
               r == End(i)
    <3>6. p \in Seq(Nat) /\ q \in Seq(Nat) /\ r \in Seq(Nat)
      BY <3>4
    <3>7. c[i - 1] = p \o <<>> /\ c[i] = (p \o q) \o r /\ seqs[i] = q \o r
      BY <3>2, <3>3, <3>5
    <3> HIDE DEF p, q, r, c, seqs
    <3>8. Regroups(p, q, r)
      BY <3>6, JoinsAssociate, Zenon
    <3>9. p \o <<>> = p
      BY <3>6
    <3> QED
      BY <3>7, <3>8, <3>9 DEF Regroups
  <2>6. c[n] = Got(n) \o text
    BY <1>1
  <2>7. Texts(tokens) = FlattenSeq(seqs)
    BY <1>1 DEF Texts, Text
  <2> HIDE DEF seqs, c
  <2>8. FlattenSeq(seqs) = c[n]
    BY <1>1, <2>1, <2>3, <2>4, <2>5, FlattenedIs
  <2> QED
    BY <2>6, <2>7, <2>8
<1>10. Fed(tokens) \in LaidStates
  BY <1>1, <1>3
<1> QED
  BY <1>3, <1>4, <1>6, <1>9, <1>10, ZenonT(30)

\* So the whole text has the pieces of the tokens and is balanced.
LEMMA FormattedIs ==
  ASSUME NEW tokens \in Seq(Token), HeldLast(tokens)
  PROVE  /\ Texts(Formatted(tokens)) = Texts(tokens)
         /\ Spoilt(Formatted(tokens)) \/ Pending(Formatted(tokens)) = <<>>
<1> DEFINE state == Fed(tokens)
           whole == FoldLeft(Cut, state.result, Reverse(state.stack))
           kept == IF whole # <<>> /\ Last(whole) = NewLine THEN Front(whole) ELSE whole
           held == AtTheEnd(tokens)
<1>1. /\ Balanced(held) /\ Texts(tokens) = Texts(state.result) \o Texts(held)
      /\ state \in State /\ Laid(state)
  BY HeldAre DEF LaidStates
<1>2. Balanced(whole) /\ Texts(whole) = Texts(state.result)
  <2> HIDE DEF state
  <2> QED
    BY <1>1, CutLaid
<1>3. Formatted(tokens) = kept \o held
  BY DEF Formatted, AtTheEnd
<1> HIDE DEF state, whole, held
<1>4. <<>> \in Seq(Mark) /\ whole \in Seq(Item) /\ held \in Seq(Item)
  BY <1>1, <1>2 DEF Balanced
<1>5. kept \in Seq(Item) /\ Takes(kept, <<>>, <<>>) /\ Texts(kept) = Texts(whole)
  <2>1. Takes(whole, <<>>, <<>>)
    BY <1>2, <1>4 DEF Balanced
  <2>2. CASE whole # <<>> /\ Last(whole) = NewLine
    BY <1>4, <2>1, <2>2, TakesFront
  <2>3. CASE ~(whole # <<>> /\ Last(whole) = NewLine)
    BY <1>4, <2>1, <2>3
  <2> QED
    BY <2>2, <2>3
<1> HIDE DEF kept
<1>6. Takes(held, <<>>, <<>>)
  BY <1>1, <1>4 DEF Balanced
<1>7. Takes(kept \o held, <<>>, <<>>) /\ kept \o held \in Seq(Item)
  BY <1>4, <1>5, <1>6, TakesJoined, Joins
<1>8. Spoilt(kept \o held) \/ Pending(kept \o held) = <<>>
  BY <1>7, PendingIs
<1>9. Texts(kept \o held) = Texts(kept) \o Texts(held)
  BY <1>4, <1>5, TextsJoined
<1> QED
  BY <1>1, <1>2, <1>3, <1>5, <1>8, <1>9

\* And what is written so far has those tags open that are allowed, as the stack has them.
LEMMA LaidPending ==
  ASSUME NEW state \in State, Laid(state)
  PROVE  \/ Spoilt(state.result)
         \/ Pending(state.result) = Kept([k \in DOMAIN state.stack |-> state.stack[k].tag], ALLOWED_TAGS)
<1> DEFINE m == Len(state.stack)
           tags == [k \in 1 .. m |-> state.stack[k].tag]
<1>1. /\ m \in Nat /\ state.stack \in [1 .. m -> Entry] /\ DOMAIN state.stack = 1 .. m
      /\ state.result \in Seq(Item)
  BY DEF State
<1>2. PICK seg, pre : LaidBy(state, seg, pre)
  BY DEF Laid
<1> HIDE DEF m
<1>3. /\ seg \in [0 .. m -> Seq(Item)] /\ pre \in [0 .. m -> Seq(Item)]
      /\ \A j \in 0 .. m : Balanced(seg[j])
      /\ pre[0] = seg[0] /\ state.result = pre[m]
      /\ \A j \in 1 .. m : pre[j] = (pre[j - 1] \o Opened(state.stack[j].tag)) \o seg[j]
  BY <1>2 DEF LaidBy, m
<1>4. tags \in [1 .. m -> Opening] /\ \A k \in 1 .. m : tags[k] = state.stack[k].tag
  <2>1. \A k \in 1 .. m : state.stack[k] \in Entry
    BY <1>1
  <2>2. \A k \in 1 .. m : state.stack[k].tag \in Opening
    BY <2>1 DEF Entry
  <2> QED
    BY <2>2
<1>5. tags \in [1 .. m -> Mark] /\ Opening \subseteq Mark
  BY <1>4 DEF Mark
<1> HIDE DEF tags
<1>6. PICK kept \in [0 .. m -> Seq(Mark)] :
        /\ kept[0] = <<>> /\ Kept(tags, ALLOWED_TAGS) = kept[m]
        /\ \A i \in 1 .. m : kept[i] = IF tags[i] \in ALLOWED_TAGS THEN Append(kept[i - 1], tags[i])
                                       ELSE kept[i - 1]
  <2>1. KeptBy(m, Mark, tags, ALLOWED_TAGS)
    BY <1>1, <1>5, KeptStages, Zenon
  <2> QED
    BY <2>1, Zenon DEF KeptBy
<1> DEFINE T == {i \in Nat : i <= m => Takes(pre[i], <<>>, kept[i])}
<1>7. 0 \in T
  <2>1. 0 \in 0 .. m /\ <<>> \in Seq(Mark)
    BY <1>1
  <2>2. Takes(seg[0], <<>>, <<>>)
    BY <1>3, <2>1 DEF Balanced
  <2> QED
    BY <1>3, <1>6, <2>2
<1>8. ASSUME NEW i \in Nat, i \in T PROVE i + 1 \in T
  <2> SUFFICES ASSUME i + 1 <= m PROVE Takes(pre[i + 1], <<>>, kept[i + 1])
    OBVIOUS
  <2> DEFINE j == i + 1
             a == pre[i]
             tag == tags[j]
             o == Opened(tag)
             z == seg[j]
             open == kept[i]
             more == kept[j]
  <2>1. j \in 1 .. m /\ j - 1 = i /\ i \in 0 .. m /\ j \in 0 .. m
    BY <1>1
  <2>2. Takes(a, <<>>, open)
    BY <1>1, <1>8
  <2> HIDE DEF T
  <2>3. /\ a \in Seq(Item) /\ z \in Seq(Item) /\ Balanced(z) /\ open \in Seq(Mark)
        /\ more \in Seq(Mark) /\ tag \in Opening
    BY <1>3, <1>4, <2>1
  <2>4. pre[j] = (a \o o) \o z /\ more = IF tag \in ALLOWED_TAGS THEN Append(open, tag) ELSE open
    BY <1>3, <1>4, <1>6, <2>1
  <2>5. o \in Seq(Item)
    BY <2>3, TagsWritten
  <2>6. Takes(o, open, more)
    <3> HIDE DEF open, more, tag
    <3>0. CASE tag = "quoting"
      <4>1. o = <<Open("quoting")>>
        BY <3>0 DEF Opened, TagOf, ALLOWED_TAGS
      <4>2. o[1] = Open("quoting") /\ 1 \in DOMAIN o
        BY <4>1
      <4> QED
        BY <4>2 DEF Takes, Spoilt
    <3>1. CASE tag # "quoting" /\ tag \in ALLOWED_TAGS
      <4>1. Open(tag) \in Item
        BY <3>1 DEF Open, Item, Token, Opening, ALLOWED_TAGS
      <4>2. Follow(open, Open(tag)) = Append(open, tag)
        BY <3>1 DEF Follow, Open
      <4>3. Takes(<<Open(tag)>>, open, Append(open, tag))
        BY <2>3, <4>1, <4>2, TakesOne
      <4> QED
        BY <2>4, <3>1, <4>3 DEF Opened, TagOf
    <3>2. CASE tag # "quoting" /\ tag \notin ALLOWED_TAGS
      <4>1. NewLine \in Item
        BY DEF Item
      <4>2. Takes(<<>>, open, open)
        BY <2>3, <4>1, TakesOne
      <4> QED
        BY <2>4, <3>2, <4>2 DEF Opened, TagOf
    <3> QED
      BY <3>0, <3>1, <3>2
  <2>7. Takes(z, more, more)
    BY <2>3 DEF Balanced
  <2> HIDE DEF a, o, z, open, more
  <2>8. Takes(a \o o, <<>>, more) /\ a \o o \in Seq(Item)
    BY <2>2, <2>3, <2>5, <2>6, TakesJoined, Joins
  <2>9. Takes((a \o o) \o z, <<>>, more)
    BY <2>3, <2>7, <2>8, TakesJoined
  <2> QED
    BY <2>4, <2>9 DEF more
<1>9. Takes(pre[m], <<>>, kept[m])
  <2> HIDE DEF T
  <2>1. Nat \subseteq T
    BY <1>7, <1>8, SetInduction
  <2> QED
    BY <1>1, <2>1 DEF T
<1>10. Spoilt(state.result) \/ Pending(state.result) = Kept(tags, ALLOWED_TAGS)
  BY <1>1, <1>3, <1>6, <1>9, PendingIs
<1>11. [k \in DOMAIN state.stack |-> state.stack[k].tag] = tags
  BY <1>1 DEF tags
<1> QED
  BY <1>10, <1>11

-----------------------------------------------------------------------------
(* The inputs that are texts with tags.                                     *)

Tokens == subject = "html" => input \in Seq(Token) /\ HeldLast(input)

LEMMA TokensHold == Inputs => []Tokens
<1>1. Blank => Tokens
  <2> SUFFICES ASSUME Blank, subject = "html" PROVE input \in Seq(Token) /\ HeldLast(input)
    BY DEF Tokens
  <2>1. input = <<>>
    BY DEF Blank, Nothings
  <2> QED
    BY <2>1 DEF HeldLast
<1>2. ASSUME Tokens, [Longer]_<<subject, input>> PROVE Tokens'
  <2> SUFFICES ASSUME subject' = "html" PROVE input' \in Seq(Token) /\ HeldLast(input')
    BY DEF Tokens, HeldLast
  <2>1. CASE UNCHANGED <<subject, input>>
    BY <1>2, <2>1 DEF Tokens, HeldLast
  <2>2. CASE Longer
    <3>1. subject = "html" /\ AddToken
      BY <2>2 DEF Longer, AddPart, AddToken, AddToMessage, AddButton, AddChar, AddNode, AddObject, Grow
    <3>2. input \in Seq(Token) /\ \A k \in DOMAIN input : input[k].is # "held"
      BY <1>2, <3>1 DEF Tokens, AddToken
    <3>3. PICK token : /\ input' = Append(input, token)
                       /\ token \in {Open(tag) : tag \in Opening} \cup {Close(tag) : tag \in Closing}
                                    \cup {Piece(Len(input) + 1), Lined(Len(input) + 1), HeldBack(Len(input) + 1)}
      BY <3>1 DEF AddToken, Grow
    <3>4. token \in Token
      <4>1. Len(input) + 1 \in Nat
        BY <3>2
      <4> QED
        BY <3>3, <4>1 DEF Token, Open, Close, Piece, Lined, HeldBack
    <3>5. input' \in Seq(Token) /\ Len(input') = Len(input) + 1
      BY <3>2, <3>3, <3>4
    <3>6. HeldLast(input')
      <4>1. \A k \in DOMAIN input' : k # Len(input') => k \in DOMAIN input /\ input'[k] = input[k]
        BY <3>2, <3>3, <3>4
      <4> QED
        BY <3>2, <4>1 DEF HeldLast
    <3> QED
      BY <3>5, <3>6
  <2> QED
    BY <1>2, <2>1, <2>2
<1> QED
  BY <1>1, <1>2, PTL DEF Inputs

\* No piece of text is lost, doubled or moved, whatever tags there are, in a text of any length.
THEOREM TextKeptCorrect == Inputs => []TextKept
<1>1. Tokens => TextKept
  BY FormattedIs DEF Tokens, TextKept
<1> QED
  BY <1>1, TokensHold, PTL

\* What is written is nested as the stack says, and in the end it is well nested.
THEOREM NestedCorrect == Inputs => []Nested
<1>1. Tokens => Nested
  <2> SUFFICES ASSUME subject = "html", input \in Seq(Token), HeldLast(input)
               PROVE  /\ \/ Spoilt(Fed(input).result)
                         \/ Pending(Fed(input).result)
                            = Kept([k \in DOMAIN Fed(input).stack |-> Fed(input).stack[k].tag], ALLOWED_TAGS)
                      /\ Spoilt(Formatted(input)) \/ Pending(Formatted(input)) = <<>>
    BY DEF Tokens, Nested
  <2>1. Fed(input) \in State /\ Laid(Fed(input))
    BY HeldAre DEF LaidStates
  <2>2. Spoilt(Formatted(input)) \/ Pending(Formatted(input)) = <<>>
    BY FormattedIs
  <2> QED
    BY <2>1, <2>2, LaidPending
<1> QED
  BY <1>1, TokensHold, PTL

-----------------------------------------------------------------------------
(* The values of variables.                                               *)

\* Trees whose paths are made of K, with values of V.
Trees(K, V) == UNION {[D -> V] : D \in SUBSET Seq(K)}

\* What stands beyond a path.
Beyond(tree, path) == [rest \in {r \in Seq(Keys) : path \o r \in DOMAIN tree} |-> tree[path \o rest]]

\* A part of a tree is one.
LEMMA IndexTree ==
  ASSUME NEW K, NEW V, NEW tree \in Trees(K, V), NEW part
  PROVE  Index(tree, part) \in Trees(K, V) /\ Nothing \in Trees(K, V)
<1>1. Nothing \in Trees(K, V)
  <2>1. Nothing \in [{} -> V] /\ {} \in SUBSET Seq(K)
    BY DEF Nothing
  <2> QED
    BY <2>1, Zenon DEF Trees
<1>2. PICK D \in SUBSET Seq(K) : tree \in [D -> V]
  BY DEF Trees
<1> DEFINE E == {Tail(p) : p \in {q \in DOMAIN tree : q # <<>> /\ Head(q) = part}}
<1>3. E \in SUBSET Seq(K)
  <2>1. \A p \in Seq(K) : p # <<>> => Tail(p) \in Seq(K)
    OBVIOUS
  <2> QED
    BY <1>2, <2>1
<1>4. ASSUME NEW path \in E PROVE tree[<<part>> \o path] \in V
  <2>1. PICK p \in D : p # <<>> /\ Head(p) = part /\ path = Tail(p)
    BY <1>2
  <2>2. p \in Seq(K)
    BY <1>2
  <2>3. <<Head(p)>> \o Tail(p) = p
    BY <2>1, <2>2
  <2> QED
    BY <1>2, <2>1, <2>3
<1>5. Below(tree, part) = [path \in E |-> tree[<<part>> \o path]]
  BY DEF Below
<1> HIDE DEF E
<1>6. Below(tree, part) \in [E -> V]
  BY <1>4, <1>5
<1>7. Below(tree, part) \in Trees(K, V)
  BY <1>3, <1>6, Zenon DEF Trees
<1>8. Index(tree, part) \in {Nothing, tree, Below(tree, part)}
  BY DEF Index
<1> QED
  BY <1>1, <1>7, <1>8

\* What a path has led to so far, after each of its parts.
ReadBy(n, K, V, tree, path) == \E at \in [0 .. n -> Trees(K, V)] :
    /\ at[0] = tree /\ Resolve(tree, path) = at[n]
    /\ \A i \in 1 .. n : at[i] = Index(at[i - 1], path[i])

LEMMA ReadStages ==
  ASSUME NEW n \in Nat, NEW K, NEW V, NEW tree \in Trees(K, V), NEW path, DOMAIN path = 1 .. n
  PROVE  ReadBy(n, K, V, tree, path)
<1> DEFINE X == Trees(K, V)
           Then(i, part) == Index(part, path[i])
           step == [i \in 1 .. n |-> [part \in X |-> Then(i, part)]]
           Eqn(iter) == iter = [t \in SUBSET (1 .. n) |-> IF t = {} THEN tree
                                   ELSE Then(Max(t), iter[t \ {Max(t)}])]
           chosen == CHOOSE iter : Eqn(iter)
<1>1. \A i \in 1 .. n : \A part \in X : Then(i, part) \in X
  BY IndexTree
<1>2. Resolve(tree, path) = chosen[1 .. n]
  BY DEF Resolve, FoldLeft, MapThenFoldSet
<1> HIDE DEF X
<1>13. step \in [1 .. n -> [X -> X]] /\ \A i \in 1 .. n : \A part \in X : step[i][part] = Then(i, part)
  <2> HIDE DEF Then
  <2> QED
    BY <1>1
<1>14. tree \in X
  BY DEF X
<1>3. HasStages(n, X, tree, step)
  <2> HIDE DEF step
  <2> QED
    BY <1>14, <1>13, StepByStep, Zenon
<1>4. PICK at \in [0 .. n -> X], iter \in [SUBSET (1 .. n) -> X] :
        /\ at[0] = tree /\ \A i \in 1 .. n : at[i] = step[i][at[i - 1]]
        /\ IsFold(iter, 1 .. n, tree, Largest(n), step)
        /\ \A f : Follows(f, 1 .. n, X, tree, Largest(n), step) => f[1 .. n] = at[n]
  <2> HIDE DEF step
  <2> QED
    BY <1>3, Zenon DEF HasStages
<1>5. \A t \in (SUBSET (1 .. n)) \ {{}} :
         Largest(n)[t] = Max(t) /\ Max(t) \in 1 .. n /\ t \ {Max(t)} \in SUBSET (1 .. n)
  BY MaxOf DEF Largest
<1>6. Eqn(iter)
  <2>1. iter[{}] = tree
    BY <1>4 DEF IsFold
  <2>2. ASSUME NEW t \in (SUBSET (1 .. n)) \ {{}}
        PROVE  iter[t] = Then(Max(t), iter[t \ {Max(t)}])
    <3> HIDE DEF step, Then
    <3>1. iter[t] = step[Max(t)][iter[t \ {Max(t)}]]
      BY <1>4, <1>5 DEF IsFold
    <3>2. iter[t \ {Max(t)}] \in X
      BY <1>5
    <3> QED
      BY <3>1, <3>2, <1>13, <1>5
  <2> HIDE DEF step, Then
  <2> QED
    BY <2>1, <2>2
<1>7. Eqn(chosen)
  <2> HIDE DEF Eqn
  <2> QED
    BY <1>6
<1> HIDE DEF chosen
<1>8. Follows(chosen, 1 .. n, X, tree, Largest(n), step)
  <2>1. chosen[{}] = tree
    BY <1>7
  <2>2. ASSUME NEW t \in (SUBSET (1 .. n)) \ {{}}, chosen[t \ {Largest(n)[t]}] \in X
        PROVE  chosen[t] = step[Largest(n)[t]][chosen[t \ {Largest(n)[t]}]]
    <3> HIDE DEF step, Then
    <3>1. Largest(n)[t] = Max(t) /\ Max(t) \in 1 .. n
      BY <1>5
    <3>2. chosen[t] = Then(Max(t), chosen[t \ {Max(t)}])
      BY <1>7
    <3> QED
      BY <3>1, <3>2, <1>13, <2>2
  <2> HIDE DEF step
  <2> QED
    BY <2>1, <2>2 DEF Follows
<1>9. chosen[1 .. n] = at[n]
  <2> HIDE DEF step
  <2> QED
    BY <1>4, <1>8, Zenon
<1>10. ASSUME NEW i \in 1 .. n PROVE at[i] = Then(i, at[i - 1])
  <2> HIDE DEF step, Then
  <2>1. at[i - 1] \in X
    OBVIOUS
  <2> QED
    BY <2>1, <1>13, <1>4
<1>11. at \in [0 .. n -> X] /\ at[0] = tree /\ Resolve(tree, path) = at[n]
  BY <1>2, <1>4, <1>9
<1>15. \A i \in 1 .. n : at[i] = Index(at[i - 1], path[i])
  BY <1>10
<1> HIDE DEF step, Then
<1> QED
  BY <1>11, <1>15, Zenon DEF ReadBy, X

\* Nothing is read of nothing.
LEMMA NothingRead ==
  ASSUME NEW n \in Nat \ {0}, NEW K, NEW V, NEW tree \in Trees(K, V), NEW path, DOMAIN path = 1 .. n,
         Index(tree, path[1]) = Nothing
  PROVE  Resolve(tree, path) = Nothing
<1>6. ReadBy(n, K, V, tree, path)
  <2>1. n \in Nat
    OBVIOUS
  <2> QED
    BY <2>1, ReadStages, Zenon
<1>1. PICK at \in [0 .. n -> Trees(K, V)] :
        /\ at[0] = tree /\ Resolve(tree, path) = at[n]
        /\ \A i \in 1 .. n : at[i] = Index(at[i - 1], path[i])
  BY <1>6, Zenon DEF ReadBy
<1> DEFINE T == {m \in Nat : m + 1 <= n => at[m + 1] = Nothing}
<1>2. 0 \in T
  <2>1. 1 \in 1 .. n /\ 1 - 1 = 0
    OBVIOUS
  <2>2. at[1] = Nothing
    BY <1>1, <2>1
  <2> QED
    BY <2>2
<1>3. ASSUME NEW m \in Nat, m \in T PROVE m + 1 \in T
  <2> SUFFICES ASSUME m + 2 <= n PROVE at[m + 2] = Nothing
    OBVIOUS
  <2>1. m + 2 \in 1 .. n /\ (m + 2) - 1 = m + 1 /\ at[m + 1] = Nothing
    BY <1>3
  <2>2. at[m + 2] = Index(at[m + 1], path[m + 2])
    BY <1>1, <2>1
  <2> QED
    BY <2>1, <2>2 DEF Index
<1>4. n - 1 \in Nat /\ (n - 1) + 1 = n
  OBVIOUS
<1> HIDE DEF T
<1>5. n - 1 \in T
  BY <1>2, <1>3, <1>4, SetInduction
<1> QED
  BY <1>1, <1>4, <1>5 DEF T

\* Data as it grows: what has something below it is an object or a list.
Grown(tree) ==
    /\ tree \in Trees(Keys, Kinds)
    /\ \A p \in DOMAIN tree : \A m \in 0 .. Len(p) - 1 :
          SubSeq(p, 1, m) \in DOMAIN tree /\ tree[SubSeq(p, 1, m)] \in {"object", "list"}

\* So far a path names keys of objects and places of lists.
Proper(tree, path, m) == \A k \in 1 .. m : path[k] \in Digits <=> tree[SubSeq(path, 1, k - 1)] = "list"

LEMMA TreeIs ==
  ASSUME NEW K, NEW V, NEW tree \in Trees(K, V)
  PROVE  DOMAIN tree \subseteq Seq(K) /\ tree = [p \in DOMAIN tree |-> tree[p]]
         /\ \A p \in DOMAIN tree : tree[p] \in V
  BY DEF Trees

\* What stands below a part of what stands beyond a path stands beyond both.
LEMMA BelowBeyond ==
  ASSUME NEW tree, NEW path \in Seq(Keys), NEW part \in Keys
  PROVE  Below(Beyond(tree, path), part) = Beyond(tree, Append(path, part))
<1> DEFINE B == Beyond(tree, path)
           D == {r \in Seq(Keys) : path \o r \in DOMAIN tree}
           E == {Tail(p) : p \in {q \in DOMAIN B : q # <<>> /\ Head(q) = part}}
           F == {r \in Seq(Keys) : Append(path, part) \o r \in DOMAIN tree}
<1>1. DOMAIN B = D /\ \A r \in D : B[r] = tree[path \o r]
  BY DEF Beyond
<1>2. ASSUME NEW r \in Seq(Keys)
      PROVE  /\ <<part>> \o r \in Seq(Keys) /\ <<part>> \o r # <<>>
             /\ Head(<<part>> \o r) = part /\ Tail(<<part>> \o r) = r
             /\ path \o (<<part>> \o r) = Append(path, part) \o r
  <2>1. <<part>> \in Seq(Keys) /\ Append(path, part) = path \o <<part>>
    OBVIOUS
  <2>2. <<part>> \o r \in Seq(Keys) /\ <<part>> \o r # <<>>
    OBVIOUS
  <2>3. Head(<<part>> \o r) = part
    OBVIOUS
  <2>4. Tail(<<part>> \o r) = r
    OBVIOUS
  <2>5. Regroups(path, <<part>>, r)
    BY <2>1, JoinsAssociate
  <2>6. path \o (<<part>> \o r) = Append(path, part) \o r
    BY <2>1, <2>5 DEF Regroups
  <2> QED
    BY <2>2, <2>3, <2>4, <2>6
<1>3. ASSUME NEW p \in Seq(Keys), p # <<>>
      PROVE  Tail(p) \in Seq(Keys) /\ p = <<Head(p)>> \o Tail(p)
  <2>1. Tail(p) \in Seq(Keys)
    BY <1>3
  <2>2. p = <<Head(p)>> \o Tail(p)
    BY <1>3
  <2> QED
    BY <2>1, <2>2
<1> HIDE DEF B
<1>4. E \subseteq F
  <2> SUFFICES ASSUME NEW p \in D, p # <<>>, Head(p) = part PROVE Tail(p) \in F
    BY <1>1
  <2>1. Tail(p) \in Seq(Keys) /\ p = <<part>> \o Tail(p)
    BY <1>3
  <2>2. path \o p = Append(path, part) \o Tail(p)
    BY <1>2, <2>1
  <2> QED
    BY <2>1, <2>2
<1>5. F \subseteq E
  <2> SUFFICES ASSUME NEW r \in F PROVE r \in E
    OBVIOUS
  <2>1. <<part>> \o r \in D
    BY <1>2
  <2> QED
    BY <1>1, <1>2, <2>1
<1>6. \A r \in F : B[<<part>> \o r] = tree[Append(path, part) \o r]
  <2> TAKE r \in F
  <2>1. <<part>> \o r \in D
    BY <1>2
  <2> QED
    BY <1>1, <1>2, <2>1
<1>7. Below(B, part) = [r \in E |-> B[<<part>> \o r]]
  BY DEF Below
<1>8. Beyond(tree, Append(path, part)) = [r \in F |-> tree[Append(path, part) \o r]]
  BY DEF Beyond
<1>9. E = F
  BY <1>4, <1>5
<1> HIDE DEF E, F
<1> QED
  BY <1>6, <1>7, <1>8, <1>9 DEF B

\* The reference reads what stands beyond the path, if it names keys and places.
LEMMA ReadAtIs ==
  ASSUME NEW tree \in Trees(Keys, Kinds), NEW path \in DOMAIN tree
  PROVE  ReadAt(tree, path) = IF Proper(tree, path, Len(path)) THEN Beyond(tree, path) ELSE Nothing
<1> DEFINE P == {SubSeq(p, Len(path) + 1, Len(p)) : p \in {q \in DOMAIN tree : IsPrefix(path, q)}}
           D == {r \in Seq(Keys) : path \o r \in DOMAIN tree}
<1>1. path \in Seq(Keys) /\ DOMAIN tree \subseteq Seq(Keys)
  BY TreeIs
<1>2. DOMAIN path = 1 .. Len(path)
  BY <1>1
<1>3. P \subseteq D
  <2> SUFFICES ASSUME NEW p \in DOMAIN tree, IsPrefix(path, p)
               PROVE  SubSeq(p, Len(path) + 1, Len(p)) \in D
    OBVIOUS
  <2>1. p \in Seq(Keys)
    BY <1>1
  <2>2. p = path \o SubSeq(p, Len(path) + 1, Len(p))
    BY <1>1, <2>1 DEF IsPrefix
  <2>3. SubSeq(p, Len(path) + 1, Len(p)) \in Seq(Keys)
    BY <1>1, <2>1
  <2> QED
    BY <2>2, <2>3
<1>4. D \subseteq P
  <2> SUFFICES ASSUME NEW r \in Seq(Keys), path \o r \in DOMAIN tree PROVE r \in P
    OBVIOUS
  <2>1. IsPrefix(path, path \o r)
    BY <1>1 DEF IsPrefix
  <2>2. SubSeq(path \o r, Len(path) + 1, Len(path \o r)) = r
    BY <1>1
  <2> QED
    BY <2>1, <2>2
<1>5. P = D
  BY <1>3, <1>4
<1>6. ReadAt(tree, path) = IF Proper(tree, path, Len(path)) THEN [rest \in P |-> tree[path \o rest]] ELSE Nothing
  BY <1>2 DEF ReadAt, Proper
<1>7. Beyond(tree, path) = [rest \in D |-> tree[path \o rest]]
  BY DEF Beyond
<1> HIDE DEF P, D
<1> QED
  BY <1>5, <1>6, <1>7

\* A path in data leads where the reference reads.
LEMMA ResolveReads ==
  ASSUME NEW tree, Grown(tree), NEW path \in DOMAIN tree
  PROVE  Resolve(tree, path) = ReadAt(tree, path)
<1> DEFINE n == Len(path)
           Up(m) == SubSeq(path, 1, m)
<1>1. /\ tree \in Trees(Keys, Kinds) /\ DOMAIN tree \subseteq Seq(Keys) /\ path \in Seq(Keys)
      /\ tree = [p \in DOMAIN tree |-> tree[p]]
  BY TreeIs DEF Grown
<1>2. n \in Nat /\ DOMAIN path = 1 .. n /\ \A k \in 1 .. n : path[k] \in Keys
  BY <1>1
<1>3. ReadBy(n, Keys, Kinds, tree, path)
  BY <1>1, <1>2, ReadStages, Zenon
<1>4. PICK at \in [0 .. n -> Trees(Keys, Kinds)] :
        /\ at[0] = tree /\ Resolve(tree, path) = at[n]
        /\ \A i \in 1 .. n : at[i] = Index(at[i - 1], path[i])
  BY <1>3, Zenon DEF ReadBy
<1>5. Up(0) = <<>> /\ Up(n) = path /\ \A m \in 0 .. n : Up(m) \in Seq(Keys)
  BY <1>1, <1>2
<1>6. ASSUME NEW m \in Nat, m + 1 <= n
      PROVE  Up(m + 1) = Append(Up(m), path[m + 1])
  BY <1>1, <1>2, <1>6
<1>7. ASSUME NEW m \in Nat, m + 1 <= n
      PROVE  Up(m) \in DOMAIN tree /\ tree[Up(m)] \in {"object", "list"}
  BY <1>2, <1>7 DEF Grown
<1> HIDE DEF n, Up
<1> DEFINE T == {m \in Nat : m <= n =>
                   at[m] = IF Proper(tree, path, m) THEN Beyond(tree, Up(m)) ELSE Nothing}
<1>8. 0 \in T
  <2>1. Proper(tree, path, 0)
    BY DEF Proper
  <2>2. Beyond(tree, <<>>) = tree
    <3>1. \A p \in Seq(Keys) : <<>> \o p = p
      OBVIOUS
    <3> DEFINE D == {r \in Seq(Keys) : <<>> \o r \in DOMAIN tree}
    <3>2. D = DOMAIN tree
      BY <1>1, <3>1
    <3>3. Beyond(tree, <<>>) = [r \in D |-> tree[<<>> \o r]]
      BY DEF Beyond
    <3> HIDE DEF D
    <3>4. \A r \in DOMAIN tree : tree[<<>> \o r] = tree[r]
      BY <1>1, <3>1
    <3> QED
      BY <1>1, <3>2, <3>3, <3>4
  <2> QED
    BY <1>4, <1>5, <2>1, <2>2
<1>9. ASSUME NEW m \in Nat, m \in T PROVE m + 1 \in T
  <2> SUFFICES ASSUME m + 1 <= n
               PROVE  at[m + 1] = IF Proper(tree, path, m + 1) THEN Beyond(tree, Up(m + 1)) ELSE Nothing
    OBVIOUS
  <2> DEFINE part == path[m + 1]
  <2>1. m + 1 \in 1 .. n /\ (m + 1) - 1 = m /\ m <= n /\ m \in 0 .. n
    BY <1>2
  <2>2. part \in Keys /\ Up(m) \in Seq(Keys)
    BY <1>2, <1>5, <2>1
  <2>3. at[m + 1] = Index(at[m], part)
    BY <1>4, <2>1
  <2>4. at[m] = IF Proper(tree, path, m) THEN Beyond(tree, Up(m)) ELSE Nothing
    BY <1>9, <2>1
  <2>5. Proper(tree, path, m + 1) <=> Proper(tree, path, m) /\ (part \in Digits <=> tree[Up(m)] = "list")
    <3>1. \A k : k \in 1 .. (m + 1) <=> k \in 1 .. m \/ k = m + 1
      OBVIOUS
    <3>2. SubSeq(path, 1, (m + 1) - 1) = Up(m)
      BY <2>1 DEF Up
    <3> QED
      BY <3>1, <3>2 DEF Proper
  <2> HIDE DEF part
  <2>6. CASE ~Proper(tree, path, m)
    BY <2>3, <2>4, <2>5, <2>6 DEF Index
  <2>7. CASE Proper(tree, path, m)
    <3> DEFINE B == Beyond(tree, Up(m))
    <3>1. at[m] = B
      BY <2>4, <2>7
    <3>2. <<>> \in DOMAIN B /\ B[<<>>] = tree[Up(m)] /\ B[<<>>] \in {"object", "list"}
      <4>1. Up(m) \o <<>> = Up(m) /\ <<>> \in Seq(Keys)
        BY <2>2
      <4> QED
        BY <1>7, <4>1 DEF Beyond
    <3>3. Below(B, part) = Beyond(tree, Up(m + 1))
      BY <1>6, <2>2, BelowBeyond DEF part
    <3> HIDE DEF B
    <3>4. B # Nothing
      BY <3>2 DEF Nothing
    <3>5. CASE part \in Digits <=> tree[Up(m)] = "list"
      <4>1. Index(B, part) = Below(B, part)
        BY <3>2, <3>4, <3>5 DEF Index
      <4> QED
        BY <2>3, <2>5, <2>7, <3>1, <3>3, <3>5, <4>1
    <3>6. CASE ~(part \in Digits <=> tree[Up(m)] = "list")
      <4>1. Index(B, part) = Nothing
        BY <3>2, <3>4, <3>6 DEF Index
      <4> QED
        BY <2>3, <2>5, <3>1, <3>6, <4>1
    <3> QED
      BY <3>5, <3>6
  <2> QED
    BY <2>6, <2>7
<1>10. n \in T
  <2> HIDE DEF T
  <2> QED
    BY <1>2, <1>8, <1>9, SetInduction
<1>11. at[n] = IF Proper(tree, path, n) THEN Beyond(tree, path) ELSE Nothing
  BY <1>5, <1>10 DEF T
<1>12. ReadAt(tree, path) = IF Proper(tree, path, n) THEN Beyond(tree, path) ELSE Nothing
  BY <1>1, ReadAtIs DEF n
<1> QED
  BY <1>4, <1>11, <1>12

Growing == subject = "data" => Grown(input)

\* Data that grows by a node below an object or a list.
LEMMA NodeAdded ==
  ASSUME NEW tree, Grown(tree), NEW parent \in DOMAIN tree, tree[parent] \in {"object", "list"},
         NEW key \in Keys, NEW kind \in Kinds, Append(parent, key) \notin DOMAIN tree
  PROVE  Grown(WithNode(tree, Append(parent, key), kind))
<1> DEFINE new == Append(parent, key)
           D == DOMAIN tree \cup {new}
           more == WithNode(tree, new, kind)
<1>1. /\ DOMAIN tree \subseteq Seq(Keys) /\ \A p \in DOMAIN tree : tree[p] \in Kinds
      /\ \A p \in DOMAIN tree : \A m \in 0 .. Len(p) - 1 :
            SubSeq(p, 1, m) \in DOMAIN tree /\ tree[SubSeq(p, 1, m)] \in {"object", "list"}
  BY TreeIs DEF Grown
<1>2. parent \in Seq(Keys) /\ new \in Seq(Keys) /\ Len(new) = Len(parent) + 1 /\ Len(parent) \in Nat
  BY <1>1
<1>3. SubSeq(new, 1, Len(parent)) = parent /\ \A m \in 0 .. Len(parent) - 1 : SubSeq(new, 1, m) = SubSeq(parent, 1, m)
  BY <1>2
<1>4. D \in SUBSET Seq(Keys)
  BY <1>1, <1>2
<1> HIDE DEF D
<1>10. more = [node \in D |-> IF node \in DOMAIN tree THEN tree[node] ELSE kind]
  BY DEF WithNode, D
<1> HIDE DEF more
<1>5. more \in [D -> Kinds]
  BY <1>1, <1>10
<1>6. more \in Trees(Keys, Kinds)
  BY <1>4, <1>5, Zenon DEF Trees
<1>7. DOMAIN more = DOMAIN tree \cup {new} /\ \A p \in DOMAIN tree : more[p] = tree[p]
  BY <1>10 DEF D
<1> HIDE DEF new
<1>8. ASSUME NEW p \in DOMAIN more, NEW m \in 0 .. Len(p) - 1
      PROVE  SubSeq(p, 1, m) \in DOMAIN tree /\ tree[SubSeq(p, 1, m)] \in {"object", "list"}
  <2>1. CASE p \in DOMAIN tree
    BY <1>1, <2>1
  <2>2. CASE p = new
    <3>1. CASE m = Len(parent)
      BY <1>3, <2>2, <3>1
    <3>2. CASE m # Len(parent)
      <4>1. m \in 0 .. Len(parent) - 1
        BY <1>2, <2>2, <3>2
      <4> QED
        BY <1>1, <1>3, <2>2, <4>1
    <3> QED
      BY <3>1, <3>2
  <2> QED
    BY <1>7, <2>1, <2>2
<1>9. Grown(more)
  BY <1>6, <1>7, <1>8 DEF Grown
<1> QED
  BY <1>9 DEF more, new

LEMMA GrowingInv == Inputs => []Growing
<1>1. Blank => Growing
  <2> SUFFICES ASSUME Blank, subject = "data" PROVE Grown(Nothing)
    BY DEF Blank, Nothings, Growing
  <2>1. Nothing \in Trees(Keys, Kinds)
    <3>1. Nothing \in [{} -> Kinds] /\ {} \in SUBSET Seq(Keys)
      BY DEF Nothing
    <3> QED
      BY <3>1, Zenon DEF Trees
  <2> QED
    BY <2>1 DEF Grown, Nothing
<1>2. Growing /\ [Longer]_<<subject, input>> => Growing'
  <2> SUFFICES ASSUME Growing, [Longer]_<<subject, input>>, subject = "data"
               PROVE  Grown(input')
    BY GrowsAlone DEF Growing
  <2>1. input' = input \/ AddNode
    BY GrowsAlone
  <2>2. Grown(input)
    BY DEF Growing
  <2>3. CASE AddNode
    <3>1. PICK kind \in Kinds :
       \/ input = Nothing /\ input' = Leaf(kind)
       \/ \E parent \in DOMAIN input : \E key \in Keys :
              LET below == {node \in DOMAIN input : Len(node) = Len(parent) + 1 /\ IsPrefix(parent, node)} IN
              /\ Append(parent, key) \notin below
              /\ \/ input[parent] = "object"
                 \/ input[parent] = "list" /\ key = Place(Cardinality(below) + 1)
              /\ input' = WithNode(input, Append(parent, key), kind)
      BY <2>3 DEF AddNode
    <3>2. CASE input = Nothing /\ input' = Leaf(kind)
      <4>1. Leaf(kind) \in [{<<>>} -> Kinds] /\ {<<>>} \in SUBSET Seq(Keys)
        BY DEF Leaf
      <4>2. Leaf(kind) \in Trees(Keys, Kinds)
        BY <4>1, Zenon DEF Trees
      <4>3. DOMAIN Leaf(kind) = {<<>>} /\ Len(<<>>) = 0
        BY DEF Leaf
      <4>4. 0 .. 0 - 1 = {}
        OBVIOUS
      <4> QED
        BY <3>2, <4>2, <4>3, <4>4 DEF Grown
    <3>3. CASE \E parent \in DOMAIN input : \E key \in Keys :
              LET below == {node \in DOMAIN input : Len(node) = Len(parent) + 1 /\ IsPrefix(parent, node)} IN
              /\ Append(parent, key) \notin below
              /\ \/ input[parent] = "object"
                 \/ input[parent] = "list" /\ key = Place(Cardinality(below) + 1)
              /\ input' = WithNode(input, Append(parent, key), kind)
      <4>1. PICK parent \in DOMAIN input, key \in Keys :
              /\ Append(parent, key) \notin
                   {node \in DOMAIN input : Len(node) = Len(parent) + 1 /\ IsPrefix(parent, node)}
              /\ input[parent] \in {"object", "list"}
              /\ input' = WithNode(input, Append(parent, key), kind)
        BY <3>3
      <4>2. parent \in Seq(Keys)
        BY <2>2, TreeIs DEF Grown
      <4>3. Len(Append(parent, key)) = Len(parent) + 1 /\ IsPrefix(parent, Append(parent, key))
        BY <4>2 DEF IsPrefix
      <4>4. Append(parent, key) \notin DOMAIN input
        BY <4>1, <4>3
      <4>5. Grown(WithNode(input, Append(parent, key), kind))
        BY <2>2, <4>1, <4>4, NodeAdded
      <4> QED
        BY <4>1, <4>5
    <3> QED
      BY <3>1, <3>2, <3>3
  <2> QED
    BY <2>1, <2>2, <2>3
<1> QED
  BY <1>1, <1>2, PTL DEF Inputs

\* Where the parts of a key lead that are behind its first one.
LEMMA GetBehind ==
  ASSUME NEW bot, NEW key, NEW path, Tail(key) = path, path # <<>>
  PROVE  /\ Head(key) = "DATABASE" => Get(bot, key) = DatabaseValue(bot.records, path)
         /\ Head(key) = "USER" => Get(bot, key) = UserValue(bot.variables, path)
         /\ Head(key) = "API_RESPONSE" /\ "API_RESPONSE" \in DOMAIN bot.store =>
              Get(bot, key) = IF bot.store["API_RESPONSE"] # Nothing
                                 /\ bot.store["API_RESPONSE"][<<>>] \in {"object", "list"}
                                THEN Resolve(bot.store["API_RESPONSE"], path) ELSE Nothing
  BY DEF Get

\* Of a record and of two alike, those that have a path are these.
LEMMA WithPathAre ==
  ASSUME NEW tree, NEW path \in DOMAIN tree
  PROVE  WithPath(<<tree>>, path) = <<tree>> /\ WithPath(<<tree, tree>>, path) = <<tree, tree>>
<1> DEFINE WithIt(records) == {record \in ToSet(records) : path \in DOMAIN record}
<1>1. WithPath(<<tree>>, path) = <<tree>>
  <2>1. tree \in WithIt(<<tree>>)
    BY DEF ToSet
  <2>2. <<tree>> \in [1 .. 1 -> {tree}] /\ 1 \in Nat
    OBVIOUS
  <2>3. KeptBy(1, {tree}, <<tree>>, WithIt(<<tree>>))
    BY <2>2, KeptStages, Zenon
  <2>4. PICK at : /\ at[0] = <<>> /\ Kept(<<tree>>, WithIt(<<tree>>)) = at[1]
                  /\ \A i \in 1 .. 1 : at[i] = IF <<tree>>[i] \in WithIt(<<tree>>)
                                                 THEN Append(at[i - 1], <<tree>>[i]) ELSE at[i - 1]
    BY <2>3, Zenon DEF KeptBy
  <2> HIDE DEF WithIt
  <2>5. at[1] = Append(<<>>, tree)
    BY <2>1, <2>4
  <2> QED
    BY <2>4, <2>5 DEF WithPath, WithIt
<1>2. WithPath(<<tree, tree>>, path) = <<tree, tree>>
  <2>1. tree \in WithIt(<<tree, tree>>)
    BY DEF ToSet
  <2>2. <<tree, tree>> \in [1 .. 2 -> {tree}] /\ 2 \in Nat
    OBVIOUS
  <2>3. KeptBy(2, {tree}, <<tree, tree>>, WithIt(<<tree, tree>>))
    BY <2>2, KeptStages, Zenon
  <2>4. PICK at : /\ at[0] = <<>> /\ Kept(<<tree, tree>>, WithIt(<<tree, tree>>)) = at[2]
                  /\ \A i \in 1 .. 2 : at[i] = IF <<tree, tree>>[i] \in WithIt(<<tree, tree>>)
                                                 THEN Append(at[i - 1], <<tree, tree>>[i]) ELSE at[i - 1]
    BY <2>3, Zenon DEF KeptBy
  <2> HIDE DEF WithIt
  <2>5. at[1] = Append(<<>>, tree)
    BY <2>1, <2>4
  <2>6. at[2] = Append(at[1], tree)
    BY <2>1, <2>4
  <2> QED
    BY <2>4, <2>5, <2>6 DEF WithPath, WithIt
<1> QED
  BY <1>1, <1>2

\* A list of two trees is a tree, and none of them is read by a name.
LEMMA ListedIs ==
  ASSUME NEW trees, DOMAIN trees = 1 .. 2, \A k \in 1 .. 2 : DOMAIN trees[k] \subseteq Seq(Keys)
  PROVE  /\ Listed(trees) # Nothing /\ Listed(trees)[<<>>] = "list"
         /\ \E K, V : Listed(trees) \in Trees(K, V)
<1> DEFINE D == {<<>>} \cup UNION {{<<Place(k)>> \o p : p \in DOMAIN trees[k]} : k \in DOMAIN trees}
           NodeOf(p) == IF p = <<>> THEN "list"
                       ELSE trees[CHOOSE k \in DOMAIN trees : Place(k) = Head(p)][Tail(p)]
           K == Keys \cup {Place(k) : k \in 1 .. 2}
           tree == Listed(trees)
           V == {tree[p] : p \in D}
<1>1. D \subseteq Seq(K)
  <2>1. <<>> \in Seq(K)
    OBVIOUS
  <2>2. ASSUME NEW k \in 1 .. 2, NEW p \in DOMAIN trees[k] PROVE <<Place(k)>> \o p \in Seq(K)
    <3>1. <<Place(k)>> \in Seq(K)
      OBVIOUS
    <3>2. p \in Seq(Keys)
      OBVIOUS
    <3>3. Seq(Keys) \subseteq Seq(K)
      OBVIOUS
    <3> HIDE DEF K
    <3>4. \A s, t \in Seq(K) : s \o t \in Seq(K)
      OBVIOUS
    <3> QED
      BY <3>1, <3>2, <3>3, <3>4, Zenon
  <2> HIDE DEF K
  <2>3. \A d \in D : d = <<>> \/ \E k \in 1 .. 2 : \E p \in DOMAIN trees[k] : d = <<Place(k)>> \o p
    OBVIOUS
  <2> HIDE DEF D
  <2> QED
    BY <2>1, <2>2, <2>3
<1>3. <<>> \in D
  OBVIOUS
<1>7. tree = [p \in D |-> NodeOf(p)]
  BY Zenon DEF Listed
<1>8. NodeOf(<<>>) = "list"
  OBVIOUS
<1> HIDE DEF D, tree, NodeOf
<1>2. /\ tree = [p \in D |-> tree[p]] /\ DOMAIN tree = D
      /\ tree[<<>>] = "list"
  BY <1>3, <1>7, <1>8
<1> HIDE DEF K
<1>4. tree \in [D -> V]
  BY <1>2
<1>5. tree \in Trees(K, V)
  <2> HIDE DEF V
  <2> QED
    BY <1>1, <1>4, Zenon DEF Trees
<1>6. tree # Nothing
  BY <1>2, <1>3 DEF Nothing
<1> HIDE DEF V
<1> QED
  BY <1>2, <1>5, <1>6, Zenon DEF tree

\* Data is read where it stands, unless a number is a key of an object on the way; several
\* records are read by no name, and a variable by its name only while there is no other.
THEOREM ReadBackCorrect == Inputs => []ReadBack
<1>1. Growing => ReadBack
  <2> SUFFICES ASSUME Growing, subject = "data", input # Nothing PROVE ReadBack
    BY DEF ReadBack
  <2> DEFINE Bot(records, variables) ==
               [store |-> [r \in {"API_RESPONSE"} |-> input], system |-> {}, hasUser |-> TRUE,
                temporary |-> Nothing, records |-> records, variables |-> variables]
             texts == <<Named("name", Leaf("text"))>>
             both == <<Named("name", Leaf("text")), Named("other", Leaf("number"))>>
             one == Bot(<<input>>, texts)
             two == Bot(<<input, input>>, both)
  <2>1. Grown(input)
    BY DEF Growing
  <2>2. input \in Trees(Keys, Kinds) /\ DOMAIN input \subseteq Seq(Keys)
    BY <2>1, TreeIs DEF Grown
  <2>3. /\ one.store = [r \in {"API_RESPONSE"} |-> input] /\ one.records = <<input>>
        /\ one.variables = texts
        /\ two.records = <<input, input>> /\ two.variables = both
    OBVIOUS
  <2> HIDE DEF Bot, texts, both, one, two
  <2>4. "API_RESPONSE" \in DOMAIN one.store /\ one.store["API_RESPONSE"] = input
    BY <2>3
  <2>5. Get(one, <<"API_RESPONSE">>) = input
    <3>1. Head(<<"API_RESPONSE">>) = "API_RESPONSE" /\ Tail(<<"API_RESPONSE">>) = <<>>
      OBVIOUS
    <3> QED
      BY <2>4, <3>1 DEF Get
  <2>6. ASSUME NEW path \in DOMAIN input \ {<<>>}
        PROVE  /\ Get(one, <<"API_RESPONSE">> \o path) = ReadAt(input, path)
               /\ Get(one, <<"DATABASE">> \o path) = ReadAt(input, path)
               /\ Head(path) \notin Digits => Get(two, <<"DATABASE">> \o path) = Nothing
    <3>1. path \in Seq(Keys) /\ path # <<>> /\ DOMAIN path = 1 .. Len(path) /\ Len(path) \in Nat \ {0}
      BY <2>2
    <3>2. \A x : Head(<<x>> \o path) = x /\ Tail(<<x>> \o path) = path
      BY <3>1
    <3>3. input[<<>>] \in {"object", "list"}
      <4>1. 0 \in 0 .. Len(path) - 1 /\ SubSeq(path, 1, 0) = <<>>
        BY <3>1
      <4> QED
        BY <2>1, <4>1 DEF Grown
    <3>4. Resolve(input, path) = ReadAt(input, path)
      BY <2>1, ResolveReads
    <3>5. Get(one, <<"API_RESPONSE">> \o path) = ReadAt(input, path)
      <4> DEFINE key == <<"API_RESPONSE">> \o path
      <4>1. Head(key) = "API_RESPONSE" /\ Tail(key) = path
        BY <3>2
      <4> HIDE DEF key
      <4>2. Get(one, key) = IF input # Nothing /\ input[<<>>] \in {"object", "list"}
                              THEN Resolve(input, path) ELSE Nothing
        BY <2>4, <3>1, <4>1, GetBehind
      <4> QED
        BY <3>3, <3>4, <4>2 DEF key
    <3>6. WithPath(<<input>>, path) = <<input>> /\ WithPath(<<input, input>>, path) = <<input, input>>
      BY WithPathAre
    <3>7. Get(one, <<"DATABASE">> \o path) = ReadAt(input, path)
      <4>1. Get(one, <<"DATABASE">> \o path) = DatabaseValue(<<input>>, path)
        <5> DEFINE key == <<"DATABASE">> \o path
        <5>1. Head(key) = "DATABASE" /\ Tail(key) = path
          BY <3>2
        <5> HIDE DEF key
        <5>2. Get(one, key) = DatabaseValue(one.records, path)
          BY <3>1, <5>1, GetBehind
        <5> QED
          BY <2>3, <5>2 DEF key
      <4>2. DatabaseValue(<<input>>, path) = Resolve(input, path)
        BY <3>6 DEF DatabaseValue
      <4> QED
        BY <3>4, <4>1, <4>2
    <3>8. ASSUME Head(path) \notin Digits PROVE Get(two, <<"DATABASE">> \o path) = Nothing
      <4>1. Get(two, <<"DATABASE">> \o path) = DatabaseValue(<<input, input>>, path)
        <5> DEFINE key == <<"DATABASE">> \o path
        <5>1. Head(key) = "DATABASE" /\ Tail(key) = path
          BY <3>2
        <5> HIDE DEF key
        <5>2. Get(two, key) = DatabaseValue(two.records, path)
          BY <3>1, <5>1, GetBehind
        <5> QED
          BY <2>3, <5>2 DEF key
      <4> DEFINE tree == Listed(<<input, input>>)
      <4>2. DatabaseValue(<<input, input>>, path) = Resolve(tree, path)
        BY <3>6, SMTT(30) DEF DatabaseValue
      <4>3. DOMAIN <<input, input>> = 1 .. 2 /\ \A k \in 1 .. 2 : DOMAIN <<input, input>>[k] \subseteq Seq(Keys)
        BY <2>2
      <4>4. tree # Nothing /\ tree[<<>>] = "list" /\ \E K, V : tree \in Trees(K, V)
        BY <4>3, ListedIs
      <4> HIDE DEF tree
      <4>5. Index(tree, path[1]) = Nothing
        <5>1. path[1] = Head(path)
          BY <3>1
        <5> QED
          BY <3>8, <4>4, <5>1 DEF Index
      <4>6. Resolve(tree, path) = Nothing
        BY <3>1, <4>4, <4>5, NothingRead
      <4> QED
        BY <4>1, <4>2, <4>6
    <3> QED
      BY <3>5, <3>7, <3>8
  <2>7. Head(<<"USER", "name">>) = "USER" /\ Tail(<<"USER", "name">>) = <<"name">> /\ <<"name">> # <<>>
    OBVIOUS
  <2>8. Get(one, <<"USER", "name">>) = Leaf("text")
    <3>1. Get(one, <<"USER", "name">>) = UserValue(texts, <<"name">>)
      BY <2>3, <2>7, GetBehind, ZenonT(30)
    <3>2. Len(texts) = 1 /\ texts[1].value = Leaf("text")
      BY DEF texts, Named
    <3> QED
      BY <3>1, <3>2 DEF UserValue, GetVariables
  <2>9. Get(two, <<"USER", "name">>) = Listed(<<Leaf("text"), Leaf("number")>>)
    <3>1. Get(two, <<"USER", "name">>) = UserValue(both, <<"name">>)
      BY <2>3, <2>7, GetBehind, ZenonT(30)
    <3> DEFINE values == <<Leaf("text"), Leaf("number")>>
               tree == Listed(values)
    <3>2. Len(both) = 2 /\ [k \in DOMAIN both |-> both[k].value] = values
      BY DEF both, Named
    <3>3. UserValue(both, <<"name">>) = Resolve(tree, <<>>)
      <4>1. Tail(<<"name">>) = <<>>
        OBVIOUS
      <4> HIDE DEF values
      <4> QED
        BY <3>2, <4>1 DEF UserValue, GetVariables
    <3>4. DOMAIN values = 1 .. 2 /\ \A k \in 1 .. 2 : DOMAIN values[k] \subseteq Seq(Keys)
      BY DEF Leaf
    <3> HIDE DEF values
    <3>5. PICK K, V : tree \in Trees(K, V)
      BY <3>4, ListedIs
    <3> HIDE DEF tree
    <3>6. ReadBy(0, K, V, tree, <<>>)
      <4>1. DOMAIN <<>> = 1 .. 0
        OBVIOUS
      <4> QED
        BY <3>5, <4>1, ReadStages
    <3>7. Resolve(tree, <<>>) = tree
      BY <3>6, Zenon DEF ReadBy
    <3> QED
      BY <3>1, <3>3, <3>7 DEF tree, values
  <2> QED
    BY <2>5, <2>6, <2>8, <2>9 DEF ReadBack, one, two, Bot, texts, both
<1> QED
  BY <1>1, GrowingInv, PTL

-----------------------------------------------------------------------------
(* Placeholders.                                                            *)

\* The braces under names of their own: the SMT solver cannot take them as they are.
LeftBrace == "{"
RightBrace == "}"

LEMMA Braces == LeftBrace # RightBrace
BY Zenon DEF LeftBrace, RightBrace

LEMMA AroundBraces ==
  ASSUME NEW name
  PROVE  Around(name) = <<LeftBrace, LeftBrace>> \o name \o <<RightBrace, RightBrace>>
BY Zenon DEF Around, LeftBrace, RightBrace

\* A placeholder from a to b, character by character.
Braced(text, a, b) ==
    /\ b >= a + 4 /\ text[a] = LeftBrace /\ text[a + 1] = LeftBrace /\ text[b - 1] = RightBrace /\ text[b] = RightBrace
    /\ \A k \in a + 2 .. b - 2 : text[k] \notin {LeftBrace, RightBrace}

\* Two sequences put together, element by element.
Behind(S, s, t, u) ==
    /\ u \in Seq(S) /\ Len(u) = Len(s) + Len(t)
    /\ \A i \in 1 .. Len(s) + Len(t) : u[i] = IF i <= Len(s) THEN s[i] ELSE t[i - Len(s)]

LEMMA JoinedBehind ==
  ASSUME NEW S, NEW s \in Seq(S), NEW t \in Seq(S)
  PROVE  Behind(S, s, t, s \o t)
<1>1. s \o t \in Seq(S) /\ Len(s \o t) = Len(s) + Len(t)
  OBVIOUS
<1>2. \A i \in 1 .. Len(s) + Len(t) : (s \o t)[i] = IF i <= Len(s) THEN s[i] ELSE t[i - Len(s)]
  OBVIOUS
<1> QED
  BY <1>1, <1>2 DEF Behind

\* A sequence of the characters of a name of length n, in braces.
InBraces(S, n, name, around) ==
    /\ around \in Seq(S \cup {LeftBrace, RightBrace}) /\ Len(around) = n + 4
    /\ around[1] = LeftBrace /\ around[2] = LeftBrace /\ around[n + 3] = RightBrace /\ around[n + 4] = RightBrace
    /\ \A k \in 1 .. n : around[k + 2] = name[k]

LEMMA AroundIs ==
  ASSUME NEW S, NEW n \in Nat, NEW name \in Seq(S), Len(name) = n
  PROVE  InBraces(S, n, name, Around(name))
<1> DEFINE X == S \cup {LeftBrace, RightBrace}
           open == <<LeftBrace, LeftBrace>>
           close == <<RightBrace, RightBrace>>
           front == open \o name
           around == front \o close
<1>1. /\ open \in Seq(X) /\ Len(open) = 2 /\ open[1] = LeftBrace /\ open[2] = LeftBrace
      /\ close \in Seq(X) /\ Len(close) = 2 /\ close[1] = RightBrace /\ close[2] = RightBrace
      /\ name \in Seq(X)
  OBVIOUS
<1>2. around = Around(name)
  BY AroundBraces
<1> HIDE DEF open, close, X
<1>3. /\ front \in Seq(X) /\ Len(front) = n + 2 /\ front[1] = LeftBrace /\ front[2] = LeftBrace
      /\ \A k \in 1 .. n : front[k + 2] = name[k]
  <2>1. /\ front \in Seq(X) /\ Len(front) = 2 + n
        /\ \A k \in 1 .. 2 + n : front[k] = IF k <= 2 THEN open[k] ELSE name[k - 2]
    <3>1. Behind(X, open, name, front)
      BY <1>1, JoinedBehind
    <3> HIDE DEF front
    <3> QED
      BY <1>1, <3>1 DEF Behind
  <2> HIDE DEF front
  <2>2. \A k \in 1 .. n : k + 2 \in 1 .. 2 + n /\ ~(k + 2 <= 2) /\ (k + 2) - 2 = k
    OBVIOUS
  <2>3. 1 \in 1 .. 2 + n /\ 2 \in 1 .. 2 + n
    OBVIOUS
  <2> QED
    BY <1>1, <2>1, <2>2, <2>3
<1> HIDE DEF front
<1>4. /\ around \in Seq(X) /\ Len(around) = n + 4 /\ around[n + 3] = RightBrace /\ around[n + 4] = RightBrace
      /\ \A k \in 1 .. n + 2 : around[k] = front[k]
  <2>1. /\ around \in Seq(X) /\ Len(around) = Len(front) + 2
        /\ \A k \in 1 .. Len(front) + 2 :
              around[k] = IF k <= Len(front) THEN front[k] ELSE close[k - Len(front)]
    <3>1. Behind(X, front, close, around)
      BY <1>1, <1>3, JoinedBehind
    <3> HIDE DEF around
    <3> QED
      BY <1>1, <1>3, <3>1 DEF Behind
  <2> HIDE DEF around
  <2>2. /\ n + 3 \in 1 .. (n + 2) + 2 /\ ~(n + 3 <= n + 2) /\ (n + 3) - (n + 2) = 1
        /\ n + 4 \in 1 .. (n + 2) + 2 /\ ~(n + 4 <= n + 2) /\ (n + 4) - (n + 2) = 2
    OBVIOUS
  <2>3. \A k \in 1 .. n + 2 : k \in 1 .. (n + 2) + 2 /\ k <= n + 2
    OBVIOUS
  <2> QED
    BY <1>1, <1>3, <2>1, <2>2, <2>3
<1> HIDE DEF around
<1>5. 1 \in 1 .. n + 2 /\ 2 \in 1 .. n + 2 /\ \A k \in 1 .. n : k + 2 \in 1 .. n + 2
  OBVIOUS
<1> QED
  BY <1>2, <1>3, <1>4, <1>5 DEF X, InBraces

LEMMA MatchesUnfold ==
  ASSUME NEW S, NEW text \in Seq(S), NEW a \in 1 .. Len(text), NEW b \in 1 .. Len(text)
  PROVE  <<a, b>> \in Matches(text) <=>
            /\ b >= a + 4 /\ SubSeq(text, a, b) = Around(Name(text, a, b))
            /\ {"{", "}"} \cap ToSet(Name(text, a, b)) = {}
<1>1. <<a, b>>[1] = a /\ <<a, b>>[2] = b /\ <<a, b>> \in (1 .. Len(text)) \X (1 .. Len(text))
  OBVIOUS
<1> QED
  BY <1>1, Zenon DEF Matches

LEMMA MatchesAre ==
  ASSUME NEW S, NEW text \in Seq(S), NEW a \in 1 .. Len(text), NEW b \in 1 .. Len(text)
  PROVE  <<a, b>> \in Matches(text) <=> Braced(text, a, b)
<1> DEFINE name == Name(text, a, b)
           part == SubSeq(text, a, b)
<1>1. <<a, b>> \in Matches(text) <=> b >= a + 4 /\ part = Around(name) /\ {LeftBrace, RightBrace} \cap ToSet(name) = {}
  <2>1. {LeftBrace, RightBrace} = {"{", "}"}
    BY Zenon DEF LeftBrace, RightBrace
  <2> QED
    BY <2>1, MatchesUnfold, Zenon
<1>2. CASE b >= a + 4
  <2>1. PICK n \in Nat : n = b - a - 3
    BY <1>2
  <2>2. name \in Seq(S) /\ Len(name) = n /\ \A k \in 1 .. n : name[k] = text[a + 1 + k]
    <3>1. a + 2 \in Int /\ b - 2 \in Int /\ \A k \in a + 2 .. b - 2 : text[k] \in S
      OBVIOUS
    <3>2. /\ name \in Seq(S)
          /\ Len(name) = IF a + 2 <= b - 2 THEN (b - 2) - (a + 2) + 1 ELSE 0
          /\ \A k \in 1 .. (b - 2) - (a + 2) + 1 : name[k] = text[(a + 2) + k - 1]
      BY <3>1, SubSeqProperties DEF Name
    <3> HIDE DEF name
    <3>3. a + 2 <= b - 2 /\ (b - 2) - (a + 2) + 1 = n /\ \A k \in 1 .. n : (a + 2) + k - 1 = a + 1 + k
      BY <1>2, <2>1
    <3> QED
      BY <3>2, <3>3
  <2>3. part \in Seq(S) /\ Len(part) = n + 4 /\ \A k \in 1 .. n + 4 : part[k] = text[a + k - 1]
    <3>1. \A k \in a .. b : text[k] \in S
      OBVIOUS
    <3>2. /\ part \in Seq(S) /\ Len(part) = IF a <= b THEN b - a + 1 ELSE 0
          /\ \A k \in 1 .. b - a + 1 : part[k] = text[a + k - 1]
      BY <3>1, SubSeqProperties
    <3> HIDE DEF part
    <3>3. a <= b /\ b - a + 1 = n + 4
      BY <1>2, <2>1
    <3> QED
      BY <3>2, <3>3
  <2> DEFINE around == Around(name)
  <2> HIDE DEF name, part
  <2>10. InBraces(S, n, name, around)
    BY <2>2, AroundIs
  <2> HIDE DEF around
  <2>4. /\ around \in Seq(S \cup {LeftBrace, RightBrace}) /\ Len(around) = n + 4
        /\ around[1] = LeftBrace /\ around[2] = LeftBrace
        /\ around[n + 3] = RightBrace /\ around[n + 4] = RightBrace
        /\ \A k \in 1 .. n : around[k + 2] = name[k]
    BY <2>10 DEF InBraces
  <2>5. part = around <=> \A k \in 1 .. n + 4 : part[k] = around[k]
    <3> DEFINE X == S \cup {LeftBrace, RightBrace}
    <3>1. part \in [1 .. n + 4 -> X]
      BY <2>3
    <3>2. around \in [1 .. n + 4 -> X]
      BY <2>4
    <3> HIDE DEF X
    <3> QED
      BY <3>1, <3>2
  <2>6. /\ part[1] = text[a] /\ part[2] = text[a + 1] /\ part[n + 3] = text[b - 1] /\ part[n + 4] = text[b]
        /\ 1 \in 1 .. n + 4 /\ 2 \in 1 .. n + 4 /\ n + 3 \in 1 .. n + 4 /\ n + 4 \in 1 .. n + 4
    <3>1. a + 1 - 1 = a /\ a + 2 - 1 = a + 1 /\ a + (n + 3) - 1 = b - 1 /\ a + (n + 4) - 1 = b
      BY <2>1
    <3>2. 1 \in 1 .. n + 4 /\ 2 \in 1 .. n + 4 /\ n + 3 \in 1 .. n + 4 /\ n + 4 \in 1 .. n + 4
      OBVIOUS
    <3> QED
      BY <2>3, <3>1, <3>2
  <2>7. ASSUME NEW k \in 1 .. n + 4, k \notin {1, 2, n + 3, n + 4} PROVE part[k] = around[k]
    <3>1. k - 2 \in 1 .. n /\ (k - 2) + 2 = k /\ a + 1 + (k - 2) = a + k - 1
      BY <2>7
    <3> QED
      BY <2>2, <2>3, <2>4, <3>1
  <2>8. part = around <=> /\ text[a] = LeftBrace /\ text[a + 1] = LeftBrace
                          /\ text[b - 1] = RightBrace /\ text[b] = RightBrace
    BY <2>4, <2>5, <2>6, <2>7
  <2>9. {LeftBrace, RightBrace} \cap ToSet(name) = {} <=>
           \A k \in a + 2 .. b - 2 : text[k] \notin {LeftBrace, RightBrace}
    <3>1. ToSet(name) = {name[k] : k \in 1 .. n}
      <4>1. DOMAIN name = 1 .. n
        BY <2>2
      <4> QED
        BY <4>1 DEF ToSet
    <3>2. \A k \in a + 2 .. b - 2 : k - a - 1 \in 1 .. n /\ a + 1 + (k - a - 1) = k
      BY <2>1
    <3>3. \A k \in 1 .. n : a + 1 + k \in a + 2 .. b - 2
      BY <2>1
    <3>4. \A k \in a + 2 .. b - 2 : text[k] \in ToSet(name)
      BY <2>2, <3>1, <3>2
    <3>5. \A c \in ToSet(name) : \E k \in a + 2 .. b - 2 : text[k] = c
      BY <2>2, <3>1, <3>3
    <3> QED
      BY <3>4, <3>5
  <2> QED
    BY <1>1, <1>2, <2>8, <2>9 DEF Braced, around
<1>3. CASE ~(b >= a + 4)
  BY <1>1, <1>3 DEF Braced
<1> QED
  BY <1>2, <1>3

\* No two overlap.
LEMMA BracedApart ==
  ASSUME NEW text, NEW a \in Nat, NEW b \in Nat, NEW c \in Nat, NEW d \in Nat,
         Braced(text, a, b), Braced(text, c, d), a # c \/ b # d, a <= c
  PROVE  b < c
<1> USE Braces DEF Braced
<1>1. CASE a = c
  <2>1. CASE b < d
    <3>1. b - 1 \in c + 2 .. d - 2 /\ text[b - 1] = RightBrace
      BY <1>1, <2>1
    <3> QED
      BY <3>1
  <2>2. CASE d < b
    <3>1. d - 1 \in a + 2 .. b - 2 /\ text[d - 1] = RightBrace
      BY <1>1, <2>2
    <3> QED
      BY <3>1
  <2> QED
    BY <1>1, <2>1, <2>2
<1>2. CASE c = a + 1
  <2>1. c + 1 \in a + 2 .. b - 2
    BY <1>2
  <2> QED
    BY <2>1
<1>3. c # b - 1 /\ c # b /\ c \notin a + 2 .. b - 2
  OBVIOUS
<1> QED
  BY <1>1, <1>2, <1>3

\* Placeholders do not overlap: so those before the last one stand where they stood and say
\* what they said when that one is replaced, whatever its value, and a round that goes from
\* the right replaces what the text held.
THEOREM PlaceholdersApart ==
  ASSUME NEW S, NEW text \in Seq(S), NEW value \in Seq(S),
         NEW s \in Matches(text), NEW r \in Matches(text), s # r, s[1] <= r[1]
  PROVE  /\ s[2] < r[1]
         /\ s \in Matches(Splice(text, r, value))
         /\ Name(Splice(text, r, value), s[1], s[2]) = Name(text, s[1], s[2])
<1>0. Matches(text) \subseteq (1 .. Len(text)) \X (1 .. Len(text))
  BY Zenon DEF Matches
<1>1. PICK a \in 1 .. Len(text), b \in 1 .. Len(text) : s = <<a, b>>
  BY <1>0
<1>2. PICK c \in 1 .. Len(text), d \in 1 .. Len(text) : r = <<c, d>>
  BY <1>0
<1>3. Braced(text, a, b) /\ Braced(text, c, d)
  BY <1>1, <1>2, MatchesAre
<1>4. b < c
  BY <1>1, <1>2, <1>3, BracedApart
<1> DEFINE front == SubSeq(text, 1, c - 1)
           back == SubSeq(text, d + 1, Len(text))
           fore == front \o value
           new == fore \o back
<1>5. new = Splice(text, r, value)
  BY <1>2 DEF Splice
<1>6. /\ front \in Seq(S) /\ Len(front) = c - 1 /\ back \in Seq(S)
      /\ \A k \in 1 .. c - 1 : front[k] = text[k]
  OBVIOUS
<1> HIDE DEF front, back
<1>7. /\ fore \in Seq(S) /\ Len(fore) >= c - 1
      /\ \A k \in 1 .. c - 1 : fore[k] = text[k]
  BY <1>6
<1> HIDE DEF fore
<1>8. /\ new \in Seq(S) /\ Len(new) >= c - 1
      /\ \A k \in 1 .. c - 1 : new[k] = text[k]
  BY <1>6, <1>7
<1> HIDE DEF new
<1>9. \A k \in a .. b : new[k] = text[k]
  BY <1>4, <1>8
<1>10. Braced(new, a, b)
  <2>1. b >= a + 4
    BY <1>3 DEF Braced
  <2>2. a \in a .. b /\ a + 1 \in a .. b /\ b - 1 \in a .. b /\ b \in a .. b
        /\ \A k \in a + 2 .. b - 2 : k \in a .. b
    BY <2>1
  <2> QED
    BY <1>3, <1>9, <2>2 DEF Braced
<1>11. a \in 1 .. Len(new) /\ b \in 1 .. Len(new)
  BY <1>3, <1>4, <1>8 DEF Braced
<1>12. s \in Matches(new)
  BY <1>1, <1>8, <1>10, <1>11, MatchesAre
<1>13. Name(new, a, b) = Name(text, a, b)
  <2>1. \A k \in a + 2 .. b - 2 : new[k] = text[k] /\ new[k] \in S /\ text[k] \in S
    BY <1>8, <1>9, <1>11
  <2> DEFINE n == (b - 2) - (a + 2) + 1
             there == Name(new, a, b)
             here == Name(text, a, b)
  <2>2. a + 2 \in Int /\ b - 2 \in Int /\ a + 2 <= b - 2
    BY <1>3 DEF Braced
  <2>3. there \in Seq(S) /\ Len(there) = n /\ \A k \in 1 .. n : there[k] = new[(a + 2) + k - 1]
    BY <2>1, <2>2, SubSeqProperties DEF Name
  <2>4. here \in Seq(S) /\ Len(here) = n /\ \A k \in 1 .. n : here[k] = text[(a + 2) + k - 1]
    BY <2>1, <2>2, SubSeqProperties DEF Name
  <2>5. n \in Nat /\ \A k \in 1 .. n : (a + 2) + k - 1 \in a + 2 .. b - 2
    BY <2>2
  <2> HIDE DEF n, there, here
  <2>6. \A k \in 1 .. n : there[k] = here[k]
    BY <2>1, <2>3, <2>4, <2>5
  <2> QED
    BY <2>3, <2>4, <2>5, <2>6 DEF there, here
<1> QED
  BY <1>1, <1>2, <1>4, <1>5, <1>12, <1>13
=============================================================================

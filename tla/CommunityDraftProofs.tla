------------------------ MODULE CommunityDraftProofs ------------------------
(***************************************************************************)
(* Theorems about CommunityDraft: that a question can always be made of a  *)
(* discussion, for any number of posts, any attachments and any number of  *)
(* them that one request takes.  The lengths of the texts are those of the *)
(* model.                                                                  *)
(*                                                                         *)
(* First what is needed of induction, here and in AnsweringProofs: that    *)
(* the folds of the community modules are what they are meant to be.       *)
(***************************************************************************)
EXTENDS CommunityDraft, FiniteSetTheorems, WellFoundedInduction, TLAPS

----------------------------------------------------------------------------
(* Induction and folds.                                                    *)

(* What holds of nothing, and of n + 1 as soon as of n, holds of all.      *)
LEMMA UpToInduction ==
  ASSUME NEW N \in Nat, NEW S, 0 \in S, \A n \in 0..N-1 : n \in S => n + 1 \in S
  PROVE  0..N \subseteq S
<1> DEFINE Less == OpToRel(<, Nat)
           Bad == {n \in 0..N : n \notin S}
<1>1. IsWellFoundedOn(Less, Nat)
  BY NatLessThanWellFounded
<1>2. \A m, n \in Nat : m < n => <<m, n>> \in Less
  BY DEF OpToRel
<1>3. Bad \subseteq Nat
  OBVIOUS
<1> SUFFICES ASSUME Bad # {} PROVE FALSE
  OBVIOUS
<1> HIDE DEF Less
<1>4. PICK n \in Bad : \A m \in Bad : <<m, n>> \notin Less
  BY <1>1, <1>3, WFMin
<1>5. n \in 0..N /\ n \notin S /\ n # 0
  BY <1>4
<1>6. n - 1 \in Nat /\ n - 1 < n /\ n - 1 \in 0..N-1 /\ n - 1 + 1 = n
  BY <1>5
<1>7. n - 1 \in S
  <2>1. n - 1 \notin Bad
    BY <1>2, <1>3, <1>4, <1>6
  <2>2. QED
    BY <2>1, <1>5, <1>6
<1>8. QED
  BY <1>5, <1>6, <1>7

(* A recursion over the subsets of a finite set, which takes one element   *)
(* after the other (each step: choice, then step), has a solution: the     *)
(* folds of the community modules are such recursions.                     *)
Recurses(f, S, b, step, choice) ==
    f = [s \in SUBSET S |-> IF s = {} THEN b ELSE step[<<choice[s], f[s \ {choice[s]}]>>]]

Chooses(choice, S) == \A s \in SUBSET S : s # {} => choice[s] \in s
Steps(step, S, T) == \A x \in S, r \in T : step[<<x, r>>] \in T

LEMMA FoldExists ==
  ASSUME NEW S, IsFiniteSet(S), NEW T, NEW b \in T, NEW step, NEW choice,
         Steps(step, S, T), Chooses(choice, S)
  PROVE  \E f \in [SUBSET S -> T] : Recurses(f, S, b, step, choice)
<1> DEFINE N == Cardinality(S)
           Body(f, s) == IF s = {} THEN b ELSE step[<<choice[s], f[s \ {choice[s]}]>>]
           Up(f, n) == \A s \in SUBSET S : Cardinality(s) <= n => f[s] = Body(f, s)
           Good == {n \in 0..N : \E f \in [SUBSET S -> T] : Up(f, n)}
<1>1. N \in Nat /\ \A s \in SUBSET S : IsFiniteSet(s) /\ Cardinality(s) \in 0..N
  <2>1. N \in Nat
    BY FS_CardinalityType
  <2>2. ASSUME NEW s \in SUBSET S PROVE IsFiniteSet(s) /\ Cardinality(s) \in 0..N
    BY <2>1, FS_Subset, FS_CardinalityType
  <2>3. QED
    BY <2>1, <2>2
<1>2. \A s \in SUBSET S : Cardinality(s) <= 0 => s = {}
  BY <1>1, FS_EmptySet
<1>3. \A s \in SUBSET S : s # {} => 
         choice[s] \in S /\ s \ {choice[s]} \in SUBSET S /\ Cardinality(s \ {choice[s]}) = Cardinality(s) - 1
  BY <1>1, FS_RemoveElement DEF Chooses
<1>4. ASSUME NEW f \in [SUBSET S -> T], NEW s \in SUBSET S PROVE Body(f, s) \in T
  <2>1. s # {} => choice[s] \in S /\ f[s \ {choice[s]}] \in T
    BY <1>3
  <2>2. QED
    BY <2>1 DEF Steps
<1> HIDE DEF N
<1>5. 0 \in Good
  <2> DEFINE h == [s \in SUBSET S |-> b]
  <2>1. h \in [SUBSET S -> T] /\ Up(h, 0)
    BY <1>2
  <2> HIDE DEF h
  <2>2. QED
    BY <2>1, <1>1
<1>6. ASSUME NEW n \in 0..N-1, n \in Good PROVE n + 1 \in Good
  <2>1. PICK f \in [SUBSET S -> T] : Up(f, n)
    BY <1>6
  <2> DEFINE g == [s \in SUBSET S |-> IF Cardinality(s) <= n THEN f[s] ELSE Body(f, s)]
  <2>2. g \in [SUBSET S -> T]
    BY <1>4
  <2>3. ASSUME NEW s \in SUBSET S, Cardinality(s) <= n + 1 PROVE g[s] = Body(g, s)
    <3>1. g[s] = Body(f, s)
      BY <2>1
    <3>2. CASE s = {}
      BY <3>1, <3>2
    <3>3. CASE s # {}
      <4>1. Cardinality(s \ {choice[s]}) <= n /\ s \ {choice[s]} \in SUBSET S
        BY <1>1, <1>3, <2>3, <3>3
      <4>2. g[s \ {choice[s]}] = f[s \ {choice[s]}]
        BY <4>1
      <4>3. QED
        BY <3>1, <3>3, <4>2
    <3>4. QED
      BY <3>2, <3>3
  <2>4. n + 1 \in 0..N
    BY <1>1
  <2> HIDE DEF g
  <2>5. QED
    BY <2>2, <2>3, <2>4
<1>7. N \in Good
  <2> HIDE DEF Good
  <2>1. 0..N \subseteq Good
    BY <1>1, <1>5, <1>6, UpToInduction
  <2>2. QED
    BY <1>1, <2>1
<1>8. PICK f \in [SUBSET S -> T] : Up(f, N)
  BY <1>7
<1>9. \A s \in SUBSET S : f[s] = Body(f, s)
  <2>1. \A s \in SUBSET S : Cardinality(s) <= N
    BY <1>1
  <2>2. QED
    BY <1>8, <2>1
<1>10. f = [s \in SUBSET S |-> Body(f, s)]
  BY <1>9
<1>11. QED
  BY <1>10 DEF Recurses

(* What holds of no element, and of a set as soon as of the set without    *)
(* the element that is next, holds of all of them.                         *)
LEMMA SubsetInduction ==
  ASSUME NEW S, IsFiniteSet(S), NEW G, {} \in G,
         \A s \in SUBSET S : s # {} => \E x \in s : s \ {x} \in G => s \in G
  PROVE  S \in G
<1> DEFINE N == Cardinality(S)
           Good == {n \in 0..N : \A s \in SUBSET S : Cardinality(s) <= n => s \in G}
<1>1. N \in Nat /\ \A s \in SUBSET S : IsFiniteSet(s) /\ Cardinality(s) \in 0..N
  <2>1. N \in Nat
    BY FS_CardinalityType
  <2>2. ASSUME NEW s \in SUBSET S PROVE IsFiniteSet(s) /\ Cardinality(s) \in 0..N
    BY <2>1, FS_Subset, FS_CardinalityType
  <2>3. QED
    BY <2>1, <2>2
<1>2. \A s \in SUBSET S : Cardinality(s) <= 0 => s = {}
  BY <1>1, FS_EmptySet
<1>3. \A s \in SUBSET S : \A x \in s : Cardinality(s \ {x}) = Cardinality(s) - 1
  BY <1>1, FS_RemoveElement
<1>4. S \in SUBSET S /\ Cardinality(S) <= N
  BY <1>1
<1> HIDE DEF N
<1>5. 0 \in Good
  BY <1>1, <1>2
<1>6. ASSUME NEW n \in 0..N-1, n \in Good PROVE n + 1 \in Good
  <2>1. ASSUME NEW s \in SUBSET S, Cardinality(s) <= n + 1 PROVE s \in G
    <3>1. CASE s # {}
      <4>1. PICK x \in s : s \ {x} \in G => s \in G
        BY <3>1
      <4>2. Cardinality(s \ {x}) <= n /\ s \ {x} \in SUBSET S
        BY <1>1, <1>3, <2>1
      <4>3. QED
        BY <1>6, <4>1, <4>2
    <3>2. QED
      BY <3>1
  <2>2. n + 1 \in 0..N
    BY <1>1
  <2>3. QED
    BY <2>1, <2>2
<1>7. N \in Good
  <2> HIDE DEF Good
  <2>1. 0..N \subseteq Good
    BY <1>1, <1>5, <1>6, UpToInduction
  <2>2. QED
    BY <1>1, <2>1
<1>8. QED
  BY <1>4, <1>7

(* The recursion of MapThenSumSet: its equation has a solution, and a      *)
(* solution is a natural number everywhere.                                *)
SumOver(f, S, v) ==
    f = [s \in SUBSET S |->
           IF s = {} THEN 0 ELSE v[CHOOSE x \in s : TRUE] + f[s \ {CHOOSE x \in s : TRUE}]]

LEMMA SumExists ==
  ASSUME NEW S, IsFiniteSet(S), NEW v \in [S -> Nat]
  PROVE  \E f : SumOver(f, S, v)
<1> DEFINE choice == [s \in SUBSET S |-> IF s = {} THEN S ELSE CHOOSE x \in s : TRUE]
           step == [p \in S \X Nat |-> v[p[1]] + p[2]]
<1>1. \A s \in SUBSET S : s # {} => choice[s] \in s /\ choice[s] = CHOOSE x \in s : TRUE
  OBVIOUS
<1>2. step \in [S \X Nat -> Nat]
  OBVIOUS
<1>3. \A x \in S, n \in Nat : step[<<x, n>>] = v[x] + n
  OBVIOUS
<1> HIDE DEF choice, step
<1>4. PICK f \in [SUBSET S -> Nat] : Recurses(f, S, 0, step, choice)
  <2>1. Chooses(choice, S)
    BY <1>1 DEF Chooses
  <2>2. 0 \in Nat /\ Steps(step, S, Nat)
    BY <1>2 DEF Steps
  <2>3. QED
    BY <2>1, <2>2, FoldExists
<1>5. \A s \in SUBSET S : s # {} =>
         step[<<choice[s], f[s \ {choice[s]}]>>]
         = v[CHOOSE x \in s : TRUE] + f[s \ {CHOOSE x \in s : TRUE}]
  BY <1>1, <1>3
<1>6. SumOver(f, S, v)
  BY <1>4, <1>5 DEF SumOver, Recurses
<1>7. QED
  BY <1>6

(* A sum is no more than what bounds it element by element.                *)
LEMMA SumIsBounded ==
  ASSUME NEW S, IsFiniteSet(S), NEW v \in [S -> Nat], NEW f, SumOver(f, S, v),
         NEW g, g[{}] = 0,
         \A s \in SUBSET S : \A x \in s :
            g[s \ {x}] \in Nat /\ g[s] \in Nat /\ g[s] >= g[s \ {x}] + v[x]
  PROVE  f[S] \in Nat /\ f[S] <= g[S]
<1> DEFINE G == {s \in SUBSET S : f[s] \in Nat /\ f[s] <= g[s]}
<1>1. f[{}] = 0 /\ \A s \in SUBSET S : s # {} =>
         f[s] = v[CHOOSE x \in s : TRUE] + f[s \ {CHOOSE x \in s : TRUE}]
  BY DEF SumOver
<1>2. {} \in G
  BY <1>1
<1>3. ASSUME NEW s \in SUBSET S, s # {} PROVE \E x \in s : s \ {x} \in G => s \in G
  <2>1. PICK x \in s : x = CHOOSE y \in s : TRUE
    BY <1>3
  <2>2. f[s] = v[x] + f[s \ {x}] /\ v[x] \in Nat
    BY <1>1, <1>3, <2>1
  <2>3. g[s \ {x}] \in Nat /\ g[s] \in Nat /\ g[s] >= g[s \ {x}] + v[x]
    OBVIOUS
  <2>4. s \ {x} \in G => s \in G
    BY <2>2, <2>3
  <2>5. QED
    BY <2>4
<1> HIDE DEF G
<1>4. S \in G
  BY <1>2, <1>3, SubsetInduction
<1>5. QED
  BY <1>4 DEF G

----------------------------------------------------------------------------
(* There is a least and a greatest number in every set of them.            *)
LEMMA LeastOf ==
  ASSUME NEW S \in SUBSET Nat, S # {}
  PROVE  \E n \in S : \A m \in S : n <= m
<1> DEFINE Less == OpToRel(<, Nat)
<1>1. IsWellFoundedOn(Less, Nat)
  BY NatLessThanWellFounded
<1>2. \A m, n \in Nat : m < n => <<m, n>> \in Less
  BY DEF OpToRel
<1> HIDE DEF Less
<1>3. PICK n \in S : \A m \in S : <<m, n>> \notin Less
  BY <1>1, WFMin
<1>4. ASSUME NEW m \in S PROVE n <= m
  <2>1. m \in Nat /\ n \in Nat
    BY <1>3
  <2>2. ~(m < n)
    BY <1>2, <1>3, <2>1
  <2>3. QED
    BY <2>1, <2>2
<1>5. QED
  BY <1>4

LEMMA MinIsOne ==
  ASSUME NEW S \in SUBSET Nat, S # {}
  PROVE  Min(S) \in S /\ \A m \in S : Min(S) <= m
  BY LeastOf DEF Min

LEMMA MaxIsOne ==
  ASSUME NEW n \in Nat, NEW S \in SUBSET (1..n), S # {}
  PROVE  Max(S) \in S /\ \A m \in S : m <= Max(S)
<1> DEFINE Distances == {n - m : m \in S}
<1>1. Distances \in SUBSET Nat /\ Distances # {}
  OBVIOUS
<1> HIDE DEF Distances
<1>2. PICK d \in Distances : \A e \in Distances : d <= e
  BY <1>1, LeastOf
<1>3. PICK x \in S : d = n - x
  BY <1>2 DEF Distances
<1>4. ASSUME NEW m \in S PROVE m <= x
  <2>1. d <= n - m
    BY <1>2 DEF Distances
  <2>2. QED
    BY <1>3, <2>1
<1>5. \A m \in S : x >= m
  BY <1>4
<1>6. Max(S) \in S /\ \A m \in S : Max(S) >= m
  BY <1>5 DEF Max
<1>7. QED
  BY <1>6

(* FoldLeft takes the numbers up to n in turn, beginning with the first.   *)
InTurn(n) == [s \in SUBSET (1..n) |-> Max(s)]

LEMMA InTurnChooses ==
  ASSUME NEW n \in Nat
  PROVE  /\ IsFiniteSet(1..n) /\ Chooses(InTurn(n), 1..n)
         /\ \A i \in 1..n : Max(1..i) = i /\ (1..i) \ {i} = 1..i-1 /\ 1..i \in SUBSET (1..n)
<1>1. IsFiniteSet(1..n)
  BY FS_Interval
<1>2. Chooses(InTurn(n), 1..n)
  BY MaxIsOne DEF Chooses, InTurn
<1>3. ASSUME NEW i \in 1..n PROVE Max(1..i) = i /\ (1..i) \ {i} = 1..i-1 /\ 1..i \in SUBSET (1..n)
  <2>1. 1..i \in SUBSET (1..n) /\ i \in 1..i
    OBVIOUS
  <2>2. Max(1..i) \in 1..i /\ i <= Max(1..i)
    BY <2>1, MaxIsOne
  <2>3. QED
    BY <2>1, <2>2
<1>4. QED
  BY <1>1, <1>2, <1>3

(* A solution of the recursion, number by number: its values are of T.     *)
Folds(f, n, T, b, step) ==
    /\ f[{}] = b
    /\ \A s \in SUBSET (1..n) : s # {} /\ f[s \ {Max(s)}] \in T =>
          f[s] = step[<<Max(s), f[s \ {Max(s)}]>>]

LEMMA FoldInTurn ==
  ASSUME NEW n \in Nat, NEW T, NEW b \in T, NEW step, Steps(step, 1..n, T),
         NEW f, Folds(f, n, T, b, step)
  PROVE  /\ \A i \in 0..n : f[1..i] \in T
         /\ \A i \in 1..n : f[1..i] = step[<<i, f[1..i-1]>>]
<1> DEFINE Good == {i \in 0..n : f[1..i] \in T}
<1>1. ASSUME NEW i \in 1..n, f[1..i-1] \in T PROVE f[1..i] = step[<<i, f[1..i-1]>>] /\ f[1..i] \in T
  <2>1. Max(1..i) = i /\ (1..i) \ {i} = 1..i-1 /\ 1..i \in SUBSET (1..n) /\ 1..i # {}
    BY InTurnChooses
  <2>2. f[1..i] = step[<<i, f[1..i-1]>>]
    BY <1>1, <2>1 DEF Folds
  <2>3. QED
    BY <1>1, <2>2 DEF Steps
<1>2. 0 \in Good
  <2>1. 1..0 = {}
    OBVIOUS
  <2>2. QED
    BY <2>1 DEF Folds
<1>3. ASSUME NEW i \in 0..n-1, i \in Good PROVE i + 1 \in Good
  <2>1. i + 1 \in 1..n /\ i + 1 - 1 = i
    OBVIOUS
  <2>2. f[1..(i+1)-1] \in T
    BY <1>3, <2>1
  <2>3. f[1..i+1] \in T
    BY <1>1, <2>1, <2>2
  <2>4. QED
    BY <2>1, <2>3
<1>4. 0..n \subseteq Good
  <2> HIDE DEF Good
  <2>1. QED
    BY <1>2, <1>3, UpToInduction
<1>5. ASSUME NEW i \in 1..n PROVE f[1..i-1] \in T
  <2>1. i - 1 \in 0..n
    OBVIOUS
  <2>2. QED
    BY <1>4, <2>1
<1>6. QED
  BY <1>1, <1>4, <1>5

Solves(f, n, T, b, step) ==
    /\ f = [s \in SUBSET (1..n) |-> IF s = {} THEN b ELSE step[<<Max(s), f[s \ {Max(s)}]>>]]
    /\ \A s \in SUBSET (1..n) : s # {} => Max(s) \in 1..n /\ f[s \ {Max(s)}] \in T

LEMMA InTurnExists ==
  ASSUME NEW n \in Nat, NEW T, NEW b \in T, NEW step, Steps(step, 1..n, T)
  PROVE  \E f : Solves(f, n, T, b, step)
<1>1. PICK f \in [SUBSET (1..n) -> T] : Recurses(f, 1..n, b, step, InTurn(n))
  BY InTurnChooses, FoldExists
<1>2. \A s \in SUBSET (1..n) : InTurn(n)[s] = Max(s) /\ (s # {} => Max(s) \in s)
  BY InTurnChooses DEF InTurn, Chooses
<1>3. \A s \in SUBSET (1..n) : f[s] = IF s = {} THEN b ELSE step[<<Max(s), f[s \ {Max(s)}]>>]
  BY <1>1, <1>2 DEF Recurses
<1>4. f = [s \in SUBSET (1..n) |-> IF s = {} THEN b ELSE step[<<Max(s), f[s \ {Max(s)}]>>]]
  BY <1>1, <1>3
<1>5. ASSUME NEW s \in SUBSET (1..n), s # {} PROVE Max(s) \in 1..n /\ f[s \ {Max(s)}] \in T
  <2>1. s \ {Max(s)} \in SUBSET (1..n)
    OBVIOUS
  <2>2. QED
    BY <1>1, <1>2, <1>5, <2>1
<1>6. Solves(f, n, T, b, step)
  BY <1>4, <1>5 DEF Solves
<1>7. QED
  BY <1>6

(* Rows never fill more than the room there is.                            *)
LEMMA FillFits ==
  ASSUME NEW rows \in Seq(Nat), NEW room \in Nat
  PROVE  Fill(rows, room) \in 0..room
<1> DEFINE n == Len(rows)
           row(i) == Reverse(rows)[i]
           Gap(used) == IF used = 0 THEN 0 ELSE 1
           Take(used, r) == IF room - used - Gap(used) <= 0 THEN used
                            ELSE used + Gap(used) + Min2(r, room - used - Gap(used))
           step == [p \in (1..n) \X (0..room) |-> Take(p[2], row(p[1]))]
           Eqn(f) == f = [s \in SUBSET (1..n) |->
                            IF s = {} THEN 0 ELSE Take(f[s \ {Max(s)}], row(Max(s)))]
<1>1. n \in Nat /\ 0 \in 0..room /\ \A i \in 1..n : row(i) \in Nat
  BY DEF Reverse
<1>2. DOMAIN Reverse(rows) = 1..n
  BY DEF Reverse
<1>3. ASSUME NEW used \in 0..room, NEW r \in Nat PROVE Take(used, r) \in 0..room
  BY <1>3 DEF Min2
<1>4. Steps(step, 1..n, 0..room) /\ \A i \in 1..n, used \in 0..room : step[<<i, used>>] = Take(used, row(i))
  <2> HIDE DEF Take, row, n
  <2>1. QED
    BY <1>1, <1>3 DEF Steps
<1>5. Fill(rows, room) = (CHOOSE f : Eqn(f))[1..n]
  <2>1. Fill(rows, room) = FoldLeft(Take, 0, Reverse(rows))
    BY Zenon DEF Fill
  <2>2. FoldLeft(Take, 0, Reverse(rows)) =
          (CHOOSE f : f = [s \in SUBSET (DOMAIN Reverse(rows)) |->
             IF s = {} THEN 0 ELSE Take(f[s \ {Max(s)}], row(Max(s)))])[DOMAIN Reverse(rows)]
    BY Zenon DEF FoldLeft, MapThenFoldSet
  <2>3. QED
    BY <1>2, <2>1, <2>2, Zenon
<1> HIDE DEF step, Take, row, n
<1>6. \E f : Eqn(f)
  <2>1. PICK f : Solves(f, n, 0..room, 0, step)
    BY <1>1, <1>4, InTurnExists
  <2>2. \A s \in SUBSET (1..n) : f[s] = IF s = {} THEN 0 ELSE Take(f[s \ {Max(s)}], row(Max(s)))
    BY <1>4, <2>1 DEF Solves
  <2>3. Eqn(f)
    BY <2>1, <2>2 DEF Solves
  <2>4. QED
    BY <2>3
<1>7. PICK f : Eqn(f) /\ Fill(rows, room) = f[1..n]
  BY <1>5, <1>6
<1>8. Folds(f, n, 0..room, 0, step)
  <2>1. ASSUME NEW s \in SUBSET (1..n), s # {}, f[s \ {Max(s)}] \in 0..room
        PROVE  f[s] = step[<<Max(s), f[s \ {Max(s)}]>>]
    <3>1. Max(s) \in 1..n
      BY <1>1, <2>1, MaxIsOne
    <3>2. QED
      BY <1>4, <1>7, <2>1, <3>1
  <2>2. QED
    BY <1>7, <2>1 DEF Folds
<1>9. f[1..n] \in 0..room
  <2>1. \A i \in 0..n : f[1..i] \in 0..room
    BY <1>1, <1>4, <1>8, FoldInTurn, Zenon
  <2>2. QED
    BY <1>1, <2>1
<1>10. QED
  BY <1>7, <1>9

(* The rows of the full prompt add up to a number.                         *)
LEMMA RowsAddUp ==
  ASSUME NEW rows \in Seq(Nat)
  PROVE  FoldLeft(LAMBDA n, row : n + row + 1, 0, rows) \in Nat
<1> DEFINE len == Len(rows)
           step == [p \in (1..len) \X Nat |-> p[2] + rows[p[1]] + 1]
           Eqn(f) == f = [s \in SUBSET (1..len) |->
                            IF s = {} THEN 0 ELSE f[s \ {Max(s)}] + rows[Max(s)] + 1]
<1>1. len \in Nat /\ 0 \in Nat /\ rows \in [1..len -> Nat]
  OBVIOUS
<1>2. Steps(step, 1..len, Nat) /\ \A i \in 1..len, m \in Nat : step[<<i, m>>] = m + rows[i] + 1
  <2> HIDE DEF len
  <2>1. \A i \in 1..len, m \in Nat : step[<<i, m>>] = m + rows[i] + 1
    OBVIOUS
  <2>2. QED
    BY <1>1, <2>1 DEF Steps
<1>3. FoldLeft(LAMBDA n, row : n + row + 1, 0, rows) = (CHOOSE f : Eqn(f))[1..len]
  <2>1. FoldLeft(LAMBDA n, row : n + row + 1, 0, rows) =
          (CHOOSE f : f = [s \in SUBSET (DOMAIN rows) |->
             IF s = {} THEN 0 ELSE f[s \ {Max(s)}] + rows[Max(s)] + 1])[DOMAIN rows]
    BY Zenon DEF FoldLeft, MapThenFoldSet
  <2>2. DOMAIN rows = 1..len
    OBVIOUS
  <2>3. QED
    BY <2>1, <2>2, Zenon
<1> HIDE DEF step, len
<1>4. \E f : Eqn(f)
  <2>1. PICK f : Solves(f, len, Nat, 0, step)
    BY <1>1, <1>2, InTurnExists
  <2>2. \A s \in SUBSET (1..len) : f[s] = IF s = {} THEN 0 ELSE f[s \ {Max(s)}] + rows[Max(s)] + 1
    BY <1>2, <2>1 DEF Solves
  <2>3. Eqn(f)
    BY <2>1, <2>2 DEF Solves
  <2>4. QED
    BY <2>3
<1>5. PICK f : Eqn(f) /\ FoldLeft(LAMBDA n, row : n + row + 1, 0, rows) = f[1..len]
  BY <1>3, <1>4
<1>6. Folds(f, len, Nat, 0, step)
  <2>1. ASSUME NEW s \in SUBSET (1..len), s # {}, f[s \ {Max(s)}] \in Nat
        PROVE  f[s] = step[<<Max(s), f[s \ {Max(s)}]>>]
    <3>1. Max(s) \in 1..len
      BY <1>1, <2>1, MaxIsOne
    <3>2. QED
      BY <1>2, <1>5, <2>1, <3>1
  <2>2. QED
    BY <1>5, <2>1 DEF Folds
<1>7. f[1..len] \in Nat
  <2>1. \A i \in 0..len : f[1..i] \in Nat
    BY <1>1, <1>2, <1>6, FoldInTurn, Zenon
  <2>2. QED
    BY <1>1, <2>1
<1>8. QED
  BY <1>5, <1>7

----------------------------------------------------------------------------
(* A post, as it is recorded; a discussion with a post of somebody else    *)
(* than the assistant.                                                     *)
PostType == [role : {"REQUESTER", "STAFF", "ASSISTANT"}, size : Sizes, files : SUBSET Files]
Thread == {t \in Seq(PostType) : \E i \in 1..Len(t) : t[i].role # "ASSISTANT"}

LEMMA SizesAre ==
  /\ \A n \in Sizes : n \in Nat
  /\ \A n \in Titles : n \in 5..200
  /\ \A n \in Typos : n \in Nat
  BY DEF Sizes, Titles, Typos

LEMMA Cuts ==
  ASSUME NEW size \in Nat
  PROVE  /\ Min2(size, 200) \in Nat /\ Min2(size, 200) <= 200
         /\ Excerpt(size, 500) \in Nat /\ Excerpt(size, 500) <= 500
         /\ Excerpt(size, 650) \in Nat /\ Excerpt(size, 650) <= 650
         /\ Excerpt(size, 900) \in Nat /\ Excerpt(size, 900) <= 900
         /\ Excerpt(size, 1200) \in Nat /\ Excerpt(size, 1200) <= 1200
  BY DEF Min2, Excerpt

LEMMA PostsAre ==
  ASSUME NEW t \in Thread
  PROVE  /\ Len(t) \in Nat /\ DOMAIN t = 1..Len(t)
         /\ \A i \in 1..Len(t) : t[i] \in PostType /\ t[i].size \in Nat
         /\ \E i \in 1..Len(t) : t[i].role # "ASSISTANT"
<1>1. /\ Len(t) \in Nat /\ DOMAIN t = 1..Len(t) /\ \A i \in 1..Len(t) : t[i] \in PostType
      /\ \E i \in 1..Len(t) : t[i].role # "ASSISTANT"
  <2> HIDE DEF PostType
  <2>1. QED
    BY DEF Thread
<1>2. \A p \in PostType : p.size \in Nat
  BY SizesAre DEF PostType
<1>3. QED
  BY <1>1, <1>2

LEMMA QuotedFits ==
  ASSUME NEW t \in Thread, NEW i \in 1..Len(t)
  PROVE  Excerpt(t[i].size, 1200) \in Nat /\ Excerpt(t[i].size, 1200) <= 1200
<1>1. PICK n \in Nat : n = t[i].size
  BY PostsAre
<1>2. Excerpt(n, 1200) \in Nat /\ Excerpt(n, 1200) <= 1200
  BY <1>1 DEF Excerpt, Min2
<1>3. QED
  BY <1>1, <1>2

(* What a prompt quotes is within the limit of its part.                   *)
LEMMA OriginalFits == ASSUME NEW t \in Thread PROVE Original(t) \in Nat /\ Original(t) <= 1200
<1> DEFINE those == {i \in DOMAIN t : Requester(t[i])}
           first == IF those # {} THEN Min(those) ELSE 1
<1>1. those \in SUBSET (1..Len(t)) /\ 1 \in 1..Len(t) /\ Len(t) \in Nat
  BY PostsAre
<1>2. those # {} => Min(those) \in those
  <2> HIDE DEF those
  <2>1. those \in SUBSET Nat
    BY <1>1
  <2>2. QED
    BY <2>1, MinIsOne
<1>3. first \in 1..Len(t)
  <2> HIDE DEF those
  <2>1. QED
    BY <1>1, <1>2
<1>4. Original(t) = Excerpt(t[first].size, 1200)
  BY Zenon DEF Original
<1> HIDE DEF first
<1>5. QED
  BY <1>3, <1>4, QuotedFits

LEMMA LatestFits == ASSUME NEW t \in Thread PROVE LatestHuman(t) \in Nat /\ LatestHuman(t) <= 1200
<1> DEFINE those == {i \in DOMAIN t : t[i].role # "ASSISTANT"}
           last == Max(those)
<1>1. those \in SUBSET (1..Len(t)) /\ those # {} /\ Len(t) \in Nat
  BY PostsAre
<1>2. last \in 1..Len(t)
  <2> HIDE DEF those
  <2>1. QED
    BY <1>1, MaxIsOne
<1>3. LatestHuman(t) = Excerpt(t[last].size, 1200)
  BY Zenon DEF LatestHuman
<1> HIDE DEF last
<1>4. QED
  BY <1>2, <1>3, QuotedFits

LEMMA PreviousFits == ASSUME NEW t \in Thread PROVE Previous(t) \in Nat /\ Previous(t) <= 1200
<1> DEFINE those == {i \in DOMAIN t : t[i].role = "ASSISTANT"}
           last == Max(those)
<1>1. those \in SUBSET (1..Len(t)) /\ Len(t) \in Nat
  BY PostsAre
<1>2. those # {} => last \in 1..Len(t)
  <2> HIDE DEF those
  <2>1. QED
    BY <1>1, MaxIsOne
<1>3. Previous(t) = IF those = {} THEN 0 ELSE Excerpt(t[last].size, 1200)
  BY Zenon DEF Previous
<1> HIDE DEF last, those
<1>4. those # {} => Excerpt(t[last].size, 1200) \in Nat /\ Excerpt(t[last].size, 1200) <= 1200
  BY <1>2, QuotedFits
<1>5. QED
  BY <1>3, <1>4

LEMMA RowsFit == ASSUME NEW t \in Thread PROVE Rows(t) \in Seq(Nat)
<1> DEFINE from == IF Len(t) > 12 THEN Len(t) - 11 ELSE 1
           recent == SubSeq(t, from, Len(t))
<1>1. recent \in Seq(PostType)
  <2>1. from \in 1..Len(t)+1 /\ Len(t) \in Nat
    BY PostsAre
  <2> HIDE DEF from
  <2>2. QED
    BY <2>1 DEF Thread
<1>2. Rows(t) = [i \in DOMAIN recent |-> RowFrame + Excerpt(recent[i].size, 900)]
  BY Zenon DEF Rows
<1> HIDE DEF recent
<1>3. \A i \in 1..Len(recent) : Excerpt(recent[i].size, 900) \in Nat
  <2>1. \A i \in 1..Len(recent) : recent[i] \in PostType
    BY <1>1
  <2>2. \A p \in PostType : Excerpt(p.size, 900) \in Nat
    <3>1. \A p \in PostType : p.size \in Nat
      BY SizesAre DEF PostType
    <3>2. QED
      BY <3>1, Cuts
  <2>3. QED
    BY <2>1, <2>2
<1>4. \A i \in 1..Len(recent) : RowFrame + Excerpt(recent[i].size, 900) \in Nat
  BY <1>3 DEF RowFrame
<1>5. DOMAIN recent = 1..Len(recent) /\ Len(recent) \in Nat
  BY <1>1
<1>6. QED
  BY <1>2, <1>4, <1>5

(* What the short prompt keeps whatever happens.                           *)
LEMMA EssentialsFit ==
  ASSUME NEW t \in Thread, NEW typos \in Typos, title \in Titles
  PROVE  Essentials(t, typos) \in 492..(IF typos = 0 THEN 2892 ELSE 3392)
<1> DEFINE o == Excerpt(Original(t), 650)
           h == Excerpt(LatestHuman(t), 900)
           q == Excerpt(Previous(t), 650)
           p == IF Previous(t) = 0 THEN None ELSE q
           n == Min2(title, 200)
           y == Excerpt(TypoSection(typos), 500)
<1>1. Essentials(t, typos) = ShortFrame + ShortInstruction + n + o + h + y + p
  BY Zenon DEF Essentials
<1>2. /\ o \in Nat /\ o <= 650 /\ h \in Nat /\ h <= 900
      /\ q \in Nat /\ q <= 650
  BY OriginalFits, LatestFits, PreviousFits, Cuts
<1>3. n \in Nat /\ n <= 200
  <2>1. title \in Nat
    BY SizesAre
  <2>2. QED
    BY <2>1, Cuts
<1>4. y \in Nat /\ y <= (IF typos = 0 THEN 0 ELSE 500)
  <2>1. TypoSection(typos) \in Nat /\ (typos = 0 => TypoSection(typos) = 0)
    BY SizesAre DEF TypoSection, TypoFrame
  <2>2. y \in Nat /\ y <= 500
    BY <2>1, Cuts
  <2>3. typos = 0 => y = 0
    BY <2>1 DEF Excerpt, Min2
  <2> HIDE DEF y
  <2>4. QED
    BY <2>2, <2>3
<1> HIDE DEF q
<1>5. p \in Nat /\ p <= 650
  BY <1>2 DEF None
<1> HIDE DEF o, h, p, n, y
<1>6. QED
  BY <1>1, <1>2, <1>3, <1>4, <1>5 DEF ShortFrame, ShortInstruction

LEMMA FullIsNumber ==
  ASSUME NEW t \in Thread, NEW typos \in Typos, title \in Titles
  PROVE  FullSize(t, typos) \in Nat /\ FullSize(t, typos) >= 3
<1> DEFINE o == Original(t)
           h == LatestHuman(t)
           p == IF Previous(t) = 0 THEN None ELSE Previous(t)
           y == TypoSection(typos)
           sum == FoldLeft(LAMBDA n, row : n + row + 1, 0, Rows(t))
<1>1. FullSize(t, typos) = Frame + title + o + h + y + p + sum - 1
  BY Zenon DEF FullSize
<1>2. o \in Nat /\ h \in Nat /\ p \in Nat
  BY OriginalFits, LatestFits, PreviousFits DEF None
<1>3. sum \in Nat
  BY RowsFit, RowsAddUp
<1>4. y \in Nat /\ title \in Nat
  BY SizesAre DEF TypoSection, TypoFrame
<1> HIDE DEF o, h, p, y, sum
<1>5. QED
  BY <1>1, <1>2, <1>3, <1>4 DEF Frame

(* A question is never longer than its limit, and there is one when the    *)
(* limit leaves room for the essentials.                                   *)
LEMMA QuestionFits ==
  ASSUME NEW t \in Thread, NEW typos \in Typos, title \in Titles, NEW limit \in Nat
  PROVE  /\ ConversationQuestion(t, typos, limit) \in {0} \cup 3..limit
         /\ limit >= (IF typos = 0 THEN 2892 ELSE 3392)
              => ConversationQuestion(t, typos, limit) # 0
<1> DEFINE kernel == Essentials(t, typos)
           rows == [i \in DOMAIN Rows(t) |-> Excerpt(Rows(t)[i], 500)]
<1>1. kernel \in 492..(IF typos = 0 THEN 2892 ELSE 3392)
  BY EssentialsFit
<1>2. rows \in Seq(Nat)
  <2>1. Rows(t) \in Seq(Nat)
    BY RowsFit
  <2>2. DOMAIN Rows(t) = 1..Len(Rows(t)) /\ Len(Rows(t)) \in Nat /\ \A i \in 1..Len(Rows(t)) : Rows(t)[i] \in Nat
    BY <2>1
  <2>3. ASSUME NEW i \in 1..Len(Rows(t)) PROVE Excerpt(Rows(t)[i], 500) \in Nat
    <3>1. PICK n \in Nat : n = Rows(t)[i]
      BY <2>2
    <3>2. Excerpt(n, 500) \in Nat
      BY <3>1 DEF Excerpt, Min2
    <3>3. QED
      BY <3>1, <3>2
  <2>4. QED
    BY <2>2, <2>3
<1>3. ConversationQuestion(t, typos, limit) =
         IF FullSize(t, typos) <= limit THEN FullSize(t, typos)
         ELSE IF kernel > limit THEN 0 ELSE kernel + Fill(rows, limit - kernel)
  BY Zenon DEF ConversationQuestion
<1>4. PICK full \in Nat : full = FullSize(t, typos) /\ full >= 3
  BY FullIsNumber
<1> HIDE DEF rows, kernel
<1>5. CASE full <= limit
  BY <1>3, <1>4, <1>5
<1>6. CASE ~(full <= limit) /\ kernel > limit
  BY <1>1, <1>3, <1>4, <1>6
<1>7. CASE ~(full <= limit) /\ ~(kernel > limit)
  <2>1. limit - kernel \in Nat
    BY <1>1, <1>7
  <2>2. PICK fill \in 0..(limit - kernel) : fill = Fill(rows, limit - kernel)
    BY <1>2, <2>1, FillFits
  <2>3. ConversationQuestion(t, typos, limit) = kernel + fill
    BY <1>3, <1>4, <1>7, <2>2
  <2>4. QED
    BY <1>1, <1>7, <2>3
<1>8. QED
  BY <1>5, <1>6, <1>7

----------------------------------------------------------------------------
(* What is added to a question when its answer is rewritten.               *)
Named == [s \in SUBSET (1..8) |->
            LET Of(f) == IF f \in s THEN FaultName[f] ELSE 0
            IN Of(1) + Of(2) + Of(3) + Of(4) + Of(5) + Of(6) + Of(7) + Of(8)]

LEMMA NamesAre ==
  /\ FaultName[1] = 22 /\ FaultName[2] = 24 /\ FaultName[3] = 21 /\ FaultName[4] = 20
  /\ FaultName[5] = 24 /\ FaultName[6] = 18 /\ FaultName[7] = 19 /\ FaultName[8] = 26
  /\ \A f \in 1..8 : f \in {1, 2, 3, 4, 5, 6, 7, 8}
  /\ \A f \in {1, 2, 3, 4, 5, 6, 7, 8} : f \in 1..8 /\ FaultName[f] \in Nat
  BY DEF FaultName

LEMMA NamedGrows ==
  ASSUME NEW s \in SUBSET (1..8)
  PROVE  /\ Named[s] \in Nat /\ Named[s] <= 174
         /\ \A f \in s : Named[s \ {f}] \in Nat /\ Named[s] >= Named[s \ {f}] + FaultName[f]
<1> DEFINE Of(u, f) == IF f \in u THEN FaultName[f] ELSE 0
           Eight == {1, 2, 3, 4, 5, 6, 7, 8}
<1>1. \A u \in SUBSET (1..8) : Named[u] =
         Of(u, 1) + Of(u, 2) + Of(u, 3) + Of(u, 4) + Of(u, 5) + Of(u, 6) + Of(u, 7) + Of(u, 8)
  BY DEF Named
<1>2. \A u \in SUBSET (1..8) : \A f \in Eight : Of(u, f) \in Nat /\ Of(u, f) <= FaultName[f]
  BY NamesAre
<1>3. \A u \in SUBSET (1..8) : Named[u] \in Nat /\ Named[u] <= 174
  <2> HIDE DEF Of
  <2>1. QED
    BY <1>1, <1>2, NamesAre
<1>4. ASSUME NEW f \in s PROVE Named[s] >= Named[s \ {f}] + FaultName[f]
  <2>1. f \in Eight /\ s \ {f} \in SUBSET (1..8)
    BY NamesAre
  <2>2. \A e \in Eight : Of(s, e) = Of(s \ {f}, e) + (IF e = f THEN FaultName[f] ELSE 0)
    BY <2>1, NamesAre
  <2>3. \A e \in Eight : Of(s \ {f}, e) \in Nat
    BY <1>2, <2>1
  <2>4. FaultName[f] \in Nat
    BY <2>1, NamesAre
  <2> HIDE DEF Of
  <2>5. QED
    BY <1>1, <2>1, <2>2, <2>3, <2>4
<1>5. \A f \in s : s \ {f} \in SUBSET (1..8)
  OBVIOUS
<1>6. QED
  BY <1>3, <1>4, <1>5

LEMMA SuffixFits ==
  ASSUME NEW faults \in Faults
  PROVE  /\ RewriteSuffix(faults) \in 381..1026
         /\ faults = {} => RewriteSuffix(faults) = 381
<1> DEFINE Name(f) == FaultName[f]
           v == [f \in faults |-> FaultName[f]]
           Eqn(f) == f = [s \in SUBSET faults |->
                            IF s = {} THEN 0
                            ELSE FaultName[CHOOSE x \in s : TRUE] + f[s \ {CHOOSE x \in s : TRUE}]]
<1>1. faults \in SUBSET (1..8)
  BY DEF Faults
<1>2. IsFiniteSet(faults) /\ Cardinality(faults) \in Nat /\ Cardinality(faults) <= 8
      /\ (faults # {} => Cardinality(faults) >= 1)
  <2>1. IsFiniteSet(1..8) /\ Cardinality(1..8) = 8
    <3>1. PICK a \in Int, b \in Int : a = 1 /\ b = 8
      OBVIOUS
    <3>2. IsFiniteSet(a..b) /\ Cardinality(a..b) = IF a > b THEN 0 ELSE b - a + 1
      BY FS_Interval, Zenon
    <3>3. ~(a > b) /\ b - a + 1 = 8
      BY <3>1
    <3>4. Cardinality(a..b) = 8
      BY <3>2, <3>3
    <3>5. QED
      BY <3>1, <3>2, <3>4
  <2>2. IsFiniteSet(faults) /\ Cardinality(faults) <= 8
    BY <1>1, <2>1, FS_Subset
  <2>3. Cardinality(faults) \in Nat /\ (Cardinality(faults) = 0 <=> faults = {})
    BY <2>2, FS_CardinalityType, FS_EmptySet
  <2>4. QED
    BY <2>2, <2>3
<1>3. v \in [faults -> Nat]
  BY <1>1, NamesAre
<1>4. MapThenSumSet(LAMBDA f : FaultName[f], faults) = (CHOOSE f : Eqn(f))[faults]
  BY Zenon DEF MapThenSumSet, MapThenFoldSet
<1>5. ASSUME NEW f PROVE SumOver(f, faults, v) <=> Eqn(f)
  <2>1. \A s \in SUBSET faults : s # {} => v[CHOOSE x \in s : TRUE] = FaultName[CHOOSE x \in s : TRUE]
    OBVIOUS
  <2> HIDE DEF v
  <2>2. [s \in SUBSET faults |->
           IF s = {} THEN 0 ELSE v[CHOOSE x \in s : TRUE] + f[s \ {CHOOSE x \in s : TRUE}]]
        = [s \in SUBSET faults |->
           IF s = {} THEN 0 ELSE FaultName[CHOOSE x \in s : TRUE] + f[s \ {CHOOSE x \in s : TRUE}]]
    BY <2>1
  <2>3. QED
    BY <2>2 DEF SumOver
<1>6. PICK total : SumOver(total, faults, v) /\ MapThenSumSet(LAMBDA f : FaultName[f], faults) = total[faults]
  <2>1. \E f : Eqn(f)
    <3> HIDE DEF Eqn, v
    <3>1. QED
      BY <1>2, <1>3, <1>5, SumExists
  <2> HIDE DEF Eqn
  <2>2. Eqn(CHOOSE f : Eqn(f))
    BY <2>1
  <2>3. QED
    BY <1>4, <1>5, <2>2
<1>7. total[faults] \in Nat /\ total[faults] <= 174
  <2> DEFINE g == [s \in SUBSET faults |-> Named[s]]
  <2>1. g[{}] = 0
    BY <1>1 DEF Named
  <2>2. ASSUME NEW s \in SUBSET faults, NEW x \in s
        PROVE  g[s \ {x}] \in Nat /\ g[s] \in Nat /\ g[s] >= g[s \ {x}] + v[x]
    <3>1. s \in SUBSET (1..8) /\ g[s] = Named[s] /\ g[s \ {x}] = Named[s \ {x}] /\ v[x] = FaultName[x]
      BY <1>1
    <3> HIDE DEF g, v
    <3>2. QED
      BY <3>1, NamedGrows
  <2>3. g[faults] = Named[faults]
    OBVIOUS
  <2> HIDE DEF g, v, Eqn
  <2>4. total[faults] \in Nat /\ total[faults] <= g[faults]
    BY <1>2, <1>3, <1>6, <2>1, <2>2, SumIsBounded
  <2>5. g[faults] \in Nat /\ g[faults] <= 174
    BY <1>1, <2>3, NamedGrows
  <2>6. QED
    BY <2>4, <2>5
<1>8. RewriteSuffix(faults) =
         IF faults = {} THEN RewriteFrame
         ELSE FaultFrame + MapThenSumSet(LAMBDA f : FaultName[f], faults) + 2 * (Cardinality(faults) - 1)
  BY Zenon DEF RewriteSuffix
<1> HIDE DEF v, Eqn
<1>9. QED
  BY <1>2, <1>6, <1>7, <1>8 DEF RewriteFrame, FaultFrame

(* So does a rewrite, unless it names faults and typing errors.            *)
LEMMA RewriteFits ==
  ASSUME NEW t \in Thread, NEW typos \in Typos, NEW faults \in Faults, title \in Titles
  PROVE  /\ RewriteQuestion(t, typos, faults) \in {0} \cup 3..QuestionLimit
         /\ typos = 0 \/ faults = {} => RewriteQuestion(t, typos, faults) # 0
<1> DEFINE more == RewriteSuffix(faults)
           base == ConversationQuestion(t, typos, QuestionLimit - more)
<1>1. more \in 381..1026 /\ (faults = {} => more = 381)
  BY SuffixFits
<1> HIDE DEF more
<1>2. PICK room \in Nat : room = QuestionLimit - more /\ QuestionLimit = room + more
  BY <1>1 DEF QuestionLimit
<1>3. typos = 0 \/ faults = {} => room >= (IF typos = 0 THEN 2892 ELSE 3392)
  BY <1>1, <1>2 DEF QuestionLimit
<1>4. /\ base \in {0} \cup 3..room
      /\ room >= (IF typos = 0 THEN 2892 ELSE 3392) => base # 0
  BY <1>2, QuestionFits
<1>5. RewriteQuestion(t, typos, faults) = IF base = 0 THEN 0 ELSE base + more
  BY Zenon DEF RewriteQuestion, more
<1> HIDE DEF base
<1>6. base # 0 => base + more \in 3..QuestionLimit /\ base + more # 0
  BY <1>1, <1>2, <1>4
<1>7. QED
  BY <1>3, <1>4, <1>5, <1>6

(* Whatever is put together for the knowledge base, fits.                  *)
LEMMA RestIsSequence ==
  ASSUME NEW T, NEW s \in Seq(T), NEW i \in 1..Len(s)
  PROVE  RemoveAt(s, i) \in Seq(T)
<1>1. SubSeq(s, 1, i-1) \in Seq(T) /\ SubSeq(s, i+1, Len(s)) \in Seq(T)
  OBVIOUS
<1>2. QED
  BY <1>1 DEF RemoveAt

Discussion == Seq(PostType)

LEMMA DiscussionIs ==
  ASSUME NEW t \in Discussion
  PROVE  /\ Len(t) \in Nat /\ DOMAIN t = 1..Len(t)
         /\ \A i \in 1..Len(t) : t[i] \in PostType /\ t[i].size \in Nat /\ t[i].files \subseteq Files
<1>1. Len(t) \in Nat /\ DOMAIN t = 1..Len(t) /\ \A i \in 1..Len(t) : t[i] \in PostType
  <2> HIDE DEF PostType
  <2>1. QED
    BY DEF Discussion
<1>2. \A p \in PostType : p.size \in Nat /\ p.files \subseteq Files
  BY SizesAre DEF PostType
<1>3. QED
  BY <1>1, <1>2

LEMMA KnowledgeFits ==
  ASSUME NEW t \in Discussion, NEW selected \in 1..Len(t), NEW goal \in {0, Goal}, title \in Titles
  PROVE  KnowledgeQuestion(t, selected, goal) \in 3..KnowledgeLimit
<1> DEFINE rows == [i \in DOMAIN t |-> RowFrame + Min2(t[i].size, 900)]
           others == RemoveAt(rows, selected)
           kernel == KnowledgeFrame + title + goal + RowFrame + Min2(t[selected].size, 1600)
<1>1. Len(t) \in Nat /\ DOMAIN t = 1..Len(t) /\ \A i \in 1..Len(t) : t[i].size \in Nat
  BY DiscussionIs
<1>2. rows \in Seq(Nat) /\ Len(rows) = Len(t)
  <2>1. ASSUME NEW i \in 1..Len(t) PROVE RowFrame + Min2(t[i].size, 900) \in Nat
    <3>1. PICK n \in Nat : n = t[i].size
      BY <1>1
    <3>2. RowFrame + Min2(n, 900) \in Nat
      BY DEF Min2, RowFrame
    <3>3. QED
      BY <3>1, <3>2
  <2>2. QED
    BY <1>1, <2>1
<1>3. others \in Seq(Nat)
  <2> HIDE DEF rows
  <2>1. QED
    BY <1>2, RestIsSequence
<1>4. kernel \in 516..2414
  <2>1. PICK n \in Nat : n = t[selected].size
    BY <1>1
  <2>2. PICK cut \in 0..1600 : cut = Min2(n, 1600)
    BY DEF Min2
  <2>3. title \in 5..200 /\ Goal = 103 /\ KnowledgeFrame = 467 /\ RowFrame = 44
    BY SizesAre DEF Goal, KnowledgeFrame, RowFrame
  <2>4. KnowledgeFrame + title + goal + RowFrame + cut \in 516..2414
    BY <2>3
  <2>5. kernel = KnowledgeFrame + title + goal + RowFrame + cut
    BY <2>1, <2>2
  <2> HIDE DEF kernel
  <2>6. QED
    BY <2>4, <2>5
<1>5. KnowledgeQuestion(t, selected, goal) =
         IF kernel > KnowledgeLimit THEN 0 ELSE kernel + Fill(others, KnowledgeLimit - kernel)
  BY Zenon DEF KnowledgeQuestion
<1> HIDE DEF others, kernel
<1>6. PICK fill \in 0..(16000 - kernel) : fill = Fill(others, KnowledgeLimit - kernel)
  <2>1. KnowledgeLimit - kernel \in Nat /\ KnowledgeLimit - kernel = 16000 - kernel
    BY <1>4 DEF KnowledgeLimit
  <2>2. QED
    BY <1>3, <2>1, FillFits
<1>7. KnowledgeQuestion(t, selected, goal) = kernel + fill
  BY <1>4, <1>5, <1>6 DEF KnowledgeLimit
<1>8. kernel + fill \in 3..KnowledgeLimit
  BY <1>4 DEF KnowledgeLimit
<1>9. QED
  BY <1>7, <1>8

----------------------------------------------------------------------------
(* A finite set in a sequence: every element once.                         *)
LEMMA InASequence ==
  ASSUME NEW S, IsFiniteSet(S)
  PROVE  /\ SetToSeq(S) \in Seq(S) /\ Len(SetToSeq(S)) = Cardinality(S) /\ Cardinality(S) \in Nat
         /\ \A x \in S : \E i \in 1..Cardinality(S) : SetToSeq(S)[i] = x
<1> DEFINE n == Cardinality(S)
           Once(f) == f \in [1..n -> S] /\ IsInjective(f)
<1>1. n \in Nat /\ ExistsBijection(1..n, S)
  BY FS_CardinalityType
<1> HIDE DEF n
<1>2. \E f \in [1..n -> S] : IsInjective(f)
  BY <1>1 DEF ExistsBijection, Bijection, Injection, IsInjective
<1>3. SetToSeq(S) = CHOOSE f \in [1..n -> S] : IsInjective(f)
  BY Zenon DEF SetToSeq, n
<1>4. PICK f \in [1..n -> S] : f = SetToSeq(S) /\ IsInjective(f)
  BY <1>2, <1>3
<1>5. f \in Injection(1..n, S)
  BY <1>4 DEF Injection, IsInjective
<1>6. f \in Surjection(1..n, S)
  <2>1. IsFiniteSet(1..n) /\ Cardinality(1..n) = n
    <3>1. 1 \in Int /\ n \in Int
      BY <1>1
    <3>2. IsFiniteSet(1..n) /\ Cardinality(1..n) = IF 1 > n THEN 0 ELSE n - 1 + 1
      BY <3>1, FS_Interval, Zenon
    <3>3. QED
      BY <1>1, <3>2
  <2>2. Cardinality(S) = n
    BY DEF n
  <2>3. QED
    BY <1>5, <2>1, <2>2, FS_Injection
<1>7. \A x \in S : \E i \in 1..n : f[i] = x
  BY <1>6 DEF Surjection
<1>8. f \in Seq(S) /\ Len(f) = n
  BY <1>1
<1>9. QED
  BY <1>1, <1>4, <1>7, <1>8 DEF n

(* Attachments in the order in which they are taken, no more than there is *)
(* room for.                                                               *)
Chosen == {q \in Seq(Files) : Len(q) <= MaxFiles}

LEMMA ChosenAre ==
  ASSUME NEW q \in Chosen
  PROVE  /\ Len(q) \in 0..MaxFiles /\ q \in Seq(Files) /\ DOMAIN q = 1..Len(q)
         /\ \A i \in 1..Len(q) : q[i] \in Files
         /\ Range(q) \subseteq Files /\ Range(q) = {q[i] : i \in 1..Len(q)}
         /\ IsFiniteSet(Range(q)) /\ Cardinality(Range(q)) <= MaxFiles
<1>1. /\ Len(q) \in 0..MaxFiles /\ q \in Seq(Files) /\ DOMAIN q = 1..Len(q) /\ MaxFiles \in Nat
      /\ \A i \in 1..Len(q) : q[i] \in Files
  BY DraftAssumption DEF Chosen
<1>2. Range(q) \subseteq Files /\ Range(q) = {q[i] : i \in 1..Len(q)}
  BY <1>1 DEF Range
<1>3. IsFiniteSet(Range(q)) /\ Cardinality(Range(q)) \in Nat
  BY <1>2, DraftAssumption, FS_Subset, FS_CardinalityType
<1>4. ExistsSurjection(1..Len(q), Range(q))
  <2>1. q \in [1..Len(q) -> Range(q)]
    BY <1>1 DEF Range
  <2>2. q \in Surjection(1..Len(q), Range(q))
    BY <1>2, <2>1 DEF Surjection
  <2>3. QED
    BY <2>2 DEF ExistsSurjection
<1>5. Cardinality(Range(q)) <= Len(q)
  BY <1>1, <1>4, FS_SurjCardinalityBound
<1>6. QED
  BY <1>1, <1>2, <1>3, <1>5

(* One post's attachments are added to those that were found: these stay,  *)
(* and the others are taken while there is room.                           *)
Taking(found, files) ==
    LET new == SetToSeq((files \cap kept) \ Range(found))
    IN found \o SubSeq(new, 1, Min2(Len(new), MaxFiles - Len(found)))

LEMMA TakingKeeps ==
  ASSUME NEW found \in Chosen, NEW files \in SUBSET Files, kept \subseteq Files
  PROVE  Taking(found, files) \in Chosen /\ Range(found) \subseteq Range(Taking(found, files))
<1> DEFINE rest == (files \cap kept) \ Range(found)
           new == SetToSeq(rest)
           room == Min2(Len(new), MaxFiles - Len(found))
           more == SubSeq(new, 1, room)
<1>1. new \in Seq(Files) /\ Len(new) \in Nat
  <2>1. IsFiniteSet(rest) /\ rest \subseteq Files
    BY DraftAssumption, FS_Subset
  <2> HIDE DEF rest
  <2>2. new \in Seq(rest)
    BY <2>1, InASequence
  <2>3. QED
    BY <2>1, <2>2
<1> HIDE DEF new
<1>2. /\ Len(found) \in 0..MaxFiles /\ MaxFiles \in Nat /\ found \in Seq(Files)
      /\ Range(found) = {found[i] : i \in 1..Len(found)}
  BY ChosenAre, DraftAssumption
<1>3. room \in 0..Len(new) /\ room <= MaxFiles - Len(found)
  BY <1>1, <1>2 DEF Min2
<1> HIDE DEF room
<1>4. more \in Seq(Files) /\ Len(more) = room
  BY <1>1, <1>3
<1>5. Taking(found, files) = found \o more
  BY Zenon DEF Taking, new, room
<1> HIDE DEF more
<1>6. /\ found \o more \in Seq(Files) /\ Len(found \o more) = Len(found) + room
      /\ \A i \in 1..Len(found) : i \in 1..Len(found \o more) /\ (found \o more)[i] = found[i]
  BY <1>2, <1>3, <1>4
<1>7. found \o more \in Chosen
  BY <1>2, <1>3, <1>6 DEF Chosen
<1>8. Range(found) \subseteq Range(found \o more)
  <2>1. Range(found \o more) = {(found \o more)[i] : i \in 1..Len(found \o more)}
    BY <1>7, ChosenAre
  <2>2. QED
    BY <1>2, <1>6, <2>1
<1>9. QED
  BY <1>5, <1>7, <1>8

(* The first post finds all of its attachments that are kept.              *)
LEMMA TakingFirst ==
  ASSUME NEW files \in SUBSET kept, kept \subseteq Files, Cardinality(files) <= MaxFiles
  PROVE  files \subseteq Range(Taking(<<>>, files))
<1> DEFINE new == SetToSeq(files)
<1>1. Taking(<<>>, files) = <<>> \o SubSeq(new, 1, Min2(Len(new), MaxFiles - Len(<<>>)))
  <2>1. (files \cap kept) \ Range(<<>>) = files
    BY DEF Range
  <2>2. QED
    BY <2>1 DEF Taking
<1>2. /\ new \in Seq(files) /\ Len(new) = Cardinality(files) /\ Cardinality(files) \in Nat
      /\ \A x \in files : \E i \in 1..Cardinality(files) : new[i] = x
  <2>1. IsFiniteSet(files)
    BY DraftAssumption, FS_Subset
  <2>2. QED
    BY <2>1, InASequence
<1> HIDE DEF new
<1>3. Min2(Len(new), MaxFiles - Len(<<>>)) = Len(new)
  BY <1>2, DraftAssumption DEF Min2
<1>4. <<>> \o SubSeq(new, 1, Len(new)) = new
  BY <1>2
<1>5. DOMAIN new = 1..Cardinality(files)
  BY <1>2
<1>6. QED
  BY <1>1, <1>2, <1>3, <1>4, <1>5 DEF Range

----------------------------------------------------------------------------
(* The posts of a question, the one asked about first.                     *)
LEMMA NewestFirstIs ==
  ASSUME NEW t \in Discussion, NEW i \in 1..Len(t)
  PROVE  LET rows == NewestFirst(Append(RemoveAt(t, i), t[i]))
         IN /\ DOMAIN rows = 1..Len(t) /\ rows[1] = t[i]
            /\ \A j \in 1..Len(t) : rows[j] \in PostType
<1> DEFINE turns == RemoveAt(t, i)
           all == Append(turns, t[i])
<1>1. Len(t) \in Nat /\ t[i] \in PostType /\ t \in Seq(PostType)
  BY DiscussionIs DEF Discussion
<1>2. turns \in Seq(PostType) /\ Len(turns) = Len(t) - 1
  <2>1. /\ SubSeq(t, 1, i-1) \in Seq(PostType) /\ Len(SubSeq(t, 1, i-1)) = i - 1
        /\ SubSeq(t, i+1, Len(t)) \in Seq(PostType) /\ Len(SubSeq(t, i+1, Len(t))) = Len(t) - i
    BY <1>1
  <2>2. PICK a \in Seq(PostType), b \in Seq(PostType) : turns = a \o b /\ Len(a) = i - 1 /\ Len(b) = Len(t) - i
    BY <2>1, Zenon DEF RemoveAt
  <2> HIDE DEF turns, PostType
  <2>3. a \o b \in Seq(PostType) /\ Len(a \o b) = Len(a) + Len(b)
    OBVIOUS
  <2>4. Len(a) + Len(b) = Len(t) - 1
    BY <1>1, <2>2
  <2>5. QED
    BY <2>2, <2>3, <2>4
<1> HIDE DEF turns
<1>3. all \in Seq(PostType) /\ Len(all) = Len(t) /\ all[Len(t)] = t[i]
  BY <1>1, <1>2
<1> HIDE DEF all
<1>4. /\ DOMAIN Reverse(all) = 1..Len(t)
      /\ \A j \in 1..Len(t) : Reverse(all)[j] = all[(Len(t) - j) + 1]
  BY <1>3 DEF Reverse
<1>5. \A j \in 1..Len(t) : Reverse(all)[j] \in PostType
  <2>1. \A j \in 1..Len(t) : (Len(t) - j) + 1 \in 1..Len(t)
    BY <1>1
  <2>2. \A j \in 1..Len(t) : all[j] \in PostType
    BY <1>3
  <2>3. QED
    BY <1>4, <2>1, <2>2
<1>6. Reverse(all)[1] = t[i]
  <2>1. 1 \in 1..Len(t) /\ (Len(t) - 1) + 1 = Len(t)
    BY <1>1
  <2>2. QED
    BY <1>3, <1>4, <2>1
<1>7. NewestFirst(all) = Reverse(all)
  BY DEF NewestFirst
<1>8. QED
  BY <1>4, <1>5, <1>6, <1>7, Zenon DEF all, turns

(* The attachments that are listed: so many that are kept, and those of    *)
(* the post that is answered, if they are.                                 *)
LEMMA AvailableAre ==
  ASSUME NEW t \in Discussion, NEW i \in 1..Len(t), kept \subseteq Files
  PROVE  /\ Available(t, i) \subseteq Files /\ Cardinality(Available(t, i)) <= MaxFiles
         /\ t[i].files \subseteq kept /\ Cardinality(t[i].files) <= MaxFiles
              => t[i].files \subseteq Available(t, i)
<1> DEFINE n == Len(t)
           rows == NewestFirst(Append(RemoveAt(t, i), t[i]))
           Add(found, p) ==
              LET new == SetToSeq((p.files \cap kept) \ Range(found))
              IN found \o SubSeq(new, 1, Min2(Len(new), MaxFiles - Len(found)))
           step == [p \in (1..n) \X Chosen |-> Taking(p[2], rows[p[1]].files)]
           Eqn(f) == f = [s \in SUBSET (1..n) |->
                            IF s = {} THEN <<>> ELSE Add(f[s \ {Max(s)}], rows[Max(s)])]
<1>1. DOMAIN rows = 1..n /\ rows[1] = t[i] /\ n \in Nat /\ n >= 1
      /\ \A j \in 1..n : rows[j].files \in SUBSET Files
  <2>1. \A p \in PostType : p.files \in SUBSET Files
    BY DEF PostType
  <2>2. DOMAIN rows = 1..n /\ rows[1] = t[i] /\ \A j \in 1..n : rows[j] \in PostType
    BY NewestFirstIs
  <2>3. n \in Nat /\ n >= 1
    BY DiscussionIs
  <2> HIDE DEF rows, n
  <2>4. QED
    BY <2>1, <2>2, <2>3
<1>2. Available(t, i) = Range((CHOOSE f : Eqn(f))[1..n])
  <2>1. Available(t, i) = Range(FoldLeft(Add, <<>>, rows))
    BY Zenon DEF Available
  <2> HIDE DEF rows
  <2>2. FoldLeft(Add, <<>>, rows) =
          (CHOOSE f : f = [s \in SUBSET (DOMAIN rows) |->
             IF s = {} THEN <<>> ELSE Add(f[s \ {Max(s)}], rows[Max(s)])])[DOMAIN rows]
    <3> HIDE DEF Add
    <3>1. QED
      BY Zenon DEF FoldLeft, MapThenFoldSet
  <2> HIDE DEF Add, n
  <2>3. QED
    BY <1>1, <2>1, <2>2, Zenon
<1> HIDE DEF rows, n
<1>3. \A found, p : Add(found, p) = Taking(found, p.files)
  BY Zenon DEF Taking
<1> HIDE DEF Add
<1>4. <<>> \in Chosen
  BY DraftAssumption DEF Chosen
<1>5. Steps(step, 1..n, Chosen)
      /\ \A j \in 1..n, q \in Chosen : step[<<j, q>>] = Taking(q, rows[j].files)
  <2>1. \A j \in 1..n, q \in Chosen : step[<<j, q>>] = Taking(q, rows[j].files)
    OBVIOUS
  <2> HIDE DEF step
  <2>2. \A j \in 1..n, q \in Chosen : Taking(q, rows[j].files) \in Chosen
    BY <1>1, TakingKeeps
  <2>3. QED
    BY <2>1, <2>2 DEF Steps
<1> HIDE DEF step
<1>6. \E f : Eqn(f)
  <2>1. PICK f : Solves(f, n, Chosen, <<>>, step)
    BY <1>1, <1>4, <1>5, InTurnExists
  <2>2. \A s \in SUBSET (1..n) : f[s] = IF s = {} THEN <<>> ELSE Add(f[s \ {Max(s)}], rows[Max(s)])
    BY <1>3, <1>5, <2>1 DEF Solves
  <2>3. Eqn(f)
    BY <2>1, <2>2 DEF Solves
  <2>4. QED
    BY <2>3
<1>7. PICK f : Eqn(f) /\ Available(t, i) = Range(f[1..n])
  <2> HIDE DEF Eqn
  <2>1. QED
    BY <1>2, <1>6
<1>8. Folds(f, n, Chosen, <<>>, step)
  <2>1. ASSUME NEW s \in SUBSET (1..n), s # {}, f[s \ {Max(s)}] \in Chosen
        PROVE  f[s] = step[<<Max(s), f[s \ {Max(s)}]>>]
    <3>1. Max(s) \in 1..n
      BY <1>1, <2>1, MaxIsOne
    <3>2. f[s] = Add(f[s \ {Max(s)}], rows[Max(s)])
      BY <1>7, <2>1
    <3>3. QED
      BY <1>3, <1>5, <2>1, <3>1, <3>2
  <2>2. f[{}] = <<>>
    BY <1>7
  <2>3. QED
    BY <2>1, <2>2 DEF Folds
<1> HIDE DEF Eqn
<1>9. /\ \A j \in 0..n : f[1..j] \in Chosen
      /\ \A j \in 1..n : f[1..j] = step[<<j, f[1..j-1]>>]
  <2>1. n \in Nat
    BY <1>1
  <2>2. Steps(step, 1..n, Chosen)
    BY <1>5
  <2>3. \A j \in 0..n : f[1..j] \in Chosen
    BY <2>1, <2>2, <1>4, <1>8, FoldInTurn, Zenon
  <2>4. \A j \in 1..n : f[1..j] = step[<<j, f[1..j-1]>>]
    BY <2>1, <2>2, <1>4, <1>8, FoldInTurn, SMTT(30)
  <2>5. QED
    BY <2>3, <2>4
<1>10. f[1..n] \in Chosen
  BY <1>1, <1>9
<1>11. Available(t, i) \subseteq Files /\ Cardinality(Available(t, i)) <= MaxFiles
  BY <1>7, <1>10, ChosenAre
<1>12. \A j \in 1..n : f[1..j-1] \in Chosen /\ f[1..j] = Taking(f[1..j-1], rows[j].files)
  <2>1. ASSUME NEW j \in 1..n PROVE f[1..j-1] \in Chosen /\ f[1..j] = Taking(f[1..j-1], rows[j].files)
    <3>1. j - 1 \in 0..n
      BY <1>1
    <3>2. f[1..j-1] \in Chosen /\ f[1..j] = step[<<j, f[1..j-1]>>]
      BY <1>9, <3>1
    <3>3. QED
      BY <1>5, <3>2
  <2>2. QED
    BY <2>1
<1>13. ASSUME t[i].files \subseteq kept, Cardinality(t[i].files) <= MaxFiles
       PROVE  t[i].files \subseteq Available(t, i)
  <2> DEFINE Found == {j \in 0..n : j = 0 \/ t[i].files \subseteq Range(f[1..j])}
  <2>1. 0 \in Found
    BY <1>1
  <2>2. ASSUME NEW j \in 0..n-1, j \in Found PROVE j + 1 \in Found
    <3>1. j + 1 \in 1..n /\ (j + 1) - 1 = j
      BY <1>1
    <3>2. f[1..j] \in Chosen /\ f[1..j+1] = Taking(f[1..j], rows[j+1].files)
      BY <1>12, <3>1
    <3>3. t[i].files \subseteq Range(f[1..j+1])
      <4>1. CASE j = 0
        <5>1. 1..j = {} /\ f[{}] = <<>> /\ rows[j+1] = t[i]
          BY <1>1, <1>8, <4>1 DEF Folds
        <5>2. f[1..j+1] = Taking(<<>>, t[i].files)
          BY <3>2, <5>1
        <5>3. QED
          BY <1>13, <5>2, TakingFirst
      <4>2. CASE j # 0
        <5>1. t[i].files \subseteq Range(f[1..j])
          BY <2>2, <4>2
        <5>2. rows[j+1].files \in SUBSET Files
          BY <1>1, <3>1
        <5>3. Range(f[1..j]) \subseteq Range(f[1..j+1])
          BY <3>2, <5>2, TakingKeeps
        <5>4. QED
          BY <5>1, <5>3
      <4>3. QED
        BY <4>1, <4>2
    <3>4. QED
      BY <3>1, <3>3
  <2> HIDE DEF Found
  <2>3. n \in Found
    <3>1. 0..n \subseteq Found
      BY <1>1, <2>1, <2>2, UpToInduction
    <3>2. QED
      BY <1>1, <3>1
  <2>4. QED
    BY <1>1, <1>7, <2>3 DEF Found
<1>14. QED
  BY <1>11, <1>13

----------------------------------------------------------------------------
(* What holds at every step of an answer: it is for a post of the          *)
(* requester, made from the posts up to one that is not before it, and     *)
(* what is sent with the question has the post's attachments, as long as   *)
(* they are kept.                                                          *)
Stages == {"idle", "pending", "checked", "asked", "asked_again", "answered", "answered_again"}
            \cup Refused
Drafting == [stage : Stages, of : Nat, seen : Nat, typos : Typos, files : SUBSET Files,
             faults : Faults]
BeingAnswered == {"checked", "asked", "asked_again", "answered", "answered_again"}
Sent == {"asked", "asked_again", "answered", "answered_again"}

DraftTypes ==
    /\ title \in Titles /\ posts \in Discussion /\ kept \subseteq Files
    /\ drafting \in Drafting /\ drafting.of <= Len(posts) /\ drafting.seen <= Len(posts)

DraftOf ==
    /\ drafting.of = 0 <=> drafting.stage = "idle"
    /\ drafting.of > 0 => /\ posts[drafting.of].role = "REQUESTER"
                          /\ Cardinality(posts[drafting.of].files) <= MaxFiles
    /\ drafting.stage \in BeingAnswered => drafting.of <= drafting.seen

SentWith ==
    drafting.stage \in Sent =>
        /\ Cardinality(drafting.files) <= MaxFiles
        /\ posts[drafting.of].files \subseteq kept => posts[drafting.of].files \subseteq drafting.files

DraftInv == DraftTypes /\ DraftOf /\ SentWith /\ QuestionsCanBeAsked

(* A post of the discussion and the posts that are read.                   *)
LEMMA ReadIs ==
  ASSUME DraftInv, drafting.stage \in BeingAnswered
  PROVE  /\ Read \in Thread /\ Read \in Discussion
         /\ drafting.of \in 1..Len(Read) /\ Read[drafting.of] = posts[drafting.of]
         /\ drafting.of \in 1..Len(posts)
<1>1. /\ drafting.of \in Nat /\ drafting.seen \in Nat /\ drafting.seen <= Len(posts)
      /\ drafting.of <= drafting.seen /\ drafting.of # 0
      /\ posts[drafting.of].role = "REQUESTER"
  <2>1. drafting.of \in Nat /\ drafting.seen \in Nat /\ drafting.seen <= Len(posts)
    BY DEF DraftInv, DraftTypes, Drafting
  <2>2. drafting.of <= drafting.seen /\ drafting.of # 0
    BY DEF DraftInv, DraftOf, BeingAnswered
  <2>3. posts[drafting.of].role = "REQUESTER"
    BY <2>1, <2>2 DEF DraftInv, DraftOf
  <2>4. QED
    BY <2>1, <2>2, <2>3
<1>2. posts \in Seq(PostType) /\ Len(posts) \in Nat
  <2>1. posts \in Seq(PostType)
    BY DEF DraftInv, DraftTypes, Discussion
  <2>2. QED
    BY <2>1
<1>3. PICK n \in Nat, m \in Nat : n = drafting.of /\ m = drafting.seen
  BY <1>1
<1>4. /\ SubSeq(posts, 1, m) \in Seq(PostType) /\ Len(SubSeq(posts, 1, m)) = m
      /\ SubSeq(posts, 1, m)[n] = posts[n]
  BY <1>1, <1>2, <1>3
<1>5. Read = SubSeq(posts, 1, m)
  BY <1>3 DEF Read
<1>6. n \in 1..m /\ n \in 1..Len(posts) /\ posts[n].role # "ASSISTANT"
  BY <1>1, <1>2, <1>3
<1>7. Read \in Thread
  BY <1>4, <1>5, <1>6 DEF Thread
<1>8. QED
  BY <1>3, <1>4, <1>5, <1>6, <1>7 DEF Discussion

(* A post more changes nothing of those before.                            *)
LEMMA PostAdded ==
  ASSUME posts \in Discussion, NEW p \in PostType, posts' = Append(posts, p)
  PROVE  /\ posts' \in Discussion /\ Len(posts) \in Nat /\ Len(posts') = Len(posts) + 1
         /\ posts'[Len(posts)+1] = p /\ \A i \in 1..Len(posts) : posts'[i] = posts[i]
<1>1. posts \in Seq(PostType) /\ Len(posts) \in Nat
  BY DEF Discussion
<1> HIDE DEF PostType
<1>2. QED
  BY <1>1 DEF Discussion

(* What a step that leaves the request alone keeps.                        *)
LEMMA RequestKept ==
  ASSUME DraftInv, title' = title, drafting' = drafting, kept' \subseteq kept, posts' \in Discussion,
         Len(posts') >= Len(posts), \A i \in 1..Len(posts) : posts'[i] = posts[i]
  PROVE  DraftInv'
<1>1. Len(posts) \in Nat /\ Len(posts') \in Nat /\ drafting.of \in Nat /\ drafting.of <= Len(posts)
      /\ drafting.seen \in Nat /\ drafting.seen <= Len(posts)
  <2>1. drafting.of \in Nat /\ drafting.of <= Len(posts) /\ drafting.seen \in Nat
        /\ drafting.seen <= Len(posts) /\ posts \in Discussion
    BY DEF DraftInv, DraftTypes, Drafting
  <2>2. Len(posts) \in Nat
    BY <2>1, DiscussionIs
  <2>3. Len(posts') \in Nat
    BY DiscussionIs
  <2>4. QED
    BY <2>1, <2>2, <2>3
<1>2. DraftTypes'
  BY <1>1 DEF DraftInv, DraftTypes
<1>3. drafting.of # 0 => posts'[drafting.of] = posts[drafting.of]
  BY <1>1
<1>4. DraftOf'
  BY <1>1, <1>3 DEF DraftInv, DraftOf
<1>5. drafting.stage \in Sent => drafting.of # 0
  BY DEF DraftInv, DraftOf, Sent
<1>6. SentWith'
  BY <1>3, <1>5 DEF DraftInv, SentWith
<1>7. drafting.stage = "invalid" => drafting.of # 0
  BY DEF DraftInv, DraftOf
<1>8. QuestionsCanBeAsked'
  BY <1>3, <1>7 DEF DraftInv, QuestionsCanBeAsked
<1>9. QED
  BY <1>2, <1>4, <1>6, <1>8 DEF DraftInv

(* A question is put, or cannot be.                                        *)
LEMMA Putting ==
  ASSUME NEW request, NEW limit, NEW next, PutQuestion(request, limit, next)
  PROVE  drafting' = [next EXCEPT !.stage =
            IF request.size = 0 THEN "overflow"
            ELSE IF ~IsRequest(request, limit) THEN "invalid" ELSE next.stage]
  BY DEF PutQuestion

LEMMA DraftStarts == ASSUME DraftInit PROVE DraftInv
<1>1. posts \in Discussion /\ Len(posts) = 0
  BY DEF DraftInit, Discussion
<1>2. drafting \in Drafting /\ drafting.stage = "idle" /\ drafting.of = 0 /\ drafting.seen = 0
  BY DEF DraftInit, NoDraft, Drafting, Stages, Typos, Faults
<1>3. QED
  BY <1>1, <1>2 DEF DraftInit, DraftInv, DraftTypes, DraftOf, SentWith, QuestionsCanBeAsked, BeingAnswered, Sent

LEMMA NoDraftIs == NoDraft \in Drafting /\ NoDraft.stage = "idle" /\ NoDraft.of = 0 /\ NoDraft.seen = 0
  BY DEF NoDraft, Drafting, Stages, Typos, Faults

LEMMA PostByRequesterKeeps ==
  ASSUME DraftInv, NEW size \in Sizes, NEW files \in SUBSET Files, PostByRequester(size, files)
  PROVE  DraftInv'
<1> DEFINE p == [role |-> "REQUESTER", size |-> size, files |-> files]
<1>1. p \in PostType /\ p.role = "REQUESTER" /\ p.files = files
  BY DEF PostType
<1>2. /\ posts' = Append(posts, p) /\ drafting = NoDraft /\ Cardinality(files) <= MaxFiles
      /\ drafting' = [NoDraft EXCEPT !.stage = "pending", !.of = Len(posts) + 1]
      /\ title' = title /\ kept' = kept
  BY DEF PostByRequester
<1>3. title \in Titles /\ posts \in Discussion /\ kept \subseteq Files
  BY DEF DraftInv, DraftTypes
<1> HIDE DEF p
<1>4. /\ posts' \in Discussion /\ Len(posts) \in Nat /\ Len(posts') = Len(posts) + 1
      /\ posts'[Len(posts)+1] = p
  BY <1>1, <1>2, <1>3, PostAdded
<1>5. /\ drafting' \in Drafting /\ drafting'.stage = "pending" /\ drafting'.of = Len(posts) + 1
      /\ drafting'.seen = 0
  <2>1. Len(posts) + 1 \in Nat /\ "pending" \in Stages
    BY <1>4 DEF Stages
  <2>2. QED
    BY <1>2, <2>1, NoDraftIs DEF Drafting
<1>6. DraftTypes'
  BY <1>2, <1>3, <1>4, <1>5 DEF DraftTypes
<1>7. DraftOf'
  BY <1>1, <1>2, <1>4, <1>5 DEF DraftOf, BeingAnswered
<1>8. SentWith' /\ QuestionsCanBeAsked'
  BY <1>5 DEF SentWith, QuestionsCanBeAsked, Sent
<1>9. QED
  BY <1>6, <1>7, <1>8 DEF DraftInv

LEMMA PostByStaffKeeps ==
  ASSUME DraftInv, NEW size \in Sizes, PostByStaff(size)
  PROVE  DraftInv'
<1> DEFINE p == [role |-> "STAFF", size |-> size, files |-> {}]
<1>1. p \in PostType
  BY DEF PostType
<1>2. posts' = Append(posts, p) /\ title' = title /\ kept' = kept /\ drafting' = drafting
  BY DEF PostByStaff
<1>3. posts \in Discussion
  BY DEF DraftInv, DraftTypes
<1> HIDE DEF p
<1>4. /\ posts' \in Discussion /\ Len(posts') >= Len(posts)
      /\ \A i \in 1..Len(posts) : posts'[i] = posts[i]
  BY <1>1, <1>2, <1>3, PostAdded
<1>5. QED
  BY <1>2, <1>4, RequestKept

LEMMA ExpireFileKeeps ==
  ASSUME DraftInv, NEW f \in Files, ExpireFile(f)
  PROVE  DraftInv'
<1>1. title' = title /\ posts' = posts /\ drafting' = drafting /\ kept' \subseteq kept
  BY DEF ExpireFile
<1>2. posts' \in Discussion /\ Len(posts') >= Len(posts)
  <2>1. posts \in Discussion
    BY DEF DraftInv, DraftTypes
  <2>2. Len(posts) \in Nat
    BY <2>1, DiscussionIs
  <2>3. QED
    BY <1>1, <2>1, <2>2
<1>3. QED
  BY <1>1, <1>2, RequestKept

(* The discussion as it is, and a request that moves on for its post.      *)
LEMMA RequestMoves ==
  ASSUME DraftInv, UNCHANGED <<title, posts, kept>>, drafting' \in Drafting,
         drafting'.of = drafting.of, drafting'.seen <= Len(posts), drafting.stage # "idle",
         drafting'.stage # "idle", drafting'.stage \in BeingAnswered => drafting.of <= drafting'.seen,
         drafting'.stage \in Sent =>
            /\ Cardinality(drafting'.files) <= MaxFiles
            /\ posts[drafting.of].files \subseteq kept => posts[drafting.of].files \subseteq drafting'.files,
         drafting'.stage = "overflow" => drafting'.typos > 0 /\ drafting'.faults # {},
         drafting'.stage = "invalid" => ~(posts[drafting.of].files \subseteq kept)
  PROVE  DraftInv'
<1>1. DraftTypes'
  BY DEF DraftInv, DraftTypes
<1>2. DraftOf'
  BY DEF DraftInv, DraftOf
<1>3. SentWith'
  BY DEF SentWith
<1>4. QuestionsCanBeAsked'
  BY DEF QuestionsCanBeAsked
<1>5. QED
  BY <1>1, <1>2, <1>3, <1>4 DEF DraftInv

LEMMA TakePostKeeps == ASSUME DraftInv, TakePost PROVE DraftInv'
<1>1. drafting.stage = "pending" /\ UNCHANGED <<title, posts, kept>>
  BY DEF TakePost
<1>2. drafting \in Drafting /\ drafting.of <= Len(posts) /\ drafting.seen <= Len(posts) /\ posts \in Discussion
  BY DEF DraftInv, DraftTypes
<1>3. Len(posts) \in Nat
  BY <1>2, DiscussionIs
<1>4. CASE drafting' = [drafting EXCEPT !.stage = "checked", !.seen = Len(posts)]
  <2>1. /\ drafting' \in Drafting /\ drafting'.of = drafting.of /\ drafting'.seen = Len(posts)
        /\ drafting'.stage = "checked"
    BY <1>2, <1>3, <1>4 DEF Drafting, Stages
  <2>2. QED
    BY <1>1, <1>2, <1>3, <2>1, RequestMoves DEF Sent
<1>5. CASE drafting' = [drafting EXCEPT !.stage = "missing"]
  <2>1. /\ drafting' \in Drafting /\ drafting'.of = drafting.of /\ drafting'.seen = drafting.seen
        /\ drafting'.stage = "missing"
    BY <1>2, <1>5 DEF Drafting, Stages, Refused
  <2>2. QED
    BY <1>1, <1>2, <2>1, RequestMoves DEF Sent, BeingAnswered
<1>6. QED
  BY <1>4, <1>5 DEF TakePost, TurnDown

LEMMA AskAssistantKeeps ==
  ASSUME DraftInv, NEW typos \in Typos, AskAssistant(typos)
  PROVE  DraftInv'
<1> DEFINE files == Available(Read, drafting.of)
           asking == [drafting EXCEPT !.stage = "asked", !.typos = typos, !.files = files]
           request == [size |-> ConversationQuestion(Read, typos, QuestionLimit), files |-> files,
                       required |-> posts[drafting.of].files]
<1>1. /\ drafting.stage = "checked" /\ UNCHANGED <<title, posts, kept>>
      /\ drafting' = [asking EXCEPT !.stage = "answered"] \/ PutQuestion(request, QuestionLimit, asking)
  BY Zenon DEF AskAssistant
<1>2. /\ drafting \in Drafting /\ title \in Titles /\ posts \in Discussion /\ kept \subseteq Files
      /\ drafting.seen <= Len(posts)
  BY DEF DraftInv, DraftTypes
<1>3. /\ Read \in Thread /\ Read \in Discussion /\ drafting.of \in 1..Len(Read)
      /\ Read[drafting.of] = posts[drafting.of]
  BY <1>1, ReadIs DEF BeingAnswered
<1>4. drafting.of # 0 /\ drafting.of <= drafting.seen /\ Cardinality(posts[drafting.of].files) <= MaxFiles
  <2>1. drafting.of # 0 /\ drafting.of \in Nat
    BY <1>1, <1>2 DEF DraftInv, DraftOf, Drafting
  <2>2. QED
    BY <1>1, <2>1 DEF DraftInv, DraftOf, BeingAnswered
<1>5. /\ files \subseteq Files /\ Cardinality(files) <= MaxFiles
      /\ posts[drafting.of].files \subseteq kept => posts[drafting.of].files \subseteq files
  BY <1>2, <1>3, <1>4, AvailableAre
<1>6. PICK size \in 3..QuestionLimit : size = ConversationQuestion(Read, typos, QuestionLimit) /\ size # 0
  <2>1. PICK t \in Thread, limit \in Nat :
           t = Read /\ limit = QuestionLimit /\ limit >= (IF typos = 0 THEN 2892 ELSE 3392)
    BY <1>3 DEF QuestionLimit
  <2>2. /\ ConversationQuestion(t, typos, limit) \in {0} \cup 3..limit
        /\ ConversationQuestion(t, typos, limit) # 0
    BY <1>2, <2>1, QuestionFits
  <2>3. QED
    BY <2>1, <2>2
<1> HIDE DEF files
<1>7. asking \in Drafting /\ asking.of = drafting.of /\ asking.seen = drafting.seen
      /\ asking.files = files /\ asking.stage = "asked"
  <2>1. "asked" \in Stages
    BY DEF Stages
  <2>2. QED
    BY <1>2, <1>5, <2>1 DEF Drafting
<1> HIDE DEF asking
<1>8. CASE drafting' = [asking EXCEPT !.stage = "answered"]
  <2>1. /\ drafting' \in Drafting /\ drafting'.of = drafting.of /\ drafting'.seen = drafting.seen
        /\ drafting'.files = files /\ drafting'.stage = "answered"
    BY <1>7, <1>8 DEF Drafting, Stages
  <2>2. QED
    BY <1>1, <1>2, <1>4, <1>5, <2>1, RequestMoves
<1>9. CASE PutQuestion(request, QuestionLimit, asking)
  <2>1. request.size = size /\ request.files = files /\ request.required = posts[drafting.of].files
    BY <1>6
  <2> HIDE DEF request
  <2>2. request.size # 0 /\ (IsRequest(request, QuestionLimit) <=> posts[drafting.of].files \subseteq files)
    <3>1. request.size \in 3..QuestionLimit /\ request.size # 0
      BY <1>6, <2>1
    <3>2. QED
      BY <1>5, <2>1, <3>1 DEF IsRequest
  <2>3. drafting' = [asking EXCEPT !.stage = IF IsRequest(request, QuestionLimit) THEN "asked" ELSE "invalid"]
    BY <1>7, <1>9, <2>2, Putting
  <2>4. /\ drafting' \in Drafting /\ drafting'.of = drafting.of /\ drafting'.seen = drafting.seen
        /\ drafting'.files = files /\ drafting'.stage \in {"asked", "invalid"}
        /\ drafting'.stage = "invalid" => ~(posts[drafting.of].files \subseteq files)
    BY <1>7, <2>2, <2>3 DEF Drafting, Stages, Refused
  <2>5. QED
    BY <1>1, <1>2, <1>4, <1>5, <2>4, RequestMoves DEF Sent
<1>10. QED
  BY <1>1, <1>8, <1>9

LEMMA AssistantRepliesKeeps == ASSUME DraftInv, AssistantReplies PROVE DraftInv'
<1>1. /\ drafting.stage \in {"asked", "asked_again"} /\ UNCHANGED <<title, posts, kept>>
      /\ \E next \in {"failed", "answered", "answered_again"} : drafting' = [drafting EXCEPT !.stage = next]
  BY DEF AssistantReplies, TurnDown
<1>2. drafting \in Drafting /\ drafting.seen <= Len(posts) /\ drafting.of <= drafting.seen
  BY <1>1 DEF DraftInv, DraftTypes, DraftOf, BeingAnswered
<1>3. /\ drafting' \in Drafting /\ drafting'.of = drafting.of /\ drafting'.seen = drafting.seen
      /\ drafting'.files = drafting.files /\ drafting'.stage \in {"failed", "answered", "answered_again"}
  BY <1>1, <1>2 DEF Drafting, Stages, Refused
<1>4. /\ Cardinality(drafting.files) <= MaxFiles
      /\ posts[drafting.of].files \subseteq kept => posts[drafting.of].files \subseteq drafting.files
  BY <1>1 DEF DraftInv, SentWith, Sent
<1>5. QED
  BY <1>1, <1>2, <1>3, <1>4, RequestMoves

LEMMA StoreDraftKeeps ==
  ASSUME DraftInv, NEW size \in Sizes, StoreDraft(size)
  PROVE  DraftInv'
<1> DEFINE p == [role |-> "ASSISTANT", size |-> size, files |-> {}]
<1>1. p \in PostType
  BY DEF PostType
<1>2. posts' = Append(posts, p) /\ title' = title /\ kept' = kept /\ drafting' = NoDraft
  BY DEF StoreDraft
<1>3. posts \in Discussion /\ title \in Titles /\ kept \subseteq Files
  BY DEF DraftInv, DraftTypes
<1> HIDE DEF p
<1>4. posts' \in Discussion /\ Len(posts') \in Nat
  <2>1. posts' \in Discussion
    BY <1>1, <1>2, <1>3, PostAdded
  <2>2. QED
    BY <2>1, DiscussionIs
<1>5. DraftTypes'
  BY <1>2, <1>3, <1>4, NoDraftIs DEF DraftTypes
<1>6. DraftOf' /\ SentWith' /\ QuestionsCanBeAsked'
  BY <1>2, NoDraftIs DEF DraftOf, SentWith, QuestionsCanBeAsked, BeingAnswered, Sent
<1>7. QED
  BY <1>5, <1>6 DEF DraftInv

LEMMA RewriteKeeps ==
  ASSUME DraftInv, NEW faults \in Faults, Rewrite(faults)
  PROVE  DraftInv'
<1> DEFINE request == [size |-> RewriteQuestion(Read, drafting.typos, faults), files |-> drafting.files,
                       required |-> posts[drafting.of].files]
           asking == [drafting EXCEPT !.stage = "asked_again", !.faults = faults]
<1>1. /\ drafting.stage = "answered" /\ UNCHANGED <<title, posts, kept>>
      /\ PutQuestion(request, QuestionLimit, asking)
  BY Zenon DEF Rewrite
<1>2. /\ drafting \in Drafting /\ title \in Titles /\ drafting.seen <= Len(posts)
      /\ drafting.of <= drafting.seen
  BY <1>1 DEF DraftInv, DraftTypes, DraftOf, BeingAnswered
<1>3. Read \in Thread
  BY <1>1, ReadIs DEF BeingAnswered
<1>4. /\ Cardinality(drafting.files) <= MaxFiles
      /\ posts[drafting.of].files \subseteq kept => posts[drafting.of].files \subseteq drafting.files
  BY <1>1 DEF DraftInv, SentWith, Sent
<1>5. drafting.typos \in Typos /\ drafting.typos \in Nat
  BY <1>2, SizesAre DEF Drafting
<1>6. PICK size : /\ size = RewriteQuestion(Read, drafting.typos, faults)
                  /\ size \in {0} \cup 3..QuestionLimit
                  /\ drafting.typos = 0 \/ faults = {} => size # 0
  <2>1. PICK t \in Thread, typos \in Typos : t = Read /\ typos = drafting.typos
    BY <1>3, <1>5
  <2>2. /\ RewriteQuestion(t, typos, faults) \in {0} \cup 3..QuestionLimit
        /\ typos = 0 \/ faults = {} => RewriteQuestion(t, typos, faults) # 0
    BY <1>2, RewriteFits
  <2>3. QED
    BY <2>1, <2>2
<1>7. asking \in Drafting /\ asking.of = drafting.of /\ asking.seen = drafting.seen
      /\ asking.files = drafting.files /\ asking.stage = "asked_again"
      /\ asking.typos = drafting.typos /\ asking.faults = faults
  BY <1>2 DEF Drafting, Stages
<1>8. request.size = size /\ request.files = drafting.files /\ request.required = posts[drafting.of].files
  BY <1>6
<1> HIDE DEF asking, request
<1>9. drafting' = [asking EXCEPT !.stage =
            IF size = 0 THEN "overflow"
            ELSE IF ~IsRequest(request, QuestionLimit) THEN "invalid" ELSE "asked_again"]
  BY <1>1, <1>7, <1>8, Putting
<1>10. size # 0 => (IsRequest(request, QuestionLimit) <=> posts[drafting.of].files \subseteq drafting.files)
  <2>1. size # 0 => request.size \in 3..QuestionLimit
    BY <1>6, <1>8
  <2>2. QED
    BY <1>4, <1>8, <2>1 DEF IsRequest
<1>11. /\ drafting' \in Drafting /\ drafting'.of = drafting.of /\ drafting'.seen = drafting.seen
       /\ drafting'.files = drafting.files /\ drafting'.typos = drafting.typos /\ drafting'.faults = faults
       /\ drafting'.stage \in {"overflow", "invalid", "asked_again"}
       /\ drafting'.stage = "overflow" => size = 0
       /\ drafting'.stage = "invalid" => ~(posts[drafting.of].files \subseteq drafting.files)
  BY <1>7, <1>9, <1>10 DEF Drafting, Stages, Refused
<1>12. drafting'.stage = "overflow" => drafting'.typos > 0 /\ drafting'.faults # {}
  BY <1>5, <1>6, <1>11
<1>13. QED
  BY <1>1, <1>2, <1>4, <1>11, <1>12, RequestMoves DEF Sent

LEMMA RejectDraftKeeps == ASSUME DraftInv, RejectDraft PROVE DraftInv'
<1>1. /\ drafting.stage = "answered_again" /\ UNCHANGED <<title, posts, kept>>
      /\ drafting' = [drafting EXCEPT !.stage = "rejected"]
  BY DEF RejectDraft, TurnDown
<1>2. drafting \in Drafting /\ drafting.seen <= Len(posts)
  BY DEF DraftInv, DraftTypes
<1>3. /\ drafting' \in Drafting /\ drafting'.of = drafting.of /\ drafting'.seen = drafting.seen
      /\ drafting'.stage = "rejected"
  BY <1>1, <1>2 DEF Drafting, Stages, Refused
<1>4. QED
  BY <1>1, <1>2, <1>3, RequestMoves DEF Sent, BeingAnswered

LEMMA DeliverAgainKeeps == ASSUME DraftInv, DeliverAgain PROVE DraftInv'
<1>1. drafting.stage \in Refused /\ drafting.stage # "idle" /\ UNCHANGED <<title, posts, kept>>
  BY DEF DeliverAgain, Refused
<1>2. drafting \in Drafting /\ drafting.of # 0 /\ posts \in Discussion
  BY <1>1 DEF DraftInv, DraftTypes, DraftOf
<1>3. drafting' = [NoDraft EXCEPT !.stage = "pending", !.of = drafting.of]
  BY <1>2 DEF DeliverAgain
<1>4. /\ drafting' \in Drafting /\ drafting'.of = drafting.of /\ drafting'.seen = 0
      /\ drafting'.stage = "pending"
  BY <1>2, <1>3, NoDraftIs DEF Drafting, Stages
<1>5. drafting'.seen <= Len(posts)
  <2>1. Len(posts) \in Nat
    BY <1>2, DiscussionIs
  <2>2. QED
    BY <1>4, <2>1
<1>6. QED
  BY <1>1, <1>4, <1>5, RequestMoves DEF Sent, BeingAnswered

LEMMA AskKnowledgeKeeps ==
  ASSUME DraftInv, NEW selected \in DOMAIN posts, NEW goal \in {0, Goal}, AskKnowledge(selected, goal)
  PROVE  DraftInv'
<1> DEFINE files == Available(posts, Len(posts))
           request == [size |-> KnowledgeQuestion(posts, selected, goal), files |-> files, required |-> {}]
<1>1. drafting = NoDraft /\ UNCHANGED <<title, posts, kept>> /\ PutQuestion(request, KnowledgeLimit, NoDraft)
  BY Zenon DEF AskKnowledge
<1>2. title \in Titles /\ posts \in Discussion /\ kept \subseteq Files
  BY DEF DraftInv, DraftTypes
<1>3. selected \in 1..Len(posts) /\ Len(posts) \in 1..Len(posts)
  <2>1. Len(posts) \in Nat /\ DOMAIN posts = 1..Len(posts)
    BY <1>2, DiscussionIs
  <2>2. QED
    BY <2>1
<1>4. KnowledgeQuestion(posts, selected, goal) \in 3..KnowledgeLimit
  <2>1. PICK t \in Discussion : t = posts
    BY <1>2
  <2>2. KnowledgeQuestion(t, selected, goal) \in 3..KnowledgeLimit
    BY <1>2, <1>3, <2>1, KnowledgeFits
  <2>3. QED
    BY <2>1, <2>2
<1>5. files \subseteq Files /\ Cardinality(files) <= MaxFiles
  BY <1>2, <1>3, AvailableAre
<1>6. request.size \in 3..KnowledgeLimit /\ request.files = files /\ request.required = {}
  BY <1>4
<1> HIDE DEF request, files
<1>7. request.size # 0 /\ IsRequest(request, KnowledgeLimit)
  <2>1. request.size # 0
    BY <1>6
  <2>2. QED
    BY <1>5, <1>6, <2>1 DEF IsRequest
<1>8. drafting' = [NoDraft EXCEPT !.stage = NoDraft.stage]
  BY <1>1, <1>7, Putting
<1>9. drafting' = drafting
  BY <1>1, <1>8 DEF NoDraft
<1>10. Len(posts') >= Len(posts)
  <2>1. Len(posts) \in Nat
    BY <1>2, DiscussionIs
  <2>2. QED
    BY <1>1, <2>1
<1>11. QED
  BY <1>1, <1>2, <1>9, <1>10, RequestKept

LEMMA DraftStep == ASSUME DraftInv, [DraftNext]_draftVars PROVE DraftInv'
<1>1. CASE \E size \in Sizes : PostByStaff(size)
  BY <1>1, PostByStaffKeeps
<1>2. CASE \E size \in Sizes, files \in SUBSET Files : PostByRequester(size, files)
  BY <1>2, PostByRequesterKeeps
<1>3. CASE \E f \in Files : ExpireFile(f)
  BY <1>3, ExpireFileKeeps
<1>4. CASE TakePost
  BY <1>4, TakePostKeeps
<1>5. CASE \E typos \in Typos : AskAssistant(typos)
  BY <1>5, AskAssistantKeeps
<1>6. CASE AssistantReplies
  BY <1>6, AssistantRepliesKeeps
<1>7. CASE \E size \in Sizes : StoreDraft(size)
  BY <1>7, StoreDraftKeeps
<1>8. CASE \E faults \in Faults : Rewrite(faults)
  BY <1>8, RewriteKeeps
<1>9. CASE RejectDraft
  BY <1>9, RejectDraftKeeps
<1>10. CASE DeliverAgain
  BY <1>10, DeliverAgainKeeps
<1>11. CASE \E selected \in DOMAIN posts, goal \in {0, Goal} : AskKnowledge(selected, goal)
  BY <1>11, AskKnowledgeKeeps
<1>12. CASE UNCHANGED draftVars
  <2>1. UNCHANGED <<title, posts, kept, drafting>>
    BY <1>12 DEF draftVars
  <2>2. posts \in Discussion
    BY DEF DraftInv, DraftTypes
  <2>3. Len(posts) \in Nat
    BY <2>2, DiscussionIs
  <2>4. Len(posts') >= Len(posts)
    BY <2>1, <2>3
  <2>5. QED
    BY <2>1, <2>2, <2>4, RequestKept
<1>13. QED
  BY <1>1, <1>2, <1>3, <1>4, <1>5, <1>6, <1>7, <1>8, <1>9, <1>10, <1>11, <1>12 DEF DraftNext

----------------------------------------------------------------------------
(* The theorems.                                                           *)

(* Wherever the handler of a post is, it is at a post of the requester     *)
(* that is not after those it read, and what it sends are so many          *)
(* attachments as a request takes, those of the post among them as long as *)
(* they are kept; and a question could be put.                             *)
THEOREM DraftInvariant == DraftSpec => []DraftInv
<1>1. DraftInit => DraftInv
  BY DraftStarts
<1>2. DraftInv /\ [DraftNext]_draftVars => DraftInv'
  BY DraftStep
<1>3. QED
  BY <1>1, <1>2, PTL DEF DraftSpec

(* A question can always be put, but for the exceptions the property       *)
(* names: for any number of posts, any attachments, and any number of them *)
(* that one request takes (build_conversation_question and the prompts     *)
(* made from it, app/conversation.py).                                     *)
THEOREM QuestionsAsked == DraftSpec => []QuestionsCanBeAsked
<1>1. DraftInv => QuestionsCanBeAsked
  BY DEF DraftInv
<1>2. QED
  BY <1>1, DraftInvariant, PTL

(* The invariant has the types.                                            *)
LEMMA DraftTypesAre == ASSUME DraftInv PROVE DraftTypeOK
<1>1. /\ title \in Titles /\ posts \in Discussion /\ kept \subseteq Files /\ drafting \in Drafting
      /\ drafting.of <= Len(posts) /\ drafting.seen <= Len(posts)
  BY DEF DraftInv, DraftTypes
<1>2. /\ DOMAIN posts = 1..Len(posts) /\ Len(posts) \in Nat
      /\ \A i \in 1..Len(posts) : posts[i] \in PostType
  BY <1>1, DiscussionIs
<1>3. \A p \in PostType : /\ p.role \in {"REQUESTER", "STAFF", "ASSISTANT"}
                          /\ p.size \in Sizes /\ p.files \subseteq Files
  BY DEF PostType
<1>4. /\ drafting.stage \in Stages /\ drafting.of \in Nat /\ drafting.seen \in Nat
      /\ drafting.typos \in Typos /\ drafting.faults \in Faults /\ drafting.files \subseteq Files
  BY <1>1 DEF Drafting
<1>5. drafting.of \in 0..Len(posts) /\ drafting.seen \in 0..Len(posts)
  BY <1>1, <1>2, <1>4
<1>6. \A i \in DOMAIN posts : /\ posts[i].role \in {"REQUESTER", "STAFF", "ASSISTANT"}
                              /\ posts[i].size \in Sizes /\ posts[i].files \subseteq Files
  BY <1>2, <1>3
<1>7. QED
  BY <1>1, <1>4, <1>5, <1>6 DEF DraftTypeOK, Stages

(* Posts, attachments and the work on an answer have their types, for      *)
(* discussions of any length.                                              *)
THEOREM DraftTypeCorrect == DraftSpec => []DraftTypeOK
<1>1. DraftInv => DraftTypeOK
  BY DraftTypesAre
<1>2. QED
  BY <1>1, DraftInvariant, PTL
=============================================================================

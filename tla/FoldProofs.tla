----------------------------- MODULE FoldProofs -----------------------------
(***************************************************************************)
(* What SessionTables promises, for any number of sessions, transcripts    *)
(* and subagents and any lines, what the algorithms make of inputs of any  *)
(* length, and what an update of a keyed cache loses.                      *)
(***************************************************************************)
EXTENDS SessionTables, Algorithms, KeyedCache, FiniteSetTheorems, FunctionTheorems,
        SequenceTheorems, WellFoundedInduction, TLAPS

-----------------------------------------------------------------------------
(* Induction over the numbers, stated with a set in place of a predicate,  *)
(* and the functions a fold defines.                                       *)

\* A set of numbers that has zero and each one's successor has them all.
LEMMA NumbersByInduction ==
  ASSUME NEW S, 0 \in S, \A n \in Nat : n \in S => n + 1 \in S
  PROVE  Nat \subseteq S
<1> DEFINE R == OpToRel(<, Nat)
           Rest == Nat \ S
<1>1. IsWellFoundedOn(R, Nat)
  BY NatLessThanWellFounded, Zenon
<1>2. SUFFICES ASSUME Rest # {} PROVE FALSE
  OBVIOUS
<1>3. PICK x \in Rest : \A y \in Rest : ~ (<<y, x>> \in R)
  <2>1. Rest \subseteq Nat
    OBVIOUS
  <2> HIDE DEF R, Rest
  <2> QED BY <1>1, <1>2, <2>1, WFMin, Zenon
<1>4. \A y \in Rest : ~(y < x)
  BY <1>3 DEF OpToRel
<1>5. x # 0
  OBVIOUS
<1>6. x - 1 \in Nat /\ x - 1 \in S
  BY <1>4, <1>5
<1> QED BY <1>6

\* The greatest of 1..n.
LEMMA MaxOfInterval ==
  ASSUME NEW n \in Nat, NEW s \in SUBSET (1..n), n \in s
  PROVE  Max(s) = n
<1>1. n \in s /\ \A y \in s : n >= y
  OBVIOUS
<1>2. \A x \in s : (\A y \in s : x >= y) => x = n
  OBVIOUS
<1> QED BY <1>1, <1>2 DEF Max

\* A set of indices has a greatest one.
LEMMA MaxIsMember ==
  ASSUME NEW N \in Nat, NEW s \in SUBSET (1..N), s # {}
  PROVE  Max(s) \in s
<1> DEFINE HasMax(t) == t # {} => \E x \in t : \A y \in t : x >= y
           S == {k \in Nat : HasMax(s \cap (1..k))}
<1>1. 0 \in S
  OBVIOUS
<1>2. ASSUME NEW n \in Nat, n \in S PROVE n + 1 \in S
  <2>1. CASE n + 1 \in s
    BY <2>1
  <2>2. CASE n + 1 \notin s
    <3>1. s \cap (1..(n+1)) = s \cap (1..n)
      BY <2>2
    <3> QED BY <3>1, <1>2
  <2> QED BY <2>1, <2>2
<1>3. N \in S
  <2> HIDE DEF S
  <2> QED BY <1>1, <1>2, NumbersByInduction
<1>4. s \cap (1..N) = s
  OBVIOUS
<1> QED BY <1>3, <1>4 DEF Max

\* g is the function that FoldLeft is defined with: it has a value for each set
\* of indices, that of its greatest index applied to the value of the others.
IsFoldFunction(g, N, base, step) ==
    \A s \in SUBSET (1..N) :
        g[s] = IF s = {} THEN base ELSE step[Max(s)][g[s \ {Max(s)}]]

\* There is such a function.
LEMMA FoldFunctionExists ==
  ASSUME NEW N \in Nat, NEW A, NEW base \in A, NEW step \in [1..N -> [A -> A]]
  PROVE  \E g \in [SUBSET (1..N) -> A] : IsFoldFunction(g, N, base, step)
<1> DEFINE Exists(m) == \E g \in [SUBSET (1..m) -> A] : IsFoldFunction(g, m, base, step)
           S == {m \in Nat : m <= N => Exists(m)}
<1>1. Exists(0)
  <2> DEFINE g == [s \in SUBSET (1..0) |-> base]
  <2>1. g \in [SUBSET (1..0) -> A] /\ IsFoldFunction(g, 0, base, step)
    BY DEF IsFoldFunction
  <2> HIDE DEF g
  <2> QED BY <2>1
<1>2. ASSUME NEW m \in Nat, m + 1 <= N, Exists(m) PROVE Exists(m + 1)
  <2>1. PICK f \in [SUBSET (1..m) -> A] : IsFoldFunction(f, m, base, step)
    BY <1>2
  <2> DEFINE g == [s \in SUBSET (1..(m+1)) |->
                      IF m + 1 \in s THEN step[m + 1][f[s \ {m+1}]] ELSE f[s]]
  <2>2. \A s \in SUBSET (1..(m+1)) : /\ s \ {m+1} \in SUBSET (1..m)
                                     /\ m + 1 \notin s => s \in SUBSET (1..m)
    OBVIOUS
  <2>3. g \in [SUBSET (1..(m+1)) -> A]
    <3> SUFFICES ASSUME NEW s \in SUBSET (1..(m+1))
                 PROVE (IF m + 1 \in s THEN step[m + 1][f[s \ {m+1}]] ELSE f[s]) \in A
      OBVIOUS
    <3>1. m + 1 \in 1..N
      BY <1>2
    <3> QED BY <3>1, <2>2
  <2>4. ASSUME NEW s \in SUBSET (1..(m+1))
        PROVE g[s] = IF s = {} THEN base ELSE step[Max(s)][g[s \ {Max(s)}]]
    <3>1. CASE m + 1 \in s
      <4>1. Max(s) = m + 1
        BY <3>1, MaxOfInterval
      <4>2. g[s \ {m + 1}] = f[s \ {m+1}]
        BY <2>2
      <4> QED BY <3>1, <4>1, <4>2
    <3>2. CASE m + 1 \notin s
      <4>1. s \in SUBSET (1..m) /\ g[s] = f[s]
        BY <3>2, <2>2
      <4>2. s \ {Max(s)} \in SUBSET (1..(m+1)) /\ m + 1 \notin s \ {Max(s)}
        BY <3>2
      <4>3. g[s \ {Max(s)}] = f[s \ {Max(s)}]
        BY <4>2
      <4>4. f[s] = IF s = {} THEN base ELSE step[Max(s)][f[s \ {Max(s)}]]
        BY <2>1, <4>1 DEF IsFoldFunction
      <4> HIDE DEF g
      <4> QED BY <4>1, <4>3, <4>4
    <3> QED BY <3>1, <3>2
  <2> HIDE DEF g
  <2>5. IsFoldFunction(g, m + 1, base, step)
    BY <2>4 DEF IsFoldFunction
  <2> QED BY <2>3, <2>5
<1> HIDE DEF Exists
<1>3. 0 \in S
  BY <1>1
<1>4. ASSUME NEW m \in Nat, m \in S PROVE m + 1 \in S
  BY <1>2, <1>4
<1>5. N \in S
  <2> HIDE DEF S
  <2> QED BY <1>3, <1>4, NumbersByInduction
<1>6. Exists(N)
  BY <1>5
<1> QED BY <1>6, Zenon DEF Exists

\* w goes on along the initial intervals, as long as it stays in A.
GoesOn(w, N, A, base, step) ==
    /\ w[{}] = base
    /\ \A n \in 1..N : w[1..(n-1)] \in A => w[1..n] = step[n][w[1..(n-1)]]

\* So it stays in A along them.
LEMMA FoldStaysIn ==
  ASSUME NEW N \in Nat, NEW A, NEW base \in A, NEW step \in [1..N -> [A -> A]],
         NEW w, GoesOn(w, N, A, base, step)
  PROVE  w[1..0] = base /\ \A n \in 0..N : w[1..n] \in A
<1> DEFINE S == {n \in Nat : n <= N => w[1..n] \in A}
<1>1. w[1..0] = base
  <2>1. 1..0 = {}
    OBVIOUS
  <2> QED BY <2>1 DEF GoesOn
<1>2. 0 \in S
  BY <1>1
<1>3. ASSUME NEW n \in Nat, n \in S PROVE n + 1 \in S
  <2>1. SUFFICES ASSUME n + 1 <= N PROVE w[1..(n+1)] \in A
    OBVIOUS
  <2>2. w[1..n] \in A /\ n + 1 \in 1..N /\ (n + 1) - 1 = n
    BY <1>3, <2>1
  <2>3. w[1..(n+1)] = step[n+1][w[1..n]]
    BY <2>2 DEF GoesOn
  <2> QED BY <2>2, <2>3
<1>4. Nat \subseteq S
  <2> HIDE DEF S
  <2> QED BY <1>2, <1>3, NumbersByInduction
<1> QED BY <1>1, <1>4

\* What the recursive function of FoldLeft is on 1..n.
LEMMA IntervalSteps ==
  ASSUME NEW n \in Nat, n # 0
  PROVE  1..n # {} /\ Max(1..n) = n /\ (1..n) \ {n} = 1..(n-1)
<1>1. 1..n # {} /\ n \in 1..n /\ 1..n \in SUBSET (1..n)
  OBVIOUS
<1>2. Max(1..n) = n
  BY <1>1, MaxOfInterval
<1> QED BY <1>1, <1>2

\* f[n] is what the first n steps have made of base.
IsRun(f, N, A, base, step) ==
    /\ f \in [0..N -> A]
    /\ f[0] = base
    /\ \A n \in 1..N : f[n] = step[n][f[n - 1]]

RunsLike(w, N, A, base, step) == \E f : IsRun(f, N, A, base, step) /\ f[N] = w[1..N]

LEMMA RunAlong ==
  ASSUME NEW N \in Nat, NEW A, NEW base \in A, NEW step \in [1..N -> [A -> A]],
         NEW w, GoesOn(w, N, A, base, step)
  PROVE  RunsLike(w, N, A, base, step)
<1> DEFINE f == [n \in 0..N |-> w[1..n]]
<1>1. w[1..0] = base /\ \A n \in 0..N : w[1..n] \in A
  BY FoldStaysIn
<1>2. f \in [0..N -> A] /\ f[0] = base /\ f[N] = w[1..N]
  BY <1>1
<1>3. \A n \in 1..N : f[n] = step[n][f[n - 1]]
  <2>1. \A n \in 1..N : n - 1 \in 0..N /\ n \in 0..N
    OBVIOUS
  <2>2. \A n \in 1..N : f[n] = w[1..n] /\ f[n - 1] = w[1..(n-1)]
    BY <2>1
  <2> QED BY <1>1, <2>1, <2>2 DEF GoesOn
<1> HIDE DEF f
<1> QED BY <1>2, <1>3 DEF IsRun, RunsLike

-----------------------------------------------------------------------------
(* The folds over the lines of a transcript.                               *)

\* One line makes totals of totals.
LEMMA FoldLineType ==
  ASSUME NEW a \in Fold, NEW l \in Lines, NEW p
  PROVE  FoldLine(a, l, p) \in Fold
<1>1. CASE l.kind = "prompt"
  <2>1. CASE p
    <3>1. a.prompts + 1 \in Nat
      BY DEF Fold
    <3>2. FoldLine(a, l, p) = [a EXCEPT !.prompts = a.prompts + 1]
      BY <1>1, <2>1 DEF FoldLine
    <3> QED BY <3>1, <3>2 DEF Fold
  <2>2. CASE ~p
    BY <1>1, <2>2 DEF FoldLine
  <2> QED BY <2>1, <2>2
<1>2. CASE l.kind = "turn"
  <2>1. l.id \in Ids /\ l.at \in Nat
    BY <1>2, ConstantsAssumption DEF Ids
  <2> DEFINE evictions == IF p /\ Evicted(a, l) THEN a.evictions + 1 ELSE a.evictions
  <2>2. evictions \in Nat
    BY DEF Fold
  <2>3. CASE l.id \in a.seen
    BY <2>3, <1>2 DEF FoldLine, Fold
  <2>4. CASE l.id \notin a.seen
    <3>1. FoldLine(a, l, p) = [seen |-> a.seen \cup {l.id}, turns |-> a.turns + 1,
                               prompts |-> a.prompts, evictions |-> evictions, lastAt |-> l.at]
      BY <1>2, <2>4 DEF FoldLine, Fold
    <3>2. a.seen \cup {l.id} \in SUBSET Ids /\ a.turns + 1 \in Nat /\ a.prompts \in Nat
      BY <2>1 DEF Fold
    <3> HIDE DEF evictions
    <3> QED BY <3>1, <3>2, <2>1, <2>2 DEF Fold
  <2> QED BY <2>3, <2>4
<1> QED BY <1>1, <1>2, ConstantsAssumption

\* f[n] is what the first n lines have made of the totals a.
IsWalk(f, a, s, p) ==
    /\ f \in [0..Len(s) -> Fold]
    /\ f[0] = a
    /\ \A n \in 1..Len(s) : f[n] = FoldLine(f[n - 1], s[n], p)
    /\ FoldLines(a, s, p) = f[Len(s)]

\* fold_transcript_lines is FoldLine, line by line.
LEMMA FoldLinesSteps ==
  ASSUME NEW a \in Fold, NEW s \in Seq(Lines), NEW p
  PROVE  \E f : IsWalk(f, a, s, p)
<1> DEFINE N == Len(s)
           step == [n \in 1..N |-> [x \in Fold |-> FoldLine(x, s[n], p)]]
           Walk(w) == [t \in SUBSET (DOMAIN s) |->
                         IF t = {} THEN a ELSE FoldLine(w[t \ {Max(t)}], s[Max(t)], p)]
           walk == CHOOSE w : w = Walk(w)
<1>1. N \in Nat /\ DOMAIN s = 1..N /\ \A n \in 1..N : s[n] \in Lines
  OBVIOUS
<1>2. step \in [1..N -> [Fold -> Fold]]
  BY <1>1, FoldLineType
<1>3. PICK g \in [SUBSET (1..N) -> Fold] : IsFoldFunction(g, N, a, step)
  <2>1. N \in Nat
    BY <1>1
  <2> HIDE DEF step, N, Walk, walk
  <2> QED BY <2>1, <1>2, FoldFunctionExists
<1>4. \A t \in SUBSET (1..N) : g[t] = IF t = {} THEN a ELSE FoldLine(g[t \ {Max(t)}], s[Max(t)], p)
  <2>1. \A t \in SUBSET (1..N) : t # {} => Max(t) \in 1..N /\ t \ {Max(t)} \in SUBSET (1..N)
    BY <1>1, MaxIsMember
  <2> QED BY <1>3, <2>1 DEF IsFoldFunction
<1>5. g = Walk(g)
  <2> HIDE DEF N
  <2> QED BY <1>4, <1>1
<1>6. walk = Walk(walk)
  <2> HIDE DEF Walk
  <2> QED BY <1>5, Zenon
<1>7. FoldLines(a, s, p) = walk[DOMAIN s]
  BY Zenon DEF FoldLines, FoldLeft, MapThenFoldSet
<1> HIDE DEF walk
<1>8. walk[{}] = a
  BY <1>6
<1>9. \A n \in 1..N : walk[1..n] = FoldLine(walk[1..(n-1)], s[n], p)
  <2> SUFFICES ASSUME NEW n \in 1..N PROVE walk[1..n] = FoldLine(walk[1..(n-1)], s[n], p)
    OBVIOUS
  <2>1. 1..n # {} /\ Max(1..n) = n /\ (1..n) \ {n} = 1..(n-1)
    BY <1>1, IntervalSteps
  <2>2. 1..n \in SUBSET (DOMAIN s)
    BY <1>1
  <2>3. walk[1..n] = IF 1..n = {} THEN a ELSE FoldLine(walk[(1..n) \ {Max(1..n)}], s[Max(1..n)], p)
    BY <1>6, <2>2
  <2> QED BY <2>1, <2>3
<1>10. \A n \in 1..N : \A x \in Fold : step[n][x] = FoldLine(x, s[n], p)
  OBVIOUS
<1>11. \A n \in 1..N : walk[1..(n-1)] \in Fold => walk[1..n] = step[n][walk[1..(n-1)]]
  BY <1>9, <1>10
<1>12. GoesOn(walk, N, Fold, a, step)
  BY <1>8, <1>11 DEF GoesOn
<1>13. walk[1..0] = a /\ \A n \in 0..N : walk[1..n] \in Fold
  <2>1. N \in Nat
    BY <1>1
  <2> HIDE DEF step, N
  <2> QED BY <2>1, <1>2, <1>12, FoldStaysIn
<1> DEFINE f == [n \in 0..N |-> walk[1..n]]
<1>14. f \in [0..N -> Fold] /\ f[0] = a /\ f[N] = walk[1..N]
  BY <1>1, <1>13
<1>15. \A n \in 1..N : f[n] = FoldLine(f[n - 1], s[n], p)
  <2>1. \A n \in 1..N : n - 1 \in 0..N /\ n \in 0..N
    BY <1>1
  <2>2. \A n \in 1..N : f[n] = walk[1..n] /\ f[n - 1] = walk[1..(n-1)]
    BY <2>1
  <2> QED BY <1>9, <2>2
<1> HIDE DEF f
<1>16. IsWalk(f, a, s, p)
  BY <1>1, <1>7, <1>14, <1>15 DEF IsWalk
<1> QED BY <1>16

\* The ids of the turns, and the prompts, among the lines m + 1 to n of c.
IdsIn(c, m, n) == {c[i].id : i \in {j \in (m+1)..n : c[j].kind = "turn"}}
PromptsIn(c, m, n) == {j \in (m+1)..n : c[j].kind = "prompt"}

\* The turns of the totals are those whose ids have been seen.
Counted(fold) == IsFiniteSet(fold.seen) /\ fold.turns = Cardinality(fold.seen)

\* What one line does to the totals.
LEMMA FoldLineEffect ==
  ASSUME NEW a \in Fold, Counted(a), NEW l \in Lines, NEW p \in BOOLEAN,
         NEW r, r = FoldLine(a, l, p)
  PROVE  /\ r \in Fold /\ Counted(r)
         /\ r.seen = a.seen \cup (IF l.kind = "turn" THEN {l.id} ELSE {})
         /\ r.prompts = a.prompts + (IF p /\ l.kind = "prompt" THEN 1 ELSE 0)
<1>1. r \in Fold
  BY FoldLineType
<1>2. CASE l.kind = "prompt"
  <2>1. r.seen = a.seen /\ r.turns = a.turns
    BY <1>2 DEF FoldLine, Fold
  <2>2. r.prompts = a.prompts + (IF p THEN 1 ELSE 0)
    BY <1>2 DEF FoldLine, Fold
  <2>3. a.prompts \in Nat
    BY DEF Fold
  <2>4. Counted(r)
    BY <2>1 DEF Counted
  <2> QED BY <1>1, <1>2, <2>1, <2>2, <2>3, <2>4
<1>3. CASE l.kind = "turn"
  <2>1. CASE l.id \in a.seen
    <3>1. r = a
      BY <1>3, <2>1 DEF FoldLine
    <3>2. a.prompts \in Nat
      BY DEF Fold
    <3> QED BY <1>3, <2>1, <3>1, <3>2
  <2>2. CASE l.id \notin a.seen
    <3>1. r.seen = a.seen \cup {l.id} /\ r.turns = a.turns + 1 /\ r.prompts = a.prompts
      BY <1>3, <2>2 DEF FoldLine, Fold
    <3>2. a.prompts \in Nat
      BY DEF Fold
    <3>3. IsFiniteSet(a.seen \cup {l.id}) /\ Cardinality(a.seen \cup {l.id}) = Cardinality(a.seen) + 1
      BY <2>2, FS_AddElement DEF Counted
    <3>4. Counted(r)
      BY <3>1, <3>3 DEF Counted
    <3> QED BY <1>1, <1>3, <3>1, <3>2, <3>4
  <2> QED BY <2>1, <2>2
<1> QED BY <1>2, <1>3, ConstantsAssumption

\* One line more.
LEMMA OneMore ==
  ASSUME NEW c \in Seq(Lines), NEW m \in Nat, NEW n \in Nat, m <= n
  PROVE  /\ IdsIn(c, m, n + 1) = IdsIn(c, m, n)
                \cup (IF c[n + 1].kind = "turn" THEN {c[n + 1].id} ELSE {})
         /\ IsFiniteSet(PromptsIn(c, m, n))
         /\ Cardinality(PromptsIn(c, m, n)) \in Nat
         /\ Cardinality(PromptsIn(c, m, n + 1)) = Cardinality(PromptsIn(c, m, n))
                + (IF c[n + 1].kind = "prompt" THEN 1 ELSE 0)
<1>1. (m+1)..(n+1) = ((m+1)..n) \cup {n + 1} /\ n + 1 \notin (m+1)..n
  OBVIOUS
<1>2. IdsIn(c, m, n + 1) = IdsIn(c, m, n)
                \cup (IF c[n + 1].kind = "turn" THEN {c[n + 1].id} ELSE {})
  <2>1. {j \in (m+1)..(n+1) : c[j].kind = "turn"} =
          {j \in (m+1)..n : c[j].kind = "turn"}
             \cup (IF c[n + 1].kind = "turn" THEN {n + 1} ELSE {})
    BY <1>1
  <2> QED BY <2>1 DEF IdsIn
<1>3. IsFiniteSet(PromptsIn(c, m, n)) /\ Cardinality(PromptsIn(c, m, n)) \in Nat
  <2>1. IsFiniteSet((m+1)..n)
    BY FS_Interval
  <2>2. PromptsIn(c, m, n) \subseteq (m+1)..n
    BY DEF PromptsIn
  <2> QED BY <2>1, <2>2, FS_Subset, FS_CardinalityType
<1>4. n + 1 \notin PromptsIn(c, m, n)
  BY DEF PromptsIn
<1>5. PromptsIn(c, m, n + 1) = PromptsIn(c, m, n) \cup (IF c[n + 1].kind = "prompt" THEN {n + 1} ELSE {})
  BY <1>1 DEF PromptsIn
<1>6. Cardinality(PromptsIn(c, m, n) \cup {n + 1}) = Cardinality(PromptsIn(c, m, n)) + 1
  BY <1>3, <1>4, FS_AddElement
<1>7. Cardinality(PromptsIn(c, m, n + 1)) = Cardinality(PromptsIn(c, m, n))
                + (IF c[n + 1].kind = "prompt" THEN 1 ELSE 0)
  <2>1. CASE c[n + 1].kind = "prompt"
    BY <1>5, <1>6, <2>1
  <2>2. CASE c[n + 1].kind # "prompt"
    <3>1. PromptsIn(c, m, n + 1) = PromptsIn(c, m, n)
      BY <1>5, <2>2
    <3> QED BY <1>3, <2>2, <3>1
  <2> QED BY <2>1, <2>2
<1> QED BY <1>2, <1>3, <1>7

\* No lines.
LEMMA NoneIn ==
  ASSUME NEW c, NEW n \in Nat
  PROVE  IdsIn(c, n, n) = {} /\ PromptsIn(c, n, n) = {} /\ Cardinality(PromptsIn(c, n, n)) = 0
<1>1. (n+1)..n = {}
  OBVIOUS
<1> QED BY <1>1, FS_EmptySet DEF IdsIn, PromptsIn

\* The totals r are the totals a with the lines m + 1 to n.
AddedUp(a, r, p, c, m, n) ==
    /\ r \in Fold /\ Counted(r)
    /\ r.seen = a.seen \cup IdsIn(c, m, n)
    /\ p = TRUE => r.prompts = a.prompts + Cardinality(PromptsIn(c, m, n))
    /\ p = FALSE => r.prompts = a.prompts

\* What the lines m + 1 to n do to the totals.
LEMMA FoldLinesEffect ==
  ASSUME NEW a \in Fold, Counted(a), NEW c \in Seq(Lines), NEW p \in BOOLEAN,
         NEW m \in Nat, NEW n \in Nat, m <= n, n <= Len(c),
         NEW r, r = FoldLines(a, SubSeq(c, m + 1, n), p)
  PROVE  AddedUp(a, r, p, c, m, n)
<1> DEFINE s == SubSeq(c, m + 1, n)
           Good(t, j) ==
             /\ t \in Fold /\ Counted(t)
             /\ t.seen = a.seen \cup IdsIn(c, m, j)
             /\ t.prompts = a.prompts + (IF p THEN Cardinality(PromptsIn(c, m, j)) ELSE 0)
<1>1. s \in Seq(Lines) /\ Len(s) = n - m /\ \A k \in 1..(n-m) : s[k] = c[m + k]
  BY SubSeqProperties
<1> HIDE DEF s
<1>2. PICK f : IsWalk(f, a, s, p)
  BY <1>1, FoldLinesSteps
<1> DEFINE S == {k \in Nat : k <= n - m => Good(f[k], m + k)}
<1>3. 0 \in S
  <2>1. a.prompts \in Nat
    BY DEF Fold
  <2>2. m + 0 = m
    OBVIOUS
  <2>3. IdsIn(c, m, m) = {} /\ Cardinality(PromptsIn(c, m, m)) = 0
    BY NoneIn
  <2>4. Good(a, m)
    BY <2>1, <2>3
  <2>5. f[0] = a
    BY <1>2 DEF IsWalk
  <2> HIDE DEF Good
  <2> QED BY <2>2, <2>4, <2>5
<1>4. ASSUME NEW k \in Nat, k \in S PROVE k + 1 \in S
  <2>1. SUFFICES ASSUME k + 1 <= n - m PROVE Good(f[k + 1], m + (k + 1))
    OBVIOUS
  <2>2. Good(f[k], m + k)
    BY <1>4, <2>1
  <2>3. /\ k + 1 \in 1..Len(s) /\ (k + 1) - 1 = k
        /\ m + k \in Nat /\ m <= m + k /\ m + (k + 1) = (m + k) + 1
        /\ (m + k) + 1 \in 1..Len(c)
    BY <1>1, <2>1
  <2> DEFINE l == c[(m + k) + 1]
  <2>4. f[k + 1] = FoldLine(f[k], l, p) /\ l \in Lines
    BY <1>1, <1>2, <2>3 DEF IsWalk
  <2> HIDE DEF l
  <2> DEFINE y == f[k + 1]
             x == f[k]
  <2>10. x \in Fold /\ Counted(x) /\ y = FoldLine(x, l, p)
    BY <2>2, <2>4
  <2> HIDE DEF x, y
  <2>5. /\ y \in Fold /\ Counted(y)
        /\ y.seen = x.seen \cup (IF l.kind = "turn" THEN {l.id} ELSE {})
        /\ y.prompts = x.prompts + (IF p /\ l.kind = "prompt" THEN 1 ELSE 0)
    BY <2>4, <2>10, FoldLineEffect
  <2>6. /\ IdsIn(c, m, (m + k) + 1) = IdsIn(c, m, m + k) \cup (IF l.kind = "turn" THEN {l.id} ELSE {})
        /\ Cardinality(PromptsIn(c, m, m + k)) \in Nat
        /\ Cardinality(PromptsIn(c, m, (m + k) + 1)) =
             Cardinality(PromptsIn(c, m, m + k)) + (IF l.kind = "prompt" THEN 1 ELSE 0)
    BY <2>3, OneMore DEF l
  <2>7. a.prompts \in Nat
    BY DEF Fold
  <2>8. y.seen = a.seen \cup IdsIn(c, m, (m + k) + 1)
    BY <2>2, <2>5, <2>6 DEF x
  <2>9. y.prompts = a.prompts + (IF p THEN Cardinality(PromptsIn(c, m, (m + k) + 1)) ELSE 0)
    <3>1. x.prompts = a.prompts + (IF p THEN Cardinality(PromptsIn(c, m, m + k)) ELSE 0)
      BY <2>2 DEF x
    <3> QED BY <2>5, <2>6, <2>7, <3>1
  <2> QED BY <2>3, <2>5, <2>8, <2>9 DEF y
<1>5. Good(f[n - m], m + (n - m))
  <2> HIDE DEF Good
  <2>1. Nat \subseteq S
    <3> HIDE DEF S
    <3> QED BY <1>3, <1>4, NumbersByInduction
  <2>2. n - m \in Nat
    OBVIOUS
  <2> QED BY <2>1, <2>2
<1>6. m + (n - m) = n
  OBVIOUS
<1>7. Good(r, n)
  BY <1>1, <1>2, <1>5, <1>6 DEF s, IsWalk
<1>8. a.prompts \in Nat
  BY DEF Fold
<1> QED BY <1>7, <1>8 DEF AddedUp

-----------------------------------------------------------------------------
(* The lines of all the subagents, one file after the other.               *)

\* SetToSeq lists the elements of a finite set.
LEMMA SetToSeqLists ==
  ASSUME NEW S, IsFiniteSet(S)
  PROVE  /\ Cardinality(S) \in Nat
         /\ SetToSeq(S) \in [1..Cardinality(S) -> S]
         /\ \A x \in S : \E i \in 1..Cardinality(S) : SetToSeq(S)[i] = x
<1> DEFINE n == Cardinality(S)
           Lists(f) == f \in [1..n -> S] /\ IsInjective(f)
<1>1. n \in Nat /\ ExistsBijection(1..n, S)
  BY FS_CardinalityType
<1>2. \E f : Lists(f)
  BY <1>1 DEF ExistsBijection, Bijection, Injection
<1>3. SetToSeq(S) = CHOOSE f \in [1..n -> S] : IsInjective(f)
  BY DEF SetToSeq
<1>4. SetToSeq(S) \in Injection(1..n, S)
  BY <1>2, <1>3 DEF Injection
<1>5. IsFiniteSet(1..n) /\ Cardinality(1..n) = n
  BY <1>1, FS_Interval
<1>6. SetToSeq(S) \in Surjection(1..n, S)
  <2> HIDE DEF n
  <2>1. Cardinality(1..n) = Cardinality(S)
    BY <1>5 DEF n
  <2> QED BY <1>4, <2>1, FS_Injection
<1> QED BY <1>1, <1>6 DEF Surjection

\* The first n of some sequences in one.
IsFlat(f, ss) ==
    f = [i \in 1..Len(ss) |-> IF i = 1 THEN ss[i] ELSE f[i - 1] \o ss[i]]

\* There is such a function.
LEMMA FlatExists ==
  ASSUME NEW L, NEW ss \in Seq(Seq(L))
  PROVE  \E f : IsFlat(f, ss)
<1> DEFINE N == Len(ss)
           A == Seq(L)
           step == [n \in 1..N |-> [x \in A |-> x \o ss[n]]]
<1>1. N \in Nat /\ \A n \in 1..N : ss[n] \in A
  OBVIOUS
<1>2. step \in [1..N -> [A -> A]] /\ <<>> \in A
  BY <1>1
<1>3. PICK g \in [SUBSET (1..N) -> A] : IsFoldFunction(g, N, <<>>, step)
  <2>1. N \in Nat
    BY <1>1
  <2> HIDE DEF step, N, A
  <2> QED BY <2>1, <1>2, FoldFunctionExists
<1> DEFINE f == [i \in 1..N |-> g[1..i]]
<1>4. \A n \in 1..N : g[1..n] = g[1..(n-1)] \o ss[n]
  <2> SUFFICES ASSUME NEW n \in 1..N PROVE g[1..n] = g[1..(n-1)] \o ss[n]
    OBVIOUS
  <2>1. 1..n # {} /\ Max(1..n) = n /\ (1..n) \ {n} = 1..(n-1)
    BY <1>1, IntervalSteps
  <2>2. 1..n \in SUBSET (1..N) /\ 1..(n-1) \in SUBSET (1..N)
    BY <1>1
  <2>3. g[1..n] = step[n][g[1..(n-1)]]
    <3> HIDE DEF step, N
    <3> QED BY <1>3, <2>1, <2>2 DEF IsFoldFunction
  <2>4. g[1..(n-1)] \in A
    BY <2>2
  <2> QED BY <2>3, <2>4
<1>5. g[1..0] = <<>>
  <2>1. 1..0 = {} /\ 1..0 \in SUBSET (1..N)
    OBVIOUS
  <2> QED BY <1>3, <2>1 DEF IsFoldFunction
<1>6. ASSUME NEW i \in 1..N PROVE f[i] = IF i = 1 THEN ss[i] ELSE f[i - 1] \o ss[i]
  <2>1. CASE i = 1
    <3>1. f[1] = <<>> \o ss[1]
      <4>1. 1 \in 1..N /\ 1 - 1 = 0
        BY <2>1
      <4>2. g[1..1] = g[1..(1-1)] \o ss[1]
        BY <1>4, <4>1
      <4> QED BY <1>5, <4>1, <4>2
    <3>2. ss[1] \in Seq(L)
      BY <1>1, <2>1
    <3> QED BY <2>1, <3>1, <3>2, ConcatEmptySeq
  <2>2. CASE i # 1
    <3>1. i - 1 \in 1..N
      BY <2>2
    <3> QED BY <2>2, <3>1, <1>4
  <2> QED BY <2>1, <2>2
<1>7. IsFlat(f, ss)
  <2>1. f = [i \in 1..N |-> f[i]]
    OBVIOUS
  <2> HIDE DEF f
  <2> QED BY <2>1, <1>6 DEF IsFlat
<1> QED BY <1>7

\* FlattenSeq makes one sequence of what the others hold.
LEMMA FlattenHolds ==
  ASSUME NEW L, NEW ss \in Seq(Seq(L))
  PROVE  /\ FlattenSeq(ss) \in Seq(L)
         /\ Range(FlattenSeq(ss)) = UNION {Range(ss[i]) : i \in 1..Len(ss)}
<1> DEFINE N == Len(ss)
           flat == CHOOSE f : IsFlat(f, ss)
<1>1. N \in Nat /\ \A n \in 1..N : ss[n] \in Seq(L)
  OBVIOUS
<1>2. CASE N = 0
  <2>1. ss = <<>> /\ FlattenSeq(ss) = ss
    BY <1>2 DEF FlattenSeq
  <2>2. <<>> \in Seq(L) /\ Len(<<>>) = 0
    OBVIOUS
  <2>3. Range(<<>>) = {}
    <3>1. Range(<<>>) = {<<>>[i] : i \in 1..Len(<<>>)}
      BY <2>2, RangeEquality
    <3> QED BY <3>1
  <2>4. 1..N = {}
    BY <1>2
  <2> QED BY <2>1, <2>2, <2>3, <2>4
<1>3. CASE N # 0
  <2>1. IsFlat(flat, ss)
    BY FlatExists, Zenon
  <2>2. FlattenSeq(ss) = flat[N]
    BY <1>3, Zenon DEF FlattenSeq, IsFlat
  <2> HIDE DEF flat
  <2>9. \A i \in 1..N : flat[i] = IF i = 1 THEN ss[i] ELSE flat[i - 1] \o ss[i]
    BY <2>1 DEF IsFlat
  <2> DEFINE Good(n) == /\ flat[n] \in Seq(L)
                        /\ Range(flat[n]) = UNION {Range(ss[i]) : i \in 1..n}
             S == {n \in Nat : n + 1 <= N => Good(n + 1)}
  <2>3. 0 \in S
    <3>1. flat[1] = ss[1]
      BY <1>1, <1>3, <2>9
    <3>2. 1..1 = {1}
      OBVIOUS
    <3>3. flat[1] \in Seq(L) /\ Range(flat[1]) = UNION {Range(ss[i]) : i \in 1..1}
      BY <1>1, <1>3, <3>1, <3>2
    <3> QED BY <3>3
  <2>4. ASSUME NEW n \in Nat, n \in S PROVE n + 1 \in S
    <3>1. SUFFICES ASSUME (n + 1) + 1 <= N PROVE Good((n + 1) + 1)
      OBVIOUS
    <3> DEFINE k == n + 1
    <3>2. Good(k) /\ k \in Nat /\ k # 0 /\ k + 1 \in 1..N
      BY <2>4, <3>1, <1>1
    <3> HIDE DEF k
    <3>3. flat[k + 1] = flat[k] \o ss[k + 1]
      <4>1. (k + 1) - 1 = k /\ k + 1 # 1
        BY <3>2
      <4>2. flat[k + 1] = IF k + 1 = 1 THEN ss[k + 1] ELSE flat[(k + 1) - 1] \o ss[k + 1]
        BY <2>9, <3>2
      <4> QED BY <4>1, <4>2
    <3>4. 1..(k+1) = (1..k) \cup {k + 1}
      BY <3>2
    <3>5. ss[k + 1] \in Seq(L)
      BY <1>1, <3>2
    <3>6. Range(flat[k + 1]) = Range(flat[k]) \cup Range(ss[k + 1])
      BY <3>2, <3>3, <3>5, RangeConcatenation
    <3>7. Range(flat[k + 1]) = UNION {Range(ss[i]) : i \in 1..(k+1)}
      BY <3>2, <3>4, <3>6
    <3>8. Good(k + 1)
      BY <3>2, <3>3, <3>5, <3>7
    <3> QED BY <3>8 DEF k
  <2>5. Good(N)
    <3> HIDE DEF Good
    <3>1. Nat \subseteq S
      <4> HIDE DEF S
      <4> QED BY <2>3, <2>4, NumbersByInduction
    <3>2. N - 1 \in Nat /\ (N - 1) + 1 = N
      BY <1>1, <1>3
    <3>3. N - 1 \in S
      BY <3>1, <3>2
    <3>4. (N - 1) + 1 <= N => Good((N - 1) + 1)
      BY <3>3
    <3> HIDE DEF N
    <3> QED BY <1>1, <3>2, <3>4
  <2> QED BY <2>2, <2>5
<1> QED BY <1>2, <1>3

\* The subagents' lines are those of each of their files.
LEMMA SubagentLinesHold ==
  ASSUME NEW p \in Parents, NEW linesOf, \A f \in SubagentsOf[p] : linesOf[f] \in Seq(Lines)
  PROVE  /\ SubagentLines(p, linesOf) \in Seq(Lines)
         /\ Range(SubagentLines(p, linesOf)) = UNION {Range(linesOf[f]) : f \in SubagentsOf[p]}
<1> DEFINE T == SubagentsOf[p]
           n == Cardinality(T)
           list == SetToSeq(T)
           ss == [i \in 1..n |-> linesOf[list[i]]]
<1>1. IsFiniteSet(T)
  BY ConstantsAssumption
<1>2. /\ n \in Nat /\ list \in [1..n -> T]
      /\ \A f \in T : \E i \in 1..n : list[i] = f
  <2> HIDE DEF T
  <2> QED BY <1>1, SetToSeqLists
<1>3. SubagentLines(p, linesOf) = FlattenSeq(ss)
  BY DEF SubagentLines
<1> HIDE DEF n, list, T
<1>4. \A i \in 1..n : ss[i] \in Seq(Lines)
  BY <1>2 DEF T
<1>5. ss \in Seq(Seq(Lines)) /\ Len(ss) = n
  BY <1>2, <1>4
<1>6. UNION {Range(ss[i]) : i \in 1..n} = UNION {Range(linesOf[f]) : f \in T}
  BY <1>2
<1> HIDE DEF ss
<1>7. /\ FlattenSeq(ss) \in Seq(Lines)
      /\ Range(FlattenSeq(ss)) = UNION {Range(ss[i]) : i \in 1..n}
  BY <1>5, FlattenHolds
<1> QED BY <1>3, <1>6, <1>7 DEF T

\* The ids in a sequence are those of the turns in its range.
LEMMA IdsInRange ==
  ASSUME NEW c \in Seq(Lines)
  PROVE  IdsIn(c, 0, Len(c)) = {l.id : l \in {x \in Range(c) : x.kind = "turn"}}
<1>1. Range(c) = {c[i] : i \in 1..Len(c)}
  BY RangeEquality
<1>2. (0+1)..Len(c) = 1..Len(c)
  OBVIOUS
<1> QED BY <1>1, <1>2 DEF IdsIn

\* The size of two sets that have nothing in common.
LEMMA DisjointUnion ==
  ASSUME NEW A, NEW B, IsFiniteSet(A), IsFiniteSet(B), A \cap B = {}
  PROVE  /\ Cardinality(A) \in Nat /\ Cardinality(B) \in Nat
         /\ Cardinality(A \cup B) = Cardinality(A) + Cardinality(B)
<1>1. Cardinality(A) \in Nat /\ Cardinality(B) \in Nat
  BY FS_CardinalityType
<1>2. Cardinality(A \cup B) = Cardinality(A) + Cardinality(B) - Cardinality(A \cap B)
  BY FS_Union
<1>3. Cardinality(A \cap B) = 0
  BY FS_EmptySet
<1> QED BY <1>1, <1>2, <1>3

\* Some lines after others.
LEMMA Adjacent ==
  ASSUME NEW c \in Seq(Lines), NEW m \in Nat, NEW n \in Nat, m <= n, n <= Len(c)
  PROVE  /\ IdsIn(SubSeq(c, m + 1, n), 0, Len(SubSeq(c, m + 1, n))) = IdsIn(c, m, n)
         /\ IdsIn(c, 0, n) = IdsIn(c, 0, m) \cup IdsIn(c, m, n)
         /\ Cardinality(PromptsIn(c, 0, m)) \in Nat
         /\ Cardinality(PromptsIn(c, m, n)) \in Nat
         /\ Cardinality(PromptsIn(c, 0, n)) =
              Cardinality(PromptsIn(c, 0, m)) + Cardinality(PromptsIn(c, m, n))
<1> DEFINE s == SubSeq(c, m + 1, n)
<1>1. s \in Seq(Lines) /\ Len(s) = n - m /\ \A k \in 1..(n-m) : s[k] = c[m + k]
  BY SubSeqProperties
<1> HIDE DEF s
<1>2. IdsIn(s, 0, Len(s)) = IdsIn(c, m, n)
  <2>1. (0+1)..Len(s) = 1..(n-m)
    BY <1>1
  <2>2. ASSUME NEW k \in 1..(n-m), s[k].kind = "turn"
        PROVE  m + k \in (m+1)..n /\ c[m + k].kind = "turn" /\ c[m + k].id = s[k].id
    BY <1>1, <2>2
  <2>3. ASSUME NEW j \in (m+1)..n, c[j].kind = "turn"
        PROVE  j - m \in 1..(n-m) /\ s[j - m].kind = "turn" /\ s[j - m].id = c[j].id
    <3>1. j - m \in 1..(n-m) /\ m + (j - m) = j
      OBVIOUS
    <3> QED BY <1>1, <2>3, <3>1
  <2> DEFINE old == {s[i].id : i \in {j \in 1..(n-m) : s[j].kind = "turn"}}
             new == {c[i].id : i \in {j \in (m+1)..n : c[j].kind = "turn"}}
  <2>4. old \subseteq new
    BY <2>2
  <2>5. new \subseteq old
    BY <2>3
  <2>6. old = new
    BY <2>4, <2>5
  <2> QED BY <2>1, <2>6 DEF IdsIn
<1>3. (0+1)..n = ((0+1)..m) \cup ((m+1)..n) /\ ((0+1)..m) \cap ((m+1)..n) = {}
  OBVIOUS
<1>4. IdsIn(c, 0, n) = IdsIn(c, 0, m) \cup IdsIn(c, m, n)
  BY <1>3 DEF IdsIn
<1>5. PromptsIn(c, 0, n) = PromptsIn(c, 0, m) \cup PromptsIn(c, m, n)
      /\ PromptsIn(c, 0, m) \cap PromptsIn(c, m, n) = {}
  BY <1>3 DEF PromptsIn
<1>6. /\ IsFiniteSet(PromptsIn(c, 0, m)) /\ Cardinality(PromptsIn(c, 0, m)) \in Nat
      /\ IsFiniteSet(PromptsIn(c, m, n)) /\ Cardinality(PromptsIn(c, m, n)) \in Nat
  <2>1. 0 <= m
    OBVIOUS
  <2> QED BY <2>1, OneMore
<1>7. Cardinality(PromptsIn(c, 0, n)) =
         Cardinality(PromptsIn(c, 0, m)) + Cardinality(PromptsIn(c, m, n))
  BY <1>5, <1>6, DisjointUnion
<1> QED BY <1>2, <1>4, <1>6, <1>7 DEF s

\* A whole sequence of lines.
LEMMA FoldWhole ==
  ASSUME NEW a \in Fold, Counted(a), NEW c \in Seq(Lines), NEW p \in BOOLEAN,
         NEW r, r = FoldLines(a, c, p)
  PROVE  AddedUp(a, r, p, c, 0, Len(c))
<1> DEFINE n == Len(c)
<1>1. n \in Nat /\ 0 <= n /\ n <= Len(c) /\ 0 \in Nat
  OBVIOUS
<1>2. r = FoldLines(a, SubSeq(c, 0 + 1, n), p)
  <2>1. SubSeq(c, 0 + 1, Len(c)) = c
    BY SubSeqFull
  <2> QED BY <2>1
<1> HIDE DEF n
<1>3. AddedUp(a, r, p, c, 0, n)
  BY <1>1, <1>2, FoldLinesEffect
<1> QED BY <1>3 DEF n

\* A whole parent transcript, and lines m + 1 to n of one.
LEMMA FoldParent ==
  ASSUME NEW a \in Fold, Counted(a), NEW c \in Seq(Lines), NEW r, r = FoldLines(a, c, TRUE)
  PROVE  /\ r \in Fold /\ Counted(r) /\ r.seen = a.seen \cup IdsIn(c, 0, Len(c))
         /\ r.prompts = a.prompts + Cardinality(PromptsIn(c, 0, Len(c)))
<1>1. AddedUp(a, r, TRUE, c, 0, Len(c))
  BY FoldWhole
<1> QED BY <1>1 DEF AddedUp

LEMMA FoldParentOn ==
  ASSUME NEW a \in Fold, Counted(a), NEW c \in Seq(Lines), NEW m \in Nat, NEW n \in Nat,
         m <= n, n <= Len(c), NEW r, r = FoldLines(a, SubSeq(c, m + 1, n), TRUE)
  PROVE  r.prompts = a.prompts + Cardinality(PromptsIn(c, m, n))
<1>1. AddedUp(a, r, TRUE, c, m, n)
  BY FoldLinesEffect
<1> QED BY <1>1 DEF AddedUp

\* All the lines of the subagents.
LEMMA FoldSubagents ==
  ASSUME NEW a \in Fold, Counted(a), NEW c \in Seq(Lines), NEW r, r = FoldLines(a, c, FALSE)
  PROVE  /\ r \in Fold /\ Counted(r) /\ r.seen = a.seen \cup IdsIn(c, 0, Len(c))
         /\ r.prompts = a.prompts
<1>1. AddedUp(a, r, FALSE, c, 0, Len(c))
  BY FoldWhole
<1> QED BY <1>1 DEF AddedUp

\* No totals.
LEMMA NewFoldIsFold == NewFold \in Fold /\ Counted(NewFold)
<1>1. NewFold \in Fold
  BY DEF NewFold, Fold
<1>2. Counted(NewFold)
  BY FS_EmptySet DEF NewFold, Counted
<1> QED BY <1>1, <1>2

\* Where B and D have nothing in common and neither have B and A, what D adds
\* to both is what it adds to A.
LEMMA SameGrowth ==
  ASSUME NEW A, NEW B, NEW D, IsFiniteSet(A \cup B), IsFiniteSet(D),
         B \cap (A \cup D) = {}
  PROVE  Cardinality(A \cup D) =
            Cardinality(A) + (Cardinality((A \cup B) \cup D) - Cardinality(A \cup B))
<1> DEFINE new == D \ A
<1>1. IsFiniteSet(new) /\ IsFiniteSet(A)
  BY FS_Subset
<1>2. A \cup D = A \cup new /\ A \cap new = {}
  OBVIOUS
<1>3. (A \cup B) \cup D = (A \cup B) \cup new /\ (A \cup B) \cap new = {}
  OBVIOUS
<1> HIDE DEF new
<1> DEFINE AB == A \cup B
<1>4. Cardinality(A \cup D) = Cardinality(A) + Cardinality(new)
  BY <1>1, <1>2, DisjointUnion
<1>5. Cardinality(AB \cup D) = Cardinality(AB) + Cardinality(new)
  <2> HIDE DEF AB
  <2>1. IsFiniteSet(AB) /\ AB \cup D = AB \cup new /\ AB \cap new = {}
    BY <1>3 DEF AB
  <2> QED BY <1>1, <2>1, DisjointUnion
<1>6. Cardinality(A) \in Nat /\ Cardinality(new) \in Nat /\ Cardinality(AB) \in Nat
  BY <1>1, FS_CardinalityType
<1> HIDE DEF AB
<1>7. Cardinality(A \cup D) = Cardinality(A) + (Cardinality(AB \cup D) - Cardinality(AB))
  BY <1>4, <1>5, <1>6
<1> QED BY <1>7 DEF AB

-----------------------------------------------------------------------------
(* The inductive invariant.                                                *)

Held == {s \in Sessions : entry[s] # NoEntry}

\* A render is under way for one session, which the table holds, and what it
\* has read are transcripts of that session.
OneRender ==
    /\ phase = "idle" => serving = NoEntry /\ \A f \in Files : reads[f] = NoRead
    /\ phase # "idle" => serving \in Held
    /\ \A f \in Files : reads[f] # NoRead => f \in FilesOf(Path)
    /\ phase = "rereading" => \A f \in Files : entry[serving].offsets[f] = 0

\* Only a rewrite leaves a file shorter than what was read of it.
NoneShrunk ==
    rewrites = 0 => \A f \in Files : \A n \in Positions(f) : n <= Len(content[f])

\* A file, now c, found to have shrunk is still shorter than the entry says; of
\* one that had not, what was read starts where the entry ends, unless the file
\* was rewritten since.
Continues(read, offset, c) ==
    /\ read.rewalked => Len(c) < offset
    /\ ~read.rewalked =>
          /\ offset <= read.offset
          /\ read.offset <= Len(c) => read.lines = SubSeq(c, offset + 1, read.offset)

ReadsContinue ==
    \A f \in Files : reads[f] # NoRead =>
        Continues(reads[f], entry[serving].offsets[f], content[f])

FoldsCounted == \A s \in Held : Counted(entry[s].fold)

\* No file of the entry has shrunk unseen.
UpToDate(e, c) == \A f \in FilesOf(e.path) : e.offsets[f] <= Len(c[f])

\* The ids in what e has read of f.
IdsRead(e, c, f) == IdsIn(c[f], 0, e.offsets[f])

\* The totals of an entry in terms of what it has read, in any order.
Totals(e, c) ==
    /\ e.fold.seen = UNION {IdsRead(e, c, f) : f \in FilesOf(e.path)}
    /\ e.fold.prompts = Cardinality(PromptsIn(c[e.path], 0, e.offsets[e.path]))
    /\ (\A f \in SubagentsOf[e.path] : IdsRead(e, c, f) \cap IdsRead(e, c, e.path) = {})
          => e.parentTurns = Cardinality(IdsRead(e, c, e.path))

TotalsAreOfTheFiles ==
    \A s \in Held : UpToDate(entry[s], content) => Totals(entry[s], content)

\* The sessions that have read, or are reading, more of a file than there is.
Behind ==
    {s \in Held : \E f \in Files :
        \/ entry[s].offsets[f] > Len(content[f])
        \/ s = serving /\ reads[f] # NoRead /\ reads[f].offset > Len(content[f])}

\* Each rewrite is walked again for once by each session at most.
RewalksAreOwed ==
    rewalkCount + Cardinality(Behind) <= Cardinality(Sessions) * rewrites + switches

IInv ==
    /\ TypeOK
    /\ OneRender
    /\ NoneShrunk
    /\ ReadsContinue
    /\ FoldsCounted
    /\ TotalsAreOfTheFiles
    /\ RewalksAreOwed

-----------------------------------------------------------------------------
(* What the steps of a render do to an entry.                              *)

\* The parts of an entry.
LEMMA EntryFacts ==
  ASSUME NEW e \in Entry
  PROVE  /\ e.path \in Parents /\ e.path \in FilesOf(e.path) /\ FilesOf(e.path) \subseteq Files
         /\ SubagentsOf[e.path] \subseteq Files /\ SubagentsOf[e.path] \subseteq FilesOf(e.path)
         /\ e.offsets \in [Files -> Nat] /\ e.fold \in Fold /\ e.parentTurns \in Nat
<1>1. e.path \in Parents /\ e.offsets \in [Files -> Nat] /\ e.fold \in Fold /\ e.parentTurns \in Nat
  BY DEF Entry
<1>2. SubagentsOf[e.path] \subseteq Subagents
  BY <1>1 DEF Subagents
<1> QED BY <1>1, <1>2 DEF FilesOf, Files

\* An entry that is new has read nothing, and its totals say so.
LEMMA NewEntryFacts ==
  ASSUME NEW p \in Parents, NEW c
  PROVE  /\ NewEntry(p) \in Entry /\ NewEntry(p) # NoEntry /\ NewEntry(p).path = p
         /\ NewEntry(p).offsets = [f \in Files |-> 0]
         /\ Counted(NewEntry(p).fold)
         /\ Totals(NewEntry(p), c)
<1> DEFINE e == NewEntry(p)
<1>1. e.path = p /\ e.offsets = [f \in Files |-> 0] /\ e.fold = NewFold /\ e.parentTurns = 0
  BY DEF NewEntry
<1>2. NewFold \in Fold /\ Counted(NewFold)
  BY NewFoldIsFold
<1>3. e \in Entry
  BY <1>2 DEF NewEntry, Entry
<1>4. e # NoEntry
  BY <1>3, AbsenceAssumption
<1>5. \A f \in FilesOf(p) : IdsRead(e, c, f) = {}
  <2>1. FilesOf(p) \subseteq Files
    BY <1>1, <1>3, EntryFacts
  <2>2. \A f \in FilesOf(p) : e.offsets[f] = 0
    BY <1>1, <2>1
  <2>3. \A f \in FilesOf(p) : IdsIn(c[f], 0, 0) = {}
    BY NoneIn
  <2> QED BY <2>2, <2>3 DEF IdsRead
<1>6. PromptsIn(c[p], 0, e.offsets[p]) = {}
  <2>1. e.offsets[p] = 0
    BY <1>1 DEF Files
  <2>2. PromptsIn(c[p], 0, 0) = {}
    BY NoneIn
  <2> QED BY <2>1, <2>2
<1>7. Cardinality({}) = 0
  BY FS_EmptySet
<1>8. p \in FilesOf(p)
  BY DEF FilesOf
<1>9. NewFold.seen = {} /\ NewFold.prompts = 0
  BY DEF NewFold
<1> HIDE DEF e
<1>10. Totals(e, c)
  BY <1>1, <1>5, <1>6, <1>7, <1>8, <1>9 DEF Totals
<1> QED BY <1>1, <1>2, <1>3, <1>4, <1>10 DEF e

\* The ids in the subagents' lines are those in each of their files.
LEMMA SubagentIds ==
  ASSUME NEW p \in Parents, NEW linesOf, \A f \in SubagentsOf[p] : linesOf[f] \in Seq(Lines),
         NEW all, all = SubagentLines(p, linesOf)
  PROVE  /\ all \in Seq(Lines)
         /\ IdsIn(all, 0, Len(all)) =
              UNION {IdsIn(linesOf[f], 0, Len(linesOf[f])) : f \in SubagentsOf[p]}
<1> DEFINE T == SubagentsOf[p]
           IdsOf(r) == {l.id : l \in {x \in r : x.kind = "turn"}}
           held == UNION {Range(linesOf[f]) : f \in T}
           ids == UNION {IdsOf(Range(linesOf[f])) : f \in T}
<1>1. all \in Seq(Lines) /\ Range(all) = held
  BY SubagentLinesHold
<1>2. \A f \in T : IdsIn(linesOf[f], 0, Len(linesOf[f])) = IdsOf(Range(linesOf[f]))
  BY IdsInRange
<1>3. IdsIn(all, 0, Len(all)) = IdsOf(held)
  BY <1>1, IdsInRange
<1>4. IdsOf(held) = ids
  <2>1. ASSUME NEW i \in IdsOf(held) PROVE i \in ids
    <3>1. PICK x \in held : x.kind = "turn" /\ i = x.id
      OBVIOUS
    <3>2. PICK f \in T : x \in Range(linesOf[f])
      BY <3>1
    <3> QED BY <3>1, <3>2
  <2>2. ASSUME NEW i \in ids PROVE i \in IdsOf(held)
    <3>1. PICK f \in T : i \in IdsOf(Range(linesOf[f]))
      OBVIOUS
    <3>2. PICK x \in Range(linesOf[f]) : x.kind = "turn" /\ i = x.id
      BY <3>1
    <3> QED BY <3>1, <3>2
  <2> QED BY <2>1, <2>2
<1> HIDE DEF IdsOf, T
<1>5. ids = UNION {IdsIn(linesOf[f], 0, Len(linesOf[f])) : f \in T}
  BY <1>2
<1> HIDE DEF ids, held
<1> QED BY <1>1, <1>3, <1>4, <1>5 DEF T

\* The totals once the parent's lines are in.
ParentFolded(e) == FoldLines(e.fold, reads[e.path].lines, TRUE)

\* Folding what was read makes an entry of an entry.
LEMMA FoldedEntry ==
  ASSUME NEW e \in Entry, Counted(e.fold), \A f \in FilesOf(e.path) : reads[f] \in Read
  PROVE  /\ ParentFolded(e) \in Fold /\ Counted(ParentFolded(e))
         /\ ParentFolded(e).seen = e.fold.seen \cup
               IdsIn(reads[e.path].lines, 0, Len(reads[e.path].lines))
         /\ Folded(e) \in Entry /\ Folded(e).path = e.path /\ Counted(Folded(e).fold)
         /\ \A f \in FilesOf(e.path) : Folded(e).offsets[f] = reads[f].offset
         /\ \A f \in Files \ FilesOf(e.path) : Folded(e).offsets[f] = e.offsets[f]
         /\ Folded(e).fold.seen = ParentFolded(e).seen \cup
               UNION {IdsIn(reads[f].lines, 0, Len(reads[f].lines)) : f \in SubagentsOf[e.path]}
         /\ Folded(e).fold.prompts = ParentFolded(e).prompts
         /\ Folded(e).parentTurns = e.parentTurns + (ParentFolded(e).turns - e.fold.turns)
<1> DEFINE p == e.path
           linesOf == [f \in FilesOf(p) |-> reads[f].lines]
           P == ParentFolded(e)
           F == FoldLines(P, SubagentLines(p, linesOf), FALSE)
           offsets == [f \in Files |-> IF f \in FilesOf(p) THEN reads[f].offset ELSE e.offsets[f]]
           turns == e.parentTurns + (P.turns - e.fold.turns)
<1>1. /\ p \in Parents /\ p \in FilesOf(p) /\ FilesOf(p) \subseteq Files
      /\ SubagentsOf[p] \subseteq FilesOf(p)
      /\ e.offsets \in [Files -> Nat] /\ e.fold \in Fold /\ e.parentTurns \in Nat
  BY EntryFacts
<1>2. \A f \in FilesOf(p) : reads[f].lines \in Seq(Lines) /\ reads[f].offset \in Nat
  BY DEF Read
<1>3. Folded(e) = [e EXCEPT !.offsets = offsets, !.fold = F, !.parentTurns = turns]
  <2>1. linesOf[p] = reads[p].lines
    BY <1>1
  <2> QED BY <2>1 DEF Folded, ParentFolded
<1>4. /\ P \in Fold /\ Counted(P)
      /\ P.seen = e.fold.seen \cup IdsIn(reads[p].lines, 0, Len(reads[p].lines))
  <2> DEFINE lines == reads[p].lines
             old == e.fold
  <2>1. lines \in Seq(Lines) /\ old \in Fold /\ Counted(old)
    BY <1>1, <1>2
  <2>2. P = FoldLines(old, lines, TRUE)
    BY DEF ParentFolded
  <2> HIDE DEF lines, old, P
  <2>3. P \in Fold /\ Counted(P) /\ P.seen = old.seen \cup IdsIn(lines, 0, Len(lines))
    BY <2>1, <2>2, FoldParent
  <2> QED BY <2>3 DEF lines, old
<1> HIDE DEF P
<1> DEFINE all == SubagentLines(p, linesOf)
<1>5. \A f \in FilesOf(p) : linesOf[f] = reads[f].lines /\ linesOf[f] \in Seq(Lines)
  BY <1>2
<1>6. /\ all \in Seq(Lines)
      /\ IdsIn(all, 0, Len(all)) =
           UNION {IdsIn(reads[f].lines, 0, Len(reads[f].lines)) : f \in SubagentsOf[p]}
  <2> HIDE DEF linesOf
  <2>1. /\ all \in Seq(Lines)
        /\ IdsIn(all, 0, Len(all)) =
             UNION {IdsIn(linesOf[f], 0, Len(linesOf[f])) : f \in SubagentsOf[p]}
    BY <1>1, <1>5, SubagentIds
  <2>2. UNION {IdsIn(linesOf[f], 0, Len(linesOf[f])) : f \in SubagentsOf[p]} =
          UNION {IdsIn(reads[f].lines, 0, Len(reads[f].lines)) : f \in SubagentsOf[p]}
    BY <1>1, <1>5
  <2> QED BY <2>1, <2>2
<1> HIDE DEF all, linesOf
<1>7. F \in Fold /\ Counted(F) /\ F.seen = P.seen \cup IdsIn(all, 0, Len(all)) /\ F.prompts = P.prompts
  <2>1. F = FoldLines(P, all, FALSE)
    BY DEF all
  <2> HIDE DEF F
  <2> QED BY <1>4, <1>6, <2>1, FoldSubagents
<1> HIDE DEF F
<1>8. turns \in Nat
  <2>1. e.fold.seen \subseteq P.seen /\ IsFiniteSet(P.seen)
    BY <1>4 DEF Counted
  <2>2. Cardinality(e.fold.seen) <= Cardinality(P.seen)
    BY <2>1, FS_Subset
  <2>3. e.fold.turns \in Nat /\ P.turns \in Nat
    BY <1>1, <1>4 DEF Fold
  <2>4. e.fold.turns <= P.turns
    BY <1>4, <2>2 DEF Counted
  <2> QED BY <1>1, <2>3, <2>4
<1>9. offsets \in [Files -> Nat]
  BY <1>1, <1>2
<1>10. /\ Folded(e).offsets = offsets /\ Folded(e).fold = F /\ Folded(e).parentTurns = turns
       /\ Folded(e).path = p /\ Folded(e) \in Entry
  <2> HIDE DEF offsets, turns
  <2> QED BY <1>3, <1>7, <1>8, <1>9 DEF Entry
<1>11. /\ \A f \in FilesOf(p) : offsets[f] = reads[f].offset
       /\ \A f \in Files \ FilesOf(p) : offsets[f] = e.offsets[f]
  BY <1>1
<1> HIDE DEF offsets
<1> QED BY <1>4, <1>6, <1>7, <1>10, <1>11 DEF P

\* What was read of a file after what the entry had read of it is what the
\* entry has read of it once the reads are folded.
LEMMA IdsReadOn ==
  ASSUME NEW c \in Seq(Lines), NEW read \in Read, NEW offset \in Nat,
         ~read.rewalked, Continues(read, offset, c), read.offset <= Len(c)
  PROVE  /\ offset <= read.offset /\ read.lines = SubSeq(c, offset + 1, read.offset)
         /\ IdsIn(c, 0, read.offset) =
              IdsIn(c, 0, offset) \cup IdsIn(read.lines, 0, Len(read.lines))
<1> DEFINE n == read.offset
<1>1. n \in Nat
  BY DEF Read
<1>2. offset <= n /\ n <= Len(c) /\ read.lines = SubSeq(c, offset + 1, n)
  BY DEF Continues
<1> HIDE DEF n
<1>3. /\ IdsIn(SubSeq(c, offset + 1, n), 0, Len(SubSeq(c, offset + 1, n))) = IdsIn(c, offset, n)
      /\ IdsIn(c, 0, n) = IdsIn(c, 0, offset) \cup IdsIn(c, offset, n)
  BY <1>1, <1>2, Adjacent
<1> QED BY <1>2, <1>3 DEF n

\* Folding what was read keeps the totals right.
LEMMA FoldedTotals ==
  ASSUME NEW e \in Entry, Counted(e.fold), NEW c \in [Files -> Seq(Lines)],
         \A f \in FilesOf(e.path) : /\ reads[f] \in Read /\ ~reads[f].rewalked
                                    /\ Continues(reads[f], e.offsets[f], c[f]),
         UpToDate(e, c) => Totals(e, c),
         UpToDate(Folded(e), c)
  PROVE  Totals(Folded(e), c)
<1> DEFINE p == e.path
           T == SubagentsOf[p]
           new == Folded(e)
           P == ParentFolded(e)
           D(f) == IdsIn(reads[f].lines, 0, Len(reads[f].lines))
           Old(f) == IdsRead(e, c, f)
           New(f) == IdsRead(new, c, f)
<1>1. /\ p \in Parents /\ p \in FilesOf(p) /\ FilesOf(p) \subseteq Files
      /\ T \subseteq FilesOf(p) /\ FilesOf(p) = {p} \cup T
      /\ e.offsets \in [Files -> Nat] /\ e.fold \in Fold /\ e.parentTurns \in Nat
  BY EntryFacts DEF FilesOf
<1>2. /\ P \in Fold /\ Counted(P) /\ P.seen = e.fold.seen \cup D(p)
      /\ new \in Entry /\ new.path = p
      /\ \A f \in FilesOf(p) : new.offsets[f] = reads[f].offset
      /\ new.fold.seen = P.seen \cup UNION {D(f) : f \in T}
      /\ new.fold.prompts = P.prompts
      /\ new.parentTurns = e.parentTurns + (P.turns - e.fold.turns)
  BY FoldedEntry
<1> HIDE DEF new
<1>3. \A f \in FilesOf(p) : /\ e.offsets[f] \in Nat /\ reads[f].offset \in Nat
                            /\ c[f] \in Seq(Lines) /\ reads[f].offset <= Len(c[f])
  BY <1>1, <1>2 DEF Read, UpToDate, new
<1>4. \A f \in FilesOf(p) :
         /\ e.offsets[f] <= reads[f].offset
         /\ reads[f].lines = SubSeq(c[f], e.offsets[f] + 1, reads[f].offset)
         /\ New(f) = Old(f) \cup D(f)
  <2> SUFFICES ASSUME NEW f \in FilesOf(p)
               PROVE  /\ e.offsets[f] <= reads[f].offset
                      /\ reads[f].lines = SubSeq(c[f], e.offsets[f] + 1, reads[f].offset)
                      /\ New(f) = Old(f) \cup D(f)
    OBVIOUS
  <2> DEFINE r == reads[f]
             o == e.offsets[f]
             cf == c[f]
  <2>1. r \in Read /\ ~r.rewalked /\ Continues(r, o, cf) /\ o \in Nat /\ cf \in Seq(Lines)
        /\ r.offset <= Len(cf)
    BY <1>3
  <2>2. New(f) = IdsIn(cf, 0, r.offset) /\ Old(f) = IdsIn(cf, 0, o)
    BY <1>2 DEF IdsRead
  <2> HIDE DEF r, o, cf, New, Old
  <2>3. /\ o <= r.offset /\ r.lines = SubSeq(cf, o + 1, r.offset)
        /\ IdsIn(cf, 0, r.offset) = IdsIn(cf, 0, o) \cup IdsIn(r.lines, 0, Len(r.lines))
    BY <2>1, IdsReadOn
  <2> QED BY <2>2, <2>3 DEF r, o, cf
<1>5. UpToDate(e, c)
  <2> SUFFICES ASSUME NEW f \in FilesOf(p) PROVE e.offsets[f] <= Len(c[f])
    BY DEF UpToDate
  <2> QED BY <1>3, <1>4
<1>6. /\ e.fold.seen = UNION {Old(f) : f \in FilesOf(p)}
      /\ e.fold.prompts = Cardinality(PromptsIn(c[p], 0, e.offsets[p]))
      /\ (\A f \in T : Old(f) \cap Old(p) = {}) => e.parentTurns = Cardinality(Old(p))
  BY <1>5 DEF Totals
<1>7. new.fold.seen = UNION {New(f) : f \in FilesOf(p)}
  <2> HIDE DEF New, Old, D, P, p, T
  <2>1. UNION {New(f) : f \in FilesOf(p)} =
          (UNION {Old(f) : f \in FilesOf(p)}) \cup UNION {D(f) : f \in FilesOf(p)}
    BY <1>4
  <2>2. UNION {D(f) : f \in FilesOf(p)} = D(p) \cup UNION {D(f) : f \in T}
    BY <1>1
  <2> QED BY <1>2, <1>6, <2>1, <2>2
<1>8. new.fold.prompts = Cardinality(PromptsIn(c[p], 0, new.offsets[p]))
  <2> DEFINE o == e.offsets[p]
             n == reads[p].offset
             cp == c[p]
             old == e.fold
  <2>1. /\ o \in Nat /\ n \in Nat /\ o <= n /\ n <= Len(cp) /\ cp \in Seq(Lines)
        /\ P = FoldLines(old, SubSeq(cp, o + 1, n), TRUE)
        /\ old \in Fold /\ Counted(old)
    BY <1>1, <1>3, <1>4 DEF ParentFolded
  <2>2. old.prompts = Cardinality(PromptsIn(cp, 0, o)) /\ new.offsets[p] = n
    BY <1>1, <1>2, <1>6
  <2> HIDE DEF o, n, cp, old, P
  <2>3. P.prompts = old.prompts + Cardinality(PromptsIn(cp, o, n))
    BY <2>1, FoldParentOn
  <2>4. Cardinality(PromptsIn(cp, 0, n)) =
           Cardinality(PromptsIn(cp, 0, o)) + Cardinality(PromptsIn(cp, o, n))
    BY <2>1, Adjacent
  <2>5. P.prompts = Cardinality(PromptsIn(cp, 0, n))
    BY <2>2, <2>3, <2>4
  <2> QED BY <1>2, <2>2, <2>5 DEF cp
<1>9. ASSUME \A f \in T : New(f) \cap New(p) = {} PROVE new.parentTurns = Cardinality(New(p))
  <2> DEFINE A == Old(p)
             B == UNION {Old(f) : f \in T}
  <2> HIDE DEF New, Old, D, P
  <2>1. New(p) = A \cup D(p) /\ \A f \in T : Old(f) \subseteq New(f)
    BY <1>1, <1>4
  <2>2. B \cap (A \cup D(p)) = {}
    BY <1>9, <2>1
  <2>3. e.fold.seen = A \cup B
    BY <1>1, <1>6
  <2>4. \A f \in T : Old(f) \cap A = {}
    BY <1>9, <2>1
  <2>5. e.parentTurns = Cardinality(A)
    BY <1>6, <2>4
  <2>6. /\ P.turns = Cardinality((A \cup B) \cup D(p)) /\ e.fold.turns = Cardinality(A \cup B)
        /\ IsFiniteSet(A \cup B) /\ IsFiniteSet((A \cup B) \cup D(p))
    BY <1>2, <2>3 DEF Counted
  <2> DEFINE Dp == D(p)
  <2> HIDE DEF A, B, Dp
  <2>7. Cardinality(A \cup Dp) = Cardinality(A) + (Cardinality((A \cup B) \cup Dp) - Cardinality(A \cup B))
    <3>1. IsFiniteSet(Dp)
      BY <2>6, FS_Subset DEF Dp
    <3>2. IsFiniteSet(A \cup B) /\ B \cap (A \cup Dp) = {}
      BY <2>2, <2>6 DEF Dp
    <3> QED BY <3>1, <3>2, SameGrowth
  <2> QED BY <1>2, <2>1, <2>5, <2>6, <2>7 DEF Dp
<1> HIDE DEF P, D, Old
<1>10. /\ new.fold.seen = UNION {IdsRead(new, c, f) : f \in FilesOf(new.path)}
       /\ new.fold.prompts = Cardinality(PromptsIn(c[new.path], 0, new.offsets[new.path]))
       /\ (\A f \in SubagentsOf[new.path] : IdsRead(new, c, f) \cap IdsRead(new, c, new.path) = {})
             => new.parentTurns = Cardinality(IdsRead(new, c, new.path))
  BY <1>2, <1>7, <1>8, <1>9
<1> HIDE DEF p, T
<1> QED BY <1>10 DEF Totals, new

-----------------------------------------------------------------------------
(* The steps of the harness.                                               *)

\* What the entries and the reads of a state are.
LEMMA StateFacts ==
  ASSUME TypeOK
  PROVE  /\ \A s \in Held : entry[s] \in Entry /\ s \in Sessions
         /\ \A f \in Files : /\ content[f] \in Seq(Lines) /\ Len(content[f]) \in Nat
                             /\ reads[f] # NoRead => reads[f] \in Read /\ reads[f].offset \in Nat
                             /\ Positions(f) \subseteq Nat
         /\ \A s \in Held : \A f \in Files : /\ entry[s].offsets[f] \in Nat
                                             /\ entry[s].offsets[f] \in Positions(f)
         /\ \A f \in Files : reads[f] # NoRead => reads[f].offset \in Positions(f)
<1>1. \A s \in Held : entry[s] \in Entry /\ s \in Sessions
  BY DEF Held, TypeOK
<1>2. \A f \in Files : /\ content[f] \in Seq(Lines) /\ Len(content[f]) \in Nat
                       /\ reads[f] # NoRead => reads[f] \in Read /\ reads[f].offset \in Nat
  BY DEF TypeOK, Read
<1>3. \A s \in Held : entry[s].offsets \in [Files -> Nat]
  BY <1>1, EntryFacts
<1>4. \A f \in Files : Positions(f) =
         {entry[s].offsets[f] : s \in Held} \cup (IF reads[f] = NoRead THEN {} ELSE {reads[f].offset})
  BY DEF Positions, Held
<1>5. \A s \in Held : \A f \in Files : /\ entry[s].offsets[f] \in Nat
                                       /\ entry[s].offsets[f] \in Positions(f)
  BY <1>3, <1>4
<1> QED BY <1>1, <1>2, <1>4, <1>5

\* The sessions that are behind can be counted.
LEMMA BehindIsFinite ==
  /\ Behind \subseteq Sessions /\ IsFiniteSet(Behind)
  /\ Cardinality(Behind) \in Nat /\ Cardinality(Sessions) \in Nat
  /\ Cardinality(Behind) <= Cardinality(Sessions)
<1>1. Behind \subseteq Sessions /\ IsFiniteSet(Sessions)
  BY ConstantsAssumption DEF Behind, Held
<1> QED BY <1>1, FS_Subset, FS_CardinalityType

\* What two versions of a file that agree up to n hold up to n.
LEMMA SamePrefix ==
  ASSUME NEW c \in Seq(Lines), NEW d \in Seq(Lines), NEW m \in Nat, NEW n \in Nat,
         n <= Len(c), n <= Len(d), \A i \in 1..n : d[i] = c[i]
  PROVE  /\ IdsIn(d, 0, n) = IdsIn(c, 0, n)
         /\ PromptsIn(d, 0, n) = PromptsIn(c, 0, n)
         /\ SubSeq(d, m + 1, n) = SubSeq(c, m + 1, n)
<1>1. (0+1)..n = 1..n
  OBVIOUS
<1>2. IdsIn(d, 0, n) = IdsIn(c, 0, n)
  <2>1. {j \in 1..n : d[j].kind = "turn"} = {j \in 1..n : c[j].kind = "turn"}
    OBVIOUS
  <2> QED BY <1>1, <2>1 DEF IdsIn
<1>3. PromptsIn(d, 0, n) = PromptsIn(c, 0, n)
  BY <1>1 DEF PromptsIn
<1>4. SubSeq(d, m + 1, n) = SubSeq(c, m + 1, n)
  <2>1. \A i \in 1..(1 + n - (m + 1)) : i + (m + 1) - 1 \in 1..n
    OBVIOUS
  <2>2. /\ SubSeq(d, m + 1, n) = [i \in 1..(1 + n - (m + 1)) |-> d[i + (m + 1) - 1]]
        /\ SubSeq(c, m + 1, n) = [i \in 1..(1 + n - (m + 1)) |-> c[i + (m + 1) - 1]]
    OBVIOUS
  <2> QED BY <2>1, <2>2
<1> QED BY <1>2, <1>3, <1>4

\* The totals depend on what was read of the files alone.
LEMMA SameTotals ==
  ASSUME NEW e \in Entry, NEW c \in [Files -> Seq(Lines)], NEW d \in [Files -> Seq(Lines)],
         UpToDate(e, c), UpToDate(e, d), Totals(e, c),
         \A f \in Files : \A i \in 1..e.offsets[f] : e.offsets[f] <= Len(d[f]) => d[f][i] = c[f][i]
  PROVE  Totals(e, d)
<1> DEFINE p == e.path
<1>1. /\ p \in FilesOf(p) /\ FilesOf(p) \subseteq Files /\ SubagentsOf[p] \subseteq FilesOf(p)
      /\ e.offsets \in [Files -> Nat]
  BY EntryFacts
<1>2. \A f \in FilesOf(p) : /\ IdsRead(e, d, f) = IdsRead(e, c, f)
                            /\ PromptsIn(d[f], 0, e.offsets[f]) = PromptsIn(c[f], 0, e.offsets[f])
  <2> SUFFICES ASSUME NEW f \in FilesOf(p)
               PROVE  /\ IdsIn(d[f], 0, e.offsets[f]) = IdsIn(c[f], 0, e.offsets[f])
                      /\ PromptsIn(d[f], 0, e.offsets[f]) = PromptsIn(c[f], 0, e.offsets[f])
    BY DEF IdsRead
  <2> DEFINE df == d[f]
             cf == c[f]
             n == e.offsets[f]
  <2>1. df \in Seq(Lines) /\ cf \in Seq(Lines) /\ n \in Nat
    BY <1>1
  <2>2. n <= Len(cf) /\ n <= Len(df) /\ \A i \in 1..n : df[i] = cf[i]
    BY <1>1 DEF UpToDate
  <2> HIDE DEF df, cf, n
  <2> QED BY <2>1, <2>2, SamePrefix DEF df, cf, n
<1>3. /\ e.fold.seen = UNION {IdsRead(e, c, f) : f \in FilesOf(p)}
      /\ e.fold.prompts = Cardinality(PromptsIn(c[p], 0, e.offsets[p]))
      /\ (\A f \in SubagentsOf[p] : IdsRead(e, c, f) \cap IdsRead(e, c, p) = {})
            => e.parentTurns = Cardinality(IdsRead(e, c, p))
  BY DEF Totals
<1>4. UNION {IdsRead(e, c, f) : f \in FilesOf(p)} = UNION {IdsRead(e, d, f) : f \in FilesOf(p)}
  BY <1>2
<1> QED BY <1>1, <1>2, <1>3, <1>4 DEF Totals

\* Whatever the harness does to the files, short of taking a file back past a
\* position of the server's and growing it there again, the tables stay right.
LEMMA HarnessStep ==
  ASSUME IInv, TypeOK', UNCHANGED serverVars, NoneShrunk', RewalksAreOwed',
         \A f \in Files : \A n \in Positions(f) : n <= Len(content'[f]) =>
            n <= Len(content[f]) /\ \A i \in 1..n : content'[f][i] = content[f][i]
  PROVE  IInv'
<1>1. /\ entry' = entry /\ rewalkCount' = rewalkCount /\ serving' = serving /\ phase' = phase
      /\ reads' = reads /\ switches' = switches /\ Held' = Held /\ Path' = Path
  BY DEF serverVars, Held, Path
<1>2. content \in [Files -> Seq(Lines)] /\ content' \in [Files -> Seq(Lines)]
  BY DEF IInv, TypeOK
<1>3. OneRender'
  BY <1>1 DEF IInv, OneRender
<1>4. FoldsCounted'
  BY <1>1 DEF IInv, FoldsCounted
<1>5. ReadsContinue'
  <2> SUFFICES ASSUME NEW f \in Files, reads[f] # NoRead
               PROVE  Continues(reads[f], entry[serving].offsets[f], content'[f])
    BY <1>1 DEF ReadsContinue
  <2> DEFINE r == reads[f]
             o == entry[serving].offsets[f]
             c == content[f]
             d == content'[f]
  <2>1. serving \in Held /\ Continues(r, o, c)
    BY DEF IInv, OneRender, ReadsContinue
  <2>2. /\ o \in Nat /\ r.offset \in Nat /\ c \in Seq(Lines) /\ d \in Seq(Lines)
        /\ o \in Positions(f) /\ r.offset \in Positions(f)
    BY <1>2, <2>1, StateFacts DEF IInv
  <2>3. /\ o <= Len(d) => o <= Len(c)
        /\ r.offset <= Len(d) => r.offset <= Len(c) /\ \A i \in 1..r.offset : d[i] = c[i]
    BY <2>2
  <2> HIDE DEF r, o, c, d
  <2>4. Len(c) \in Nat /\ Len(d) \in Nat
    BY <2>2
  <2>5. r.offset <= Len(d) => SubSeq(d, o + 1, r.offset) = SubSeq(c, o + 1, r.offset)
    BY <2>2, <2>3, SamePrefix
  <2>6. Continues(r, o, d)
    BY <2>1, <2>2, <2>3, <2>4, <2>5 DEF Continues
  <2> QED BY <2>6 DEF r, o, d
<1>6. TotalsAreOfTheFiles'
  <2> SUFFICES ASSUME NEW s \in Held, UpToDate(entry[s], content')
               PROVE  Totals(entry[s], content')
    BY <1>1 DEF TotalsAreOfTheFiles
  <2> DEFINE e == entry[s]
             d == content'
  <2>1. e \in Entry /\ \A f \in Files : e.offsets[f] \in Positions(f)
    BY StateFacts DEF IInv
  <2>2. \A f \in Files : \A i \in 1..e.offsets[f] :
           e.offsets[f] <= Len(d[f]) => d[f][i] = content[f][i]
    BY <2>1
  <2>3. UpToDate(e, content)
    BY <2>1, EntryFacts DEF UpToDate
  <2>4. Totals(e, content)
    BY <2>3 DEF IInv, TotalsAreOfTheFiles
  <2>5. UpToDate(e, d) /\ d \in [Files -> Seq(Lines)]
    BY <1>2
  <2> HIDE DEF e, d
  <2>6. Totals(e, d)
    BY <1>2, <2>1, <2>2, <2>3, <2>4, <2>5, SameTotals
  <2> QED BY <2>6 DEF e, d
<1> QED BY <1>3, <1>4, <1>5, <1>6 DEF IInv

LEMMA StartLineStep == ASSUME IInv, NEW f \in Files, StartLine(f) PROVE IInv'
<1>1. /\ UNCHANGED <<content, rewrites, entry, rewalkCount, serving, phase, reads, switches>>
      /\ torn' = torn \cup {f} /\ appends' = appends + 1 /\ appends < MaxAppends
  BY DEF StartLine, serverVars
<1>2. TypeOK'
  BY <1>1, ConstantsAssumption DEF IInv, TypeOK
<1>3. NoneShrunk' /\ RewalksAreOwed' /\ UNCHANGED serverVars
  BY <1>1 DEF IInv, NoneShrunk, Positions, RewalksAreOwed, Behind, Held, serverVars
<1>4. \A g \in Files : \A n \in Positions(g) : n <= Len(content'[g]) =>
         n <= Len(content[g]) /\ \A i \in 1..n : content'[g][i] = content[g][i]
  BY <1>1
<1> QED BY <1>2, <1>3, <1>4, HarnessStep

\* Where no session falls behind, a rewalk is one that was owed already or one
\* for a session resumed on another transcript.
LEMMA NoneFallsBehind ==
  ASSUME IInv, TypeOK', NEW B, B \subseteq Behind, B = Behind', NEW k \in Nat,
         rewrites' = rewrites, switches' = switches + k, rewalkCount' = rewalkCount + k
  PROVE  RewalksAreOwed'
<1>1. Cardinality(B) <= Cardinality(Behind) /\ Cardinality(B) \in Nat
  BY BehindIsFinite, FS_Subset, FS_CardinalityType
<1>2. rewalkCount \in Nat /\ switches \in Nat /\ rewrites \in Nat
  BY DEF IInv, TypeOK
<1> DEFINE owed == Cardinality(Sessions) * rewrites
<1>3. owed \in Nat
  BY <1>2, BehindIsFinite
<1>4. rewalkCount + Cardinality(Behind) <= owed + switches
  BY DEF IInv, RewalksAreOwed
<1> HIDE DEF owed
<1>5. (rewalkCount + k) + Cardinality(B) <= owed + (switches + k)
  BY <1>1, <1>2, <1>3, <1>4, BehindIsFinite
<1> QED BY <1>5 DEF owed, RewalksAreOwed

LEMMA FinishLineStep ==
  ASSUME IInv, NEW f \in Files, NEW line \in Lines, FinishLine(f, line) PROVE IInv'
<1>1. /\ UNCHANGED <<appends, rewrites, entry, rewalkCount, serving, phase, reads, switches>>
      /\ torn' = torn \ {f} /\ content' = [content EXCEPT ![f] = Append(@, line)]
      /\ rewrites = 0 \/ Len(content[f]) + 1 \notin Positions(f)
  BY DEF FinishLine, serverVars
<1>2. content \in [Files -> Seq(Lines)] /\ TypeOK
  BY DEF IInv, TypeOK
<1>3. \A g \in Files : /\ content'[g] \in Seq(Lines) /\ Len(content[g]) \in Nat
                       /\ \A i \in 1..Len(content[g]) : content'[g][i] = content[g][i]
                       /\ content'[g] = content[g]
                          \/ (g = f /\ Len(content'[g]) = Len(content[g]) + 1)
                       /\ Len(content[g]) <= Len(content'[g])
  <2> SUFFICES ASSUME NEW g \in Files
               PROVE  /\ content'[g] \in Seq(Lines) /\ Len(content[g]) \in Nat
                      /\ \A i \in 1..Len(content[g]) : content'[g][i] = content[g][i]
                      /\ content'[g] = content[g]
                         \/ (g = f /\ Len(content'[g]) = Len(content[g]) + 1)
                      /\ Len(content[g]) <= Len(content'[g])
    OBVIOUS
  <2> DEFINE c == content[g]
  <2>1. c \in Seq(Lines)
    BY <1>2
  <2>2. content'[g] = IF g = f THEN Append(c, line) ELSE c
    BY <1>1, <1>2
  <2> HIDE DEF c
  <2>3. /\ Append(c, line) \in Seq(Lines) /\ Len(Append(c, line)) = Len(c) + 1 /\ Len(c) \in Nat
        /\ \A i \in 1..Len(c) : Append(c, line)[i] = c[i]
    BY <2>1, AppendProperties
  <2> QED BY <2>1, <2>2, <2>3 DEF c
<1>4. TypeOK'
  <2>1. content' \in [Files -> Seq(Lines)]
    BY <1>1, <1>2, <1>3
  <2> QED BY <1>1, <2>1 DEF IInv, TypeOK
<1>5. NoneShrunk'
  <2>1. Positions(f)' = Positions(f) /\ \A g \in Files : Positions(g)' = Positions(g)
    BY <1>1 DEF Positions
  <2> SUFFICES ASSUME rewrites = 0, NEW g \in Files, NEW n \in Positions(g) PROVE n <= Len(content'[g])
    BY <1>1, <2>1 DEF NoneShrunk
  <2>2. n <= Len(content[g]) /\ n \in Nat
    BY <1>2, StateFacts DEF IInv, NoneShrunk
  <2>3. Len(content'[g]) \in Nat
    BY <1>3
  <2> QED BY <1>3, <2>2, <2>3
<1>6. RewalksAreOwed'
  <2>1. Behind' \subseteq Behind
    <3>1. Held' = Held
      BY <1>1 DEF Held
    <3>2. \A g \in Files : Len(content'[g]) \in Nat /\ Len(content[g]) \in Nat
                           /\ Len(content[g]) <= Len(content'[g])
      BY <1>3
    <3>3. \A s \in Held : \A g \in Files : entry[s].offsets[g] \in Nat
      BY <1>2, StateFacts
    <3>4. \A g \in Files : reads[g] # NoRead => reads[g].offset \in Nat
      BY <1>2, StateFacts
    <3> QED BY <1>1, <3>1, <3>2, <3>3, <3>4 DEF Behind
  <2>2. switches' = switches + 0 /\ rewalkCount' = rewalkCount + 0 /\ rewrites' = rewrites
    BY <1>1 DEF IInv, TypeOK
  <2> QED BY <1>4, <2>1, <2>2, NoneFallsBehind
<1>7. \A g \in Files : \A n \in Positions(g) : n <= Len(content'[g]) =>
         n <= Len(content[g]) /\ \A i \in 1..n : content'[g][i] = content[g][i]
  <2> SUFFICES ASSUME NEW g \in Files, NEW n \in Positions(g), n <= Len(content'[g])
               PROVE  n <= Len(content[g]) /\ \A i \in 1..n : content'[g][i] = content[g][i]
    OBVIOUS
  <2>1. n \in Nat /\ Len(content[g]) \in Nat
    BY <1>2, StateFacts
  <2>2. rewrites = 0 => n <= Len(content[g])
    BY DEF IInv, NoneShrunk
  <2>3. rewrites # 0 => ~(g = f /\ n = Len(content[g]) + 1)
    BY <1>1
  <2>4. n <= Len(content[g])
    BY <1>3, <2>1, <2>2, <2>3
  <2> QED BY <1>3, <2>1, <2>4
<1> QED BY <1>1, <1>4, <1>5, <1>6, <1>7, HarnessStep DEF serverVars

LEMMA RewriteStep ==
  ASSUME IInv, NEW f \in Files, NEW lines \in Seq(Lines), Rewrite(f, lines) PROVE IInv'
<1>1. /\ UNCHANGED <<appends, entry, rewalkCount, serving, phase, reads, switches>>
      /\ torn' = torn \ {f} /\ content' = [content EXCEPT ![f] = lines]
      /\ rewrites' = rewrites + 1 /\ rewrites < MaxRewrites
      /\ \A n \in Positions(f) : n = 0 \/ n > Len(lines)
  BY DEF Rewrite, serverVars
<1>2. content \in [Files -> Seq(Lines)] /\ rewrites \in Nat /\ rewalkCount \in Nat
      /\ switches \in Nat /\ TypeOK
  BY DEF IInv, TypeOK
<1>3. TypeOK'
  BY <1>1, ConstantsAssumption DEF IInv, TypeOK
<1>4. NoneShrunk'
  BY <1>1, <1>2 DEF NoneShrunk
<1>5. RewalksAreOwed'
  <2> DEFINE B == Behind'
             owed == Cardinality(Sessions) * rewrites
  <2>1. B \subseteq Sessions
    BY DEF Behind, Held
  <2>2. Cardinality(B) <= Cardinality(Sessions) /\ Cardinality(B) \in Nat
    <3> HIDE DEF B
    <3> QED BY <2>1, ConstantsAssumption, FS_Subset, FS_CardinalityType
  <2>3. rewalkCount + Cardinality(Behind) <= owed + switches
    BY DEF IInv, RewalksAreOwed
  <2>4. Cardinality(Sessions) * (rewrites + 1) = owed + Cardinality(Sessions) /\ owed \in Nat
    BY <1>2, BehindIsFinite
  <2> HIDE DEF B, owed
  <2>5. rewalkCount + Cardinality(B) <= (owed + Cardinality(Sessions)) + switches
    BY <1>2, <2>2, <2>3, <2>4, BehindIsFinite
  <2> QED BY <1>1, <2>4, <2>5 DEF RewalksAreOwed, B
<1>6. \A g \in Files : \A n \in Positions(g) : n <= Len(content'[g]) =>
         n <= Len(content[g]) /\ \A i \in 1..n : content'[g][i] = content[g][i]
  <2> SUFFICES ASSUME NEW g \in Files, NEW n \in Positions(g), n <= Len(content'[g])
               PROVE  n <= Len(content[g]) /\ \A i \in 1..n : content'[g][i] = content[g][i]
    OBVIOUS
  <2>1. n \in Nat /\ Len(content[g]) \in Nat /\ Len(lines) \in Nat
    BY <1>2, StateFacts
  <2>2. CASE g = f
    <3>1. content'[g] = lines
      BY <1>1, <1>2, <2>2
    <3>2. n = 0
      BY <1>1, <2>1, <2>2, <3>1
    <3> QED BY <2>1, <3>2
  <2>3. CASE g # f
    <3>1. content'[g] = content[g]
      BY <1>1, <1>2, <2>3
    <3> QED BY <3>1
  <2> QED BY <2>2, <2>3
<1> QED BY <1>1, <1>3, <1>4, <1>5, <1>6, HarnessStep DEF serverVars

-----------------------------------------------------------------------------
(* The steps of the server.                                                *)

LEMMA InitHolds == ASSUME Init PROVE IInv
<1>1. /\ content = [f \in Files |-> <<>>] /\ torn = {} /\ entry = [s \in Sessions |-> NoEntry]
      /\ rewalkCount = 0 /\ serving = NoEntry /\ phase = "idle"
      /\ reads = [f \in Files |-> NoRead] /\ appends = 0 /\ rewrites = 0 /\ switches = 0
  BY DEF Init
<1>2. TypeOK
  BY <1>1, ConstantsAssumption DEF TypeOK
<1>3. Held = {} /\ Behind = {}
  BY <1>1 DEF Held, Behind
<1>4. OneRender /\ ReadsContinue /\ FoldsCounted /\ TotalsAreOfTheFiles
  BY <1>1, <1>3 DEF OneRender, ReadsContinue, FoldsCounted, TotalsAreOfTheFiles
<1>5. NoneShrunk
  <2>1. \A f \in Files : Positions(f) = {}
    BY <1>1 DEF Positions
  <2> QED BY <2>1 DEF NoneShrunk
<1>6. RewalksAreOwed
  <2>1. Cardinality(Sessions) * rewrites = 0 /\ Cardinality(Behind) = 0
    BY <1>1, <1>3, BehindIsFinite, FS_EmptySet
  <2> QED BY <1>1, <2>1 DEF RewalksAreOwed
<1> QED BY <1>2, <1>4, <1>5, <1>6 DEF IInv

LEMMA BeginRenderStep ==
  ASSUME IInv, NEW s \in Sessions, NEW p \in Parents, BeginRender(s, p) PROVE IInv'
<1> DEFINE e == Touched(s, p)
           switched == entry[s] # NoEntry /\ entry[s].path # p
<1>1. /\ phase = "idle" /\ serving' = s /\ phase' = "reading" /\ entry' = [entry EXCEPT ![s] = e]
      /\ UNCHANGED <<content, torn, appends, rewrites, reads>>
      /\ \/ switched /\ switches < MaxSwitches /\ switches' = switches + 1
                     /\ rewalkCount' = rewalkCount + 1
         \/ ~switched /\ switches' = switches /\ rewalkCount' = rewalkCount
  BY DEF BeginRender, worldVars
<1>2. TypeOK /\ entry \in [Sessions -> Entry \cup {NoEntry}]
  BY DEF IInv, TypeOK
<1>3. /\ NewEntry(p) \in Entry /\ NewEntry(p) # NoEntry /\ NewEntry(p).path = p
      /\ NewEntry(p).offsets = [f \in Files |-> 0] /\ Counted(NewEntry(p).fold)
      /\ Totals(NewEntry(p), content)
  BY NewEntryFacts
<1>4. (e = NewEntry(p) \/ (e = entry[s] /\ s \in Held)) /\ e \in Entry /\ e # NoEntry
  BY <1>2, <1>3, AbsenceAssumption DEF Touched, Reset, Held
<1> HIDE DEF e
<1>5. Held' = Held \cup {s} /\ entry'[s] = e /\ \A t \in Sessions \ {s} : entry'[t] = entry[t]
  BY <1>1, <1>2, <1>4 DEF Held
<1>6. TypeOK'
  BY <1>1, <1>4, ConstantsAssumption DEF IInv, TypeOK
<1>7. \A f \in Files : reads[f] = NoRead
  BY <1>1 DEF IInv, OneRender
<1>8. OneRender' /\ ReadsContinue'
  BY <1>1, <1>5, <1>7 DEF OneRender, ReadsContinue
<1>9. \A f \in Files : e.offsets[f] = 0 \/ (s \in Held /\ e.offsets[f] = entry[s].offsets[f])
  BY <1>3, <1>4
<1>10. NoneShrunk'
  <2> SUFFICES ASSUME rewrites = 0, NEW f \in Files, NEW n \in Positions(f)' PROVE n <= Len(content[f])
    BY <1>1 DEF NoneShrunk
  <2>1. PICK t \in Held' : n = entry'[t].offsets[f]
    BY <1>1, <1>7 DEF Positions, Held
  <2>2. n = 0 \/ n \in Positions(f)
    BY <1>2, <1>5, <1>9, <2>1, StateFacts
  <2> QED BY <1>2, <2>2, StateFacts DEF IInv, NoneShrunk
<1>11. FoldsCounted'
  BY <1>3, <1>4, <1>5 DEF IInv, FoldsCounted, Held
<1>12. TotalsAreOfTheFiles'
  BY <1>1, <1>3, <1>4, <1>5 DEF IInv, TotalsAreOfTheFiles, Held
<1>13. RewalksAreOwed'
  <2>1. Behind' \subseteq Behind
    <3> SUFFICES ASSUME NEW t \in Held', NEW f \in Files, entry'[t].offsets[f] > Len(content[f])
                 PROVE  t \in Behind
      BY <1>1, <1>7 DEF Behind
    <3>1. Len(content[f]) \in Nat
      BY <1>2, StateFacts
    <3>2. t \in Held /\ entry[t].offsets[f] = entry'[t].offsets[f]
      BY <1>5, <1>9, <3>1 DEF Held
    <3> QED BY <3>2 DEF Behind
  <2>2. rewalkCount \in Nat /\ switches \in Nat
    BY <1>2 DEF TypeOK
  <2>3. \E k \in Nat : switches' = switches + k /\ rewalkCount' = rewalkCount + k
    BY <1>1, <2>2
  <2> QED BY <1>1, <1>6, <2>1, <2>3, NoneFallsBehind
<1> QED BY <1>6, <1>8, <1>10, <1>11, <1>12, <1>13 DEF IInv

LEMMA ReadFileStep == ASSUME IInv, NEW f \in Files, ReadFile(f) PROVE IInv'
<1> DEFINE o == IF phase = "rereading" THEN 0 ELSE entry[serving].offsets[f]
           r == ReadAppended(f, o)
           c == content[f]
<1>1. /\ phase # "idle" /\ f \in FilesOf(Path) /\ reads' = [reads EXCEPT ![f] = r]
      /\ UNCHANGED <<content, torn, appends, rewrites, entry, rewalkCount, serving, phase, switches>>
  BY DEF ReadFile, worldVars, Unread
<1>2. TypeOK /\ reads \in [Files -> Read \cup {NoRead}]
  BY DEF IInv, TypeOK
<1>3. serving \in Held /\ o = entry[serving].offsets[f] /\ o \in Nat /\ c \in Seq(Lines) /\ Len(c) \in Nat
  BY <1>1, <1>2, StateFacts DEF IInv, OneRender
<1> HIDE DEF o
<1>4. r.offset = Len(c) /\ r \in Read /\ Continues(r, o, c)
  <2> HIDE DEF c
  <2>1. \A n \in Nat : SubSeq(c, n + 1, Len(c)) \in Seq(Lines)
    <3> SUFFICES ASSUME NEW n \in Nat PROVE SubSeq(c, n + 1, Len(c)) \in Seq(Lines)
      OBVIOUS
    <3>1. \A i \in (n + 1)..Len(c) : c[i] \in Lines
      BY <1>3
    <3> QED BY <1>3, <3>1, SubSeqProperties
  <2>2. CASE Len(c) < o
    <3>1. r = [lines |-> SubSeq(c, 0 + 1, Len(c)), offset |-> Len(c), rewalked |-> TRUE]
      BY <2>2 DEF ReadAppended, c
    <3> QED BY <1>3, <2>1, <2>2, <3>1 DEF Read, Continues
  <2>3. CASE ~(Len(c) < o)
    <3>1. r = [lines |-> SubSeq(c, o + 1, Len(c)), offset |-> Len(c), rewalked |-> FALSE]
      <4>1. r = [lines |-> SubSeq(c, (IF Len(c) < o THEN 0 ELSE o) + 1, Len(c)),
                 offset |-> Len(c), rewalked |-> Len(c) < o]
        BY Zenon DEF ReadAppended, c
      <4>2. (Len(c) < o) = FALSE
        BY <1>3, <2>3
      <4> QED BY <4>1, <4>2, Zenon
    <3> HIDE DEF r
    <3>2. r.offset = Len(c) /\ r.lines = SubSeq(c, o + 1, r.offset) /\ ~r.rewalked /\ r \in Read
      BY <1>3, <2>1, <3>1 DEF Read
    <3>3. o <= r.offset
      BY <1>3, <2>3, <3>2
    <3> QED BY <3>2, <3>3 DEF Continues
  <2> QED BY <2>2, <2>3
<1> HIDE DEF r
<1>5. reads'[f] = r /\ r # NoRead /\ \A g \in Files \ {f} : reads'[g] = reads[g]
  BY <1>1, <1>2, <1>4, AbsenceAssumption
<1>6. TypeOK'
  BY <1>1, <1>4 DEF IInv, TypeOK
<1>7. Held' = Held /\ Path' = Path
  BY <1>1 DEF Held, Path
<1>8. OneRender'
  BY <1>1, <1>5, <1>7 DEF IInv, OneRender
<1>9. ReadsContinue'
  <2> SUFFICES ASSUME NEW g \in Files, reads'[g] # NoRead
               PROVE  Continues(reads'[g], entry[serving].offsets[g], content[g])
    BY <1>1 DEF ReadsContinue
  <2>1. CASE g = f
    BY <1>3, <1>4, <1>5, <2>1
  <2>2. CASE g # f
    BY <1>5, <2>2 DEF IInv, ReadsContinue
  <2> QED BY <2>1, <2>2
<1>10. NoneShrunk'
  <2> SUFFICES ASSUME rewrites = 0, NEW g \in Files, NEW n \in Positions(g)' PROVE n <= Len(content[g])
    BY <1>1 DEF NoneShrunk
  <2>1. n \in Positions(g) \/ (g = f /\ n = Len(c))
    BY <1>1, <1>4, <1>5 DEF Positions
  <2> QED BY <1>3, <2>1 DEF IInv, NoneShrunk
<1>11. FoldsCounted' /\ TotalsAreOfTheFiles'
  BY <1>1, <1>7 DEF IInv, FoldsCounted, TotalsAreOfTheFiles
<1>12. RewalksAreOwed'
  <2>1. Behind' \subseteq Behind
    <3> SUFFICES ASSUME NEW t \in Held, NEW g \in Files,
                        \/ entry[t].offsets[g] > Len(content[g])
                        \/ t = serving /\ reads'[g] # NoRead /\ reads'[g].offset > Len(content[g])
                 PROVE  t \in Behind
      BY <1>1, <1>7 DEF Behind
    <3>1. CASE g = f
      BY <1>3, <1>4, <1>5, <3>1 DEF Behind
    <3>2. CASE g # f
      BY <1>5, <3>2 DEF Behind
    <3> QED BY <3>1, <3>2
  <2>2. switches' = switches + 0 /\ rewalkCount' = rewalkCount + 0 /\ rewrites' = rewrites
    BY <1>1 DEF IInv, TypeOK
  <2> QED BY <1>6, <2>1, <2>2, NoneFallsBehind
<1> QED BY <1>6, <1>8, <1>9, <1>10, <1>11, <1>12 DEF IInv

LEMMA ResetEntryStep == ASSUME IInv, ResetEntry PROVE IInv'
<1> DEFINE e == entry[serving]
           new == NewEntry(e.path)
<1>1. /\ phase = "reading" /\ phase' = "rereading" /\ Unread = {} /\ Shrunk
      /\ entry' = [entry EXCEPT ![serving] = new] /\ rewalkCount' = rewalkCount + 1
      /\ reads' = [f \in Files |-> NoRead]
      /\ UNCHANGED <<content, torn, appends, rewrites, serving, switches>>
  BY DEF ResetEntry, worldVars, Reset
<1>2. TypeOK /\ entry \in [Sessions -> Entry \cup {NoEntry}] /\ serving \in Held /\ e \in Entry
  BY <1>1, StateFacts DEF IInv, TypeOK, OneRender
<1>3. e.path \in Parents /\ Path = e.path /\ FilesOf(e.path) \subseteq Files
  BY <1>2, EntryFacts DEF Path
<1>4. /\ new \in Entry /\ new # NoEntry /\ new.path = e.path
      /\ new.offsets = [f \in Files |-> 0] /\ Counted(new.fold) /\ Totals(new, content)
  BY <1>3, NewEntryFacts
<1> HIDE DEF new
<1>5. /\ Held' = Held /\ entry'[serving] = new
      /\ \A t \in Held \ {serving} : entry'[t] = entry[t]
      /\ \A f \in Files : reads'[f] = NoRead
  BY <1>1, <1>2, <1>4 DEF Held
<1>6. TypeOK'
  <2>1. rewalkCount' \in Nat
    BY <1>1 DEF IInv, TypeOK
  <2> QED BY <1>1, <1>4, <2>1 DEF IInv, TypeOK
<1>7. OneRender' /\ ReadsContinue'
  BY <1>1, <1>2, <1>4, <1>5 DEF OneRender, ReadsContinue
<1>8. NoneShrunk'
  <2> SUFFICES ASSUME rewrites = 0, NEW f \in Files, NEW n \in Positions(f)' PROVE n <= Len(content[f])
    BY <1>1 DEF NoneShrunk
  <2>1. PICK t \in Held : n = entry'[t].offsets[f]
    BY <1>5 DEF Positions, Held
  <2>2. n = 0 \/ n \in Positions(f)
    BY <1>2, <1>4, <1>5, <2>1, StateFacts
  <2> QED BY <1>2, <2>2, StateFacts DEF IInv, NoneShrunk
<1>9. FoldsCounted' /\ TotalsAreOfTheFiles'
  BY <1>1, <1>4, <1>5 DEF IInv, FoldsCounted, TotalsAreOfTheFiles
<1>10. RewalksAreOwed'
  <2> DEFINE B == Behind'
  <2>1. serving \in Behind
    <3>1. PICK f \in FilesOf(e.path) : reads[f].rewalked
      BY <1>1, <1>3 DEF Shrunk
    <3>2. reads[f] # NoRead /\ f \in Files
      BY <1>1, <1>3 DEF Unread
    <3>3. Len(content[f]) < e.offsets[f]
      BY <3>1, <3>2 DEF IInv, ReadsContinue, Continues
    <3>4. Len(content[f]) \in Nat /\ e.offsets[f] \in Nat
      BY <1>2, <3>2, StateFacts
    <3> QED BY <1>2, <3>2, <3>3, <3>4 DEF Behind
  <2>2. B \subseteq Behind \ {serving}
    <3> SUFFICES ASSUME NEW t \in Held, NEW f \in Files, entry'[t].offsets[f] > Len(content[f])
                 PROVE  t \in Behind /\ t # serving
      BY <1>1, <1>5 DEF Behind
    <3>1. Len(content[f]) \in Nat
      BY <1>2, StateFacts
    <3>2. t # serving
      BY <1>4, <1>5, <3>1
    <3>3. entry'[t] = entry[t]
      BY <1>5, <3>2
    <3> QED BY <3>2, <3>3 DEF Behind
  <2> HIDE DEF B
  <2>3. /\ IsFiniteSet(Behind \ {serving})
        /\ Cardinality(Behind \ {serving}) = Cardinality(Behind) - 1
    BY <2>1, BehindIsFinite, FS_RemoveElement
  <2>4. Cardinality(B) \in Nat /\ Cardinality(B) <= Cardinality(Behind) - 1
    BY <2>2, <2>3, FS_Subset, FS_CardinalityType
  <2>5. rewalkCount \in Nat /\ switches \in Nat /\ rewrites \in Nat
    BY <1>2 DEF TypeOK
  <2> DEFINE owed == Cardinality(Sessions) * rewrites
  <2>6. owed \in Nat
    BY <2>5, BehindIsFinite
  <2>7. rewalkCount + Cardinality(Behind) <= owed + switches
    BY DEF IInv, RewalksAreOwed
  <2> HIDE DEF owed
  <2>8. (rewalkCount + 1) + Cardinality(B) <= owed + switches
    BY <2>4, <2>5, <2>6, <2>7, BehindIsFinite
  <2> QED BY <1>1, <2>8 DEF B, owed, RewalksAreOwed
<1> QED BY <1>6, <1>7, <1>8, <1>9, <1>10 DEF IInv

LEMMA FoldReadsStep == ASSUME IInv, FoldReads PROVE IInv'
<1> DEFINE e == entry[serving]
           new == Folded(e)
<1>1. /\ phase # "idle" /\ phase' = "idle" /\ Unread = {} /\ (phase = "reading" => ~Shrunk)
      /\ entry' = [entry EXCEPT ![serving] = new] /\ serving' = NoEntry
      /\ reads' = [f \in Files |-> NoRead]
      /\ UNCHANGED <<content, torn, appends, rewrites, rewalkCount, switches>>
  BY DEF FoldReads, worldVars
<1>2. TypeOK /\ entry \in [Sessions -> Entry \cup {NoEntry}] /\ serving \in Held /\ e \in Entry
  BY <1>1, StateFacts DEF IInv, TypeOK, OneRender
<1>3. Path = e.path /\ FilesOf(e.path) \subseteq Files /\ Counted(e.fold)
      /\ content \in [Files -> Seq(Lines)]
  BY <1>2, EntryFacts DEF Path, IInv, FoldsCounted, TypeOK
<1>4. \A f \in FilesOf(e.path) :
         reads[f] \in Read /\ ~reads[f].rewalked /\ Continues(reads[f], e.offsets[f], content[f])
  <2> SUFFICES ASSUME NEW f \in FilesOf(e.path)
               PROVE  reads[f] \in Read /\ ~reads[f].rewalked
                      /\ Continues(reads[f], e.offsets[f], content[f])
    OBVIOUS
  <2>1. f \in Files /\ reads[f] # NoRead
    BY <1>1, <1>3 DEF Unread
  <2>2. reads[f] \in Read /\ Continues(reads[f], e.offsets[f], content[f])
    BY <1>2, <2>1, StateFacts DEF IInv, ReadsContinue
  <2>3. ~reads[f].rewalked
    <3>1. CASE phase = "reading"
      BY <1>1, <1>3, <3>1 DEF Shrunk
    <3>2. CASE phase = "rereading"
      <4>1. e.offsets[f] = 0 /\ Len(content[f]) \in Nat
        BY <1>2, <2>1, <3>2, StateFacts DEF IInv, OneRender
      <4>2. ~(Len(content[f]) < e.offsets[f])
        BY <4>1
      <4> QED BY <2>2, <4>2 DEF Continues
    <3> QED BY <1>1, <1>2, <3>1, <3>2 DEF TypeOK
  <2> QED BY <2>2, <2>3
<1>5. /\ new \in Entry /\ new.path = e.path /\ Counted(new.fold)
      /\ \A f \in FilesOf(e.path) : new.offsets[f] = reads[f].offset
      /\ \A f \in Files \ FilesOf(e.path) : new.offsets[f] = e.offsets[f]
  BY <1>2, <1>3, <1>4, FoldedEntry
<1>6. UpToDate(new, content) => Totals(new, content)
  <2> SUFFICES ASSUME UpToDate(new, content) PROVE Totals(new, content)
    OBVIOUS
  <2>1. UpToDate(e, content) => Totals(e, content)
    BY <1>2 DEF IInv, TotalsAreOfTheFiles
  <2> DEFINE E == e
  <2>2. E \in Entry /\ Counted(E.fold) /\ UpToDate(Folded(E), content)
        /\ \A f \in FilesOf(E.path) : /\ reads[f] \in Read /\ ~reads[f].rewalked
                                      /\ Continues(reads[f], E.offsets[f], content[f])
    BY <1>2, <1>3, <1>4
  <2>3. UpToDate(E, content) => Totals(E, content)
    BY <2>1
  <2> HIDE DEF E
  <2>4. Totals(Folded(E), content)
    BY <1>3, <2>2, <2>3, FoldedTotals
  <2> QED BY <2>4 DEF E
<1> HIDE DEF new
<1>7. new # NoEntry
  BY <1>5, AbsenceAssumption
<1>8. /\ Held' = Held /\ entry'[serving] = new
      /\ \A t \in Held \ {serving} : entry'[t] = entry[t]
      /\ \A f \in Files : reads'[f] = NoRead
  BY <1>1, <1>2, <1>7 DEF Held
<1>9. TypeOK'
  BY <1>1, <1>5 DEF IInv, TypeOK
<1>10. OneRender' /\ ReadsContinue'
  BY <1>1, <1>8 DEF OneRender, ReadsContinue
<1>11. \A f \in Files : \/ new.offsets[f] = e.offsets[f]
                        \/ reads[f] # NoRead /\ new.offsets[f] = reads[f].offset
  <2>1. \A f \in FilesOf(e.path) : reads[f] # NoRead
    BY <1>1, <1>3 DEF Unread
  <2> QED BY <1>5, <2>1
<1>12. NoneShrunk'
  <2> SUFFICES ASSUME rewrites = 0, NEW f \in Files, NEW n \in Positions(f)' PROVE n <= Len(content[f])
    BY <1>1 DEF NoneShrunk
  <2>1. PICK t \in Held : n = entry'[t].offsets[f]
    BY <1>8 DEF Positions, Held
  <2>2. n \in Positions(f)
    <3>1. CASE t = serving
      BY <1>2, <1>8, <1>11, <2>1, <3>1, StateFacts
    <3>2. CASE t # serving
      BY <1>2, <1>8, <2>1, <3>2, StateFacts
    <3> QED BY <3>1, <3>2
  <2> QED BY <2>2 DEF IInv, NoneShrunk
<1>13. FoldsCounted' /\ TotalsAreOfTheFiles'
  <2>1. FoldsCounted'
    BY <1>5, <1>8 DEF IInv, FoldsCounted
  <2>2. TotalsAreOfTheFiles'
    <3> SUFFICES ASSUME NEW t \in Held, UpToDate(entry'[t], content)
                 PROVE  Totals(entry'[t], content)
      BY <1>1, <1>8 DEF TotalsAreOfTheFiles
    <3>1. CASE t = serving
      BY <1>6, <1>8, <3>1
    <3>2. CASE t # serving
      BY <1>8, <3>2 DEF IInv, TotalsAreOfTheFiles
    <3> QED BY <3>1, <3>2
  <2> QED BY <2>1, <2>2
<1>14. RewalksAreOwed'
  <2>1. Behind' \subseteq Behind
    <3> SUFFICES ASSUME NEW t \in Held, NEW f \in Files, entry'[t].offsets[f] > Len(content[f])
                 PROVE  t \in Behind
      BY <1>1, <1>8 DEF Behind
    <3>1. CASE t = serving
      BY <1>8, <1>11, <3>1 DEF Behind
    <3>2. CASE t # serving
      BY <1>8, <3>2 DEF Behind
    <3> QED BY <3>1, <3>2
  <2>2. switches' = switches + 0 /\ rewalkCount' = rewalkCount + 0 /\ rewrites' = rewrites
    BY <1>1 DEF IInv, TypeOK
  <2> QED BY <1>9, <2>1, <2>2, NoneFallsBehind
<1> QED BY <1>9, <1>10, <1>12, <1>13, <1>14 DEF IInv

LEMMA DropIdleStep == ASSUME IInv, NEW s \in Sessions, DropIdle(s) PROVE IInv'
<1>1. /\ phase = "idle" /\ entry' = [entry EXCEPT ![s] = NoEntry]
      /\ UNCHANGED <<content, torn, appends, rewrites, rewalkCount, serving, phase, reads, switches>>
  BY DEF DropIdle, worldVars
<1>2. TypeOK /\ TypeOK'
  BY <1>1 DEF IInv, TypeOK
<1>3. serving = NoEntry /\ \A f \in Files : reads[f] = NoRead
  BY <1>1 DEF IInv, OneRender
<1>4. Held' = Held \ {s} /\ \A t \in Held' : entry'[t] = entry[t]
  BY <1>1, <1>2 DEF TypeOK, Held
<1>5. OneRender' /\ ReadsContinue'
  BY <1>1, <1>3 DEF OneRender, ReadsContinue
<1>6. NoneShrunk'
  <2>1. \A f \in Files : Positions(f)' \subseteq Positions(f)
    <3> SUFFICES ASSUME NEW f \in Files, NEW n \in Positions(f)' PROVE n \in Positions(f)
      OBVIOUS
    <3>1. PICK t \in Held' : n = entry'[t].offsets[f]
      BY <1>1, <1>3 DEF Positions, Held
    <3> QED BY <1>2, <1>4, <3>1, StateFacts
  <2> QED BY <1>1, <2>1 DEF IInv, NoneShrunk
<1>7. FoldsCounted' /\ TotalsAreOfTheFiles'
  BY <1>1, <1>4 DEF IInv, FoldsCounted, TotalsAreOfTheFiles
<1>8. RewalksAreOwed'
  <2>1. Behind' \subseteq Behind
    BY <1>1, <1>3, <1>4 DEF Behind
  <2>2. switches' = switches + 0 /\ rewalkCount' = rewalkCount + 0 /\ rewrites' = rewrites
    BY <1>1 DEF IInv, TypeOK
  <2> QED BY <1>2, <2>1, <2>2, NoneFallsBehind
<1> QED BY <1>2, <1>5, <1>6, <1>7, <1>8 DEF IInv

-----------------------------------------------------------------------------
(* The theorems.                                                           *)

LEMMA NextStep == ASSUME IInv, Next PROVE IInv'
<1>1. ASSUME NEW f \in Files, StartLine(f) PROVE IInv'
  BY <1>1, StartLineStep
<1>2. ASSUME NEW f \in Files, NEW line \in Lines, FinishLine(f, line) PROVE IInv'
  BY <1>2, FinishLineStep
<1>3. ASSUME NEW f \in Files, Rewrite(f, <<>>) PROVE IInv'
  <2>1. <<>> \in Seq(Lines)
    OBVIOUS
  <2> QED BY <1>3, <2>1, RewriteStep
<1>4. ASSUME NEW f \in Files, NEW line \in Lines, Rewrite(f, <<line>>) PROVE IInv'
  <2>1. <<line>> \in Seq(Lines)
    OBVIOUS
  <2> QED BY <1>4, <2>1, RewriteStep
<1>5. ASSUME NEW f \in Files, ReadFile(f) PROVE IInv'
  BY <1>5, ReadFileStep
<1>6. ASSUME NEW s \in Sessions, DropIdle(s) PROVE IInv'
  BY <1>6, DropIdleStep
<1>7. ASSUME NEW s \in Sessions, NEW p \in Parents, BeginRender(s, p) PROVE IInv'
  BY <1>7, BeginRenderStep
<1>8. CASE ResetEntry
  BY <1>8, ResetEntryStep
<1>9. CASE FoldReads
  BY <1>9, FoldReadsStep
<1> QED BY <1>1, <1>2, <1>3, <1>4, <1>5, <1>6, <1>7, <1>8, <1>9 DEF Next

LEMMA StutterStep == ASSUME IInv, UNCHANGED vars PROVE IInv'
<1>1. UNCHANGED <<content, torn, appends, rewrites, entry, rewalkCount, serving, phase, reads, switches>>
  BY DEF vars, worldVars, serverVars
<1>2. Held' = Held /\ Path' = Path /\ Behind' = Behind
  BY <1>1 DEF Held, Path, Behind
<1>3. TypeOK' /\ NoneShrunk' /\ FoldsCounted' /\ TotalsAreOfTheFiles' /\ RewalksAreOwed'
  BY <1>1, <1>2 DEF IInv, TypeOK, NoneShrunk, FoldsCounted, TotalsAreOfTheFiles, RewalksAreOwed,
     Positions
<1>4. OneRender' /\ ReadsContinue'
  BY <1>1, <1>2 DEF IInv, OneRender, ReadsContinue
<1> QED BY <1>3, <1>4 DEF IInv

\* The tables in terms of the files, in every state of every behaviour.
THEOREM Invariance == Spec => []IInv
<1>1. IInv /\ [Next]_vars => IInv'
  BY NextStep, StutterStep
<1> QED BY InitHolds, <1>1, PTL DEF Spec

\* What walk_transcript makes of the lines of a session.
LEMMA FullWalkTotals ==
  ASSUME NEW p \in Parents, NEW linesOf, \A f \in FilesOf(p) : linesOf[f] \in Seq(Lines),
         NEW r, r = FullWalk(p, linesOf)
  PROVE  /\ r.fold.seen = UNION {IdsIn(linesOf[f], 0, Len(linesOf[f])) : f \in FilesOf(p)}
         /\ r.fold.turns = Cardinality(r.fold.seen)
         /\ r.fold.prompts = Cardinality(PromptsIn(linesOf[p], 0, Len(linesOf[p])))
         /\ r.parentTurns = Cardinality(IdsIn(linesOf[p], 0, Len(linesOf[p])))
<1> DEFINE D(f) == IdsIn(linesOf[f], 0, Len(linesOf[f]))
           T == SubagentsOf[p]
           lines == linesOf[p]
           all == SubagentLines(p, linesOf)
           old == NewFold
           parent == FoldLines(old, lines, TRUE)
           both == FoldLines(parent, all, FALSE)
<1>1. FilesOf(p) = {p} \cup T /\ lines \in Seq(Lines) /\ \A f \in T : linesOf[f] \in Seq(Lines)
  BY DEF FilesOf
<1>2. r.fold = both /\ r.parentTurns = parent.turns
  BY DEF FullWalk
<1>3. /\ old \in Fold /\ Counted(old) /\ old.seen = {} /\ old.prompts = 0
  BY NewFoldIsFold DEF NewFold
<1>4. all \in Seq(Lines) /\ IdsIn(all, 0, Len(all)) = UNION {D(f) : f \in T}
  <2> HIDE DEF all
  <2>1. all = SubagentLines(p, linesOf)
    BY DEF all
  <2> QED BY <1>1, <2>1, SubagentIds
<1> HIDE DEF old, lines, all
<1>5. /\ parent \in Fold /\ Counted(parent)
      /\ parent.seen = old.seen \cup IdsIn(lines, 0, Len(lines))
      /\ parent.prompts = old.prompts + Cardinality(PromptsIn(lines, 0, Len(lines)))
  <2>1. /\ parent = FoldLines(old, lines, TRUE) /\ old \in Fold /\ Counted(old)
        /\ lines \in Seq(Lines)
    BY <1>1, <1>3 DEF lines
  <2> HIDE DEF parent
  <2> QED BY <2>1, FoldParent
<1> HIDE DEF parent
<1>6. /\ both \in Fold /\ Counted(both)
      /\ both.seen = parent.seen \cup IdsIn(all, 0, Len(all))
      /\ both.prompts = parent.prompts
  <2>1. both = FoldLines(parent, all, FALSE)
    OBVIOUS
  <2> HIDE DEF both
  <2> QED BY <1>3, <1>4, <1>5, <2>1, FoldSubagents
<1> HIDE DEF both
<1>7. parent.seen = D(p) /\ parent.turns = Cardinality(D(p))
  BY <1>3, <1>5 DEF Counted, lines
<1>8. both.seen = UNION {D(f) : f \in FilesOf(p)} /\ both.turns = Cardinality(both.seen)
  <2> HIDE DEF D, T
  <2>1. UNION {D(f) : f \in FilesOf(p)} = D(p) \cup UNION {D(f) : f \in T}
    BY <1>1
  <2> QED BY <1>4, <1>6, <1>7, <2>1 DEF Counted
<1>9. both.prompts = Cardinality(PromptsIn(lines, 0, Len(lines)))
  <2>1. parent.prompts = Cardinality(PromptsIn(lines, 0, Len(lines)))
    <3>1. Cardinality(PromptsIn(lines, 0, Len(lines))) \in Nat
      <4>1. Len(lines) \in Nat /\ 0 <= Len(lines)
        BY <1>1
      <4> QED BY <1>1, <4>1, OneMore
    <3> QED BY <1>3, <1>5, <3>1
  <2> QED BY <1>6, <2>1
<1> QED BY <1>2, <1>7, <1>8, <1>9 DEF lines

\* The walk from the start of what an entry has read.
LEMMA ReferenceTotals ==
  ASSUME IInv, NEW s \in Current
  PROVE  /\ s \in Held /\ entry[s] \in Entry /\ UpToDate(entry[s], content)
         /\ Totals(entry[s], content) /\ Counted(entry[s].fold)
         /\ Reference(s).fold.seen = UNION {IdsRead(entry[s], content, f) : f \in FilesOf(entry[s].path)}
         /\ Reference(s).fold.turns = Cardinality(Reference(s).fold.seen)
         /\ Reference(s).fold.prompts =
              Cardinality(PromptsIn(content[entry[s].path], 0, entry[s].offsets[entry[s].path]))
         /\ Reference(s).parentTurns = Cardinality(IdsRead(entry[s], content, entry[s].path))
<1> DEFINE e == entry[s]
           p == e.path
           linesOf == [f \in FilesOf(p) |-> SubSeq(content[f], 1, e.offsets[f])]
           r == Reference(s)
<1>1. s \in Held /\ UpToDate(e, content)
  BY DEF Current, Held, UpToDate
<1>2. e \in Entry /\ Totals(e, content) /\ Counted(e.fold)
  BY <1>1, StateFacts DEF IInv, TotalsAreOfTheFiles, FoldsCounted
<1>3. p \in Parents /\ p \in FilesOf(p) /\ FilesOf(p) \subseteq Files
  BY <1>2, EntryFacts
<1>4. \A f \in FilesOf(p) :
         /\ linesOf[f] \in Seq(Lines)
         /\ IdsIn(linesOf[f], 0, Len(linesOf[f])) = IdsRead(e, content, f)
         /\ PromptsIn(linesOf[f], 0, Len(linesOf[f])) = PromptsIn(content[f], 0, e.offsets[f])
  <2> SUFFICES ASSUME NEW f \in FilesOf(p)
               PROVE  /\ linesOf[f] \in Seq(Lines)
                      /\ IdsIn(linesOf[f], 0, Len(linesOf[f])) = IdsRead(e, content, f)
                      /\ PromptsIn(linesOf[f], 0, Len(linesOf[f])) = PromptsIn(content[f], 0, e.offsets[f])
    OBVIOUS
  <2> DEFINE c == content[f]
             n == e.offsets[f]
             d == SubSeq(c, 1, n)
  <2>1. c \in Seq(Lines) /\ n \in Nat /\ n <= Len(c) /\ linesOf[f] = d
    BY <1>1, <1>3, StateFacts DEF IInv, UpToDate
  <2>2. IdsRead(e, content, f) = IdsIn(c, 0, n)
    BY DEF IdsRead
  <2> HIDE DEF c, n, linesOf
  <2>3. d \in Seq(Lines) /\ Len(d) = n /\ \A i \in 1..n : d[i] = c[i]
    <3>1. \A i \in 1..n : c[i] \in Lines /\ i <= Len(c)
      BY <2>1
    <3>2. d = [i \in 1..n |-> c[i]]
      BY <2>1
    <3> HIDE DEF d
    <3> QED BY <2>1, <3>1, <3>2
  <2> HIDE DEF d
  <2>4. IdsIn(d, 0, n) = IdsIn(c, 0, n) /\ PromptsIn(d, 0, n) = PromptsIn(c, 0, n)
    BY <2>1, <2>3, SamePrefix
  <2> QED BY <2>1, <2>2, <2>3, <2>4 DEF c, n
<1>5. r = FullWalk(p, linesOf)
  BY DEF Reference
<1> HIDE DEF r, linesOf, p
<1>6. /\ r.fold.seen = UNION {IdsIn(linesOf[f], 0, Len(linesOf[f])) : f \in FilesOf(p)}
      /\ r.fold.turns = Cardinality(r.fold.seen)
      /\ r.fold.prompts = Cardinality(PromptsIn(linesOf[p], 0, Len(linesOf[p])))
      /\ r.parentTurns = Cardinality(IdsIn(linesOf[p], 0, Len(linesOf[p])))
  BY <1>3, <1>4, <1>5, FullWalkTotals
<1>7. UNION {IdsIn(linesOf[f], 0, Len(linesOf[f])) : f \in FilesOf(p)} =
        UNION {IdsRead(e, content, f) : f \in FilesOf(p)}
  BY <1>4
<1> QED BY <1>1, <1>2, <1>3, <1>4, <1>6, <1>7 DEF r, p

\* The tables, and what a render under way has read, are what their types say
\* (server_state.StateTables).
THEOREM TypeCorrect == Spec => []TypeOK
<1>1. IInv => TypeOK
  BY DEF IInv
<1> QED BY <1>1, Invariance, PTL

\* The totals a session is shown are those of one walk of its files from the
\* start, for any number of sessions, files, appends and rewrites (walk_for).
THEOREM TotalsAreRight == Spec => []TotalsMatchFullWalk
<1>1. IInv => TotalsMatchFullWalk
  <2> SUFFICES ASSUME IInv, NEW s \in Current
               PROVE  /\ entry[s].fold.turns = Reference(s).fold.turns
                      /\ entry[s].fold.seen = Reference(s).fold.seen
                      /\ entry[s].fold.prompts = Reference(s).fold.prompts
    BY DEF TotalsMatchFullWalk
  <2> QED BY ReferenceTotals DEF Totals, Counted
<1> QED BY <1>1, Invariance, PTL

\* What a render shows of the cost as the parent's own is the parent's, as long
\* as no message is in two of the session's files (parent_cost).
THEOREM ParentShareIsRight == Spec => []ParentShareMatchesFullWalk
<1>1. IInv => ParentShareMatchesFullWalk
  <2> DEFINE Written(f) == {l.id : l \in {content[f][i] : i \in
                              {j \in 1..Len(content[f]) : content[f][j].kind = "turn"}}}
  <2> SUFFICES ASSUME IInv, NEW s \in Current,
                      \A f \in SubagentsOf[entry[s].path] : Written(f) \cap Written(entry[s].path) = {}
               PROVE  entry[s].parentTurns = Reference(s).parentTurns
    BY DEF ParentShareMatchesFullWalk
  <2> DEFINE e == entry[s]
             p == e.path
  <2>1. /\ s \in Held /\ e \in Entry /\ UpToDate(e, content) /\ Totals(e, content)
        /\ Reference(s).parentTurns = Cardinality(IdsRead(e, content, p))
    BY ReferenceTotals
  <2>2. p \in FilesOf(p) /\ SubagentsOf[p] \subseteq FilesOf(p) /\ FilesOf(p) \subseteq Files
    BY <2>1, EntryFacts
  <2>3. \A f \in FilesOf(p) : IdsRead(e, content, f) \subseteq Written(f)
    <3> SUFFICES ASSUME NEW f \in FilesOf(p), NEW x \in IdsRead(e, content, f) PROVE x \in Written(f)
      OBVIOUS
    <3>1. e.offsets[f] \in Nat /\ e.offsets[f] <= Len(content[f]) /\ Len(content[f]) \in Nat
      BY <2>1, <2>2, StateFacts DEF IInv, UpToDate
    <3>2. PICK i \in (0+1)..e.offsets[f] : content[f][i].kind = "turn" /\ x = content[f][i].id
      BY DEF IdsRead, IdsIn
    <3>3. i \in 1..Len(content[f])
      BY <3>1, <3>2
    <3> QED BY <3>2, <3>3
  <2> HIDE DEF Written
  <2>4. \A f \in SubagentsOf[p] : IdsRead(e, content, f) \cap IdsRead(e, content, p) = {}
    BY <2>2, <2>3
  <2> QED BY <2>1, <2>4 DEF Totals
<1> QED BY <1>1, Invariance, PTL

\* No session is walked again from the start for an append: each rewrite of a
\* file costs each session one rewalk at most (walk_for).
THEOREM RewalksStayEarned == Spec => []RewalksAreEarned
<1>1. IInv => RewalksAreEarned
  <2> SUFFICES ASSUME IInv PROVE RewalksAreEarned
    OBVIOUS
  <2> DEFINE owed == Cardinality(Sessions) * rewrites
  <2>1. rewalkCount \in Nat /\ switches \in Nat /\ rewrites \in Nat
    BY DEF IInv, TypeOK
  <2>2. owed \in Nat
    BY <2>1, BehindIsFinite
  <2>3. rewalkCount + Cardinality(Behind) <= owed + switches
    BY DEF IInv, RewalksAreOwed
  <2> HIDE DEF owed
  <2>4. rewalkCount <= owed + switches
    BY <2>1, <2>2, <2>3, BehindIsFinite
  <2> QED BY <2>4 DEF owed, RewalksAreEarned
<1> QED BY <1>1, Invariance, PTL

-----------------------------------------------------------------------------
(* The debounce of the session counts.                                     *)

\* The states between two observations of some directories.
Episode == [first : Int, last : Int]
Episodes(Dirs) == UNION {[D -> Episode] : D \in SUBSET Dirs}
States(Dirs) == [episodes : Episodes(Dirs), shown : Int]

IsEpisodes(e) == e \in [DOMAIN e -> Episode]

LEMMA EpisodesOf ==
  ASSUME NEW Dirs, NEW e
  PROVE  e \in Episodes(Dirs) <=> DOMAIN e \subseteq Dirs /\ IsEpisodes(e)
<1>1. ASSUME NEW D \in SUBSET Dirs, e \in [D -> Episode]
      PROVE  DOMAIN e \subseteq Dirs /\ IsEpisodes(e)
  BY <1>1 DEF IsEpisodes
<1>2. ASSUME DOMAIN e \subseteq Dirs, IsEpisodes(e)
      PROVE  e \in UNION {[D -> Episode] : D \in SUBSET Dirs}
  BY <1>2 DEF IsEpisodes
<1> QED BY <1>1, <1>2 DEF Episodes

\* What Pruned, Without and With make of the episodes.
LEMMA PrunedFacts ==
  ASSUME NEW e, IsEpisodes(e), NEW now \in Int
  PROVE  /\ DOMAIN Pruned(e, now) = {c \in DOMAIN e : now - e[c].last <= MaxAge}
         /\ \A c \in DOMAIN Pruned(e, now) : Pruned(e, now)[c] = e[c]
         /\ IsEpisodes(Pruned(e, now))
  BY DEF Pruned, IsEpisodes

LEMMA WithoutFacts ==
  ASSUME NEW e, IsEpisodes(e), NEW d
  PROVE  /\ DOMAIN Without(e, d) = DOMAIN e \ {d}
         /\ \A c \in DOMAIN e \ {d} : Without(e, d)[c] = e[c]
         /\ IsEpisodes(Without(e, d))
  BY DEF Without, IsEpisodes

LEMMA WithFacts ==
  ASSUME NEW e, IsEpisodes(e), NEW d, NEW x \in Episode
  PROVE  /\ DOMAIN With(e, d, x) = DOMAIN e \cup {d}
         /\ IsEpisodes(With(e, d, x))
  BY DEF With, IsEpisodes

\* What an observation makes of a state.
Rendered(e, o) == Pruned(With(e, o.dir, Continued(e, o)), o.at)
Calmed(e, o) == IF o.dir \in DOMAIN e THEN Pruned(Without(e, o.dir), o.at) ELSE e

LEMMA RenderedType ==
  ASSUME NEW Dirs, NEW e \in Episodes(Dirs), NEW o \in [kind : {"render"}, dir : Dirs, at : Int, raw : Nat]
  PROVE  Rendered(e, o) \in Episodes(Dirs) /\ Calmed(e, o) \in Episodes(Dirs) 
         /\ Continued(e, o) \in Episode
<1>1. DOMAIN e \subseteq Dirs /\ IsEpisodes(e)
  BY EpisodesOf
<1> DEFINE d == o.dir
           x == Continued(e, o)
           now == o.at
<1>2. d \in Dirs /\ now \in Int
  OBVIOUS
<1>3. x \in Episode
  BY <1>1 DEF Continued, Episode, IsEpisodes
<1> HIDE DEF x, now, d
<1>4. Pruned(With(e, d, x), now) \in Episodes(Dirs)
  <2> DEFINE w == With(e, d, x)
  <2>1. DOMAIN w = DOMAIN e \cup {d} /\ IsEpisodes(w)
    BY <1>1, <1>3, WithFacts
  <2>2. DOMAIN w \subseteq Dirs
    BY <1>1, <1>2, <2>1
  <2> HIDE DEF w
  <2>3. DOMAIN Pruned(w, now) = {c \in DOMAIN w : now - w[c].last <= MaxAge} /\ IsEpisodes(Pruned(w, now))
    BY <1>2, <2>1, PrunedFacts
  <2>4. DOMAIN Pruned(w, now) \subseteq Dirs
    BY <2>2, <2>3
  <2>5. Pruned(w, now) \in Episodes(Dirs)
    BY <2>3, <2>4, EpisodesOf
  <2> QED BY <2>5 DEF w
<1>5. Pruned(Without(e, d), now) \in Episodes(Dirs)
  <2> DEFINE w == Without(e, d)
  <2>1. DOMAIN w = DOMAIN e \ {d} /\ IsEpisodes(w)
    BY <1>1, WithoutFacts
  <2>2. DOMAIN w \subseteq Dirs
    BY <1>1, <2>1
  <2> HIDE DEF w
  <2>3. DOMAIN Pruned(w, now) = {c \in DOMAIN w : now - w[c].last <= MaxAge} /\ IsEpisodes(Pruned(w, now))
    BY <1>2, <2>1, PrunedFacts
  <2>4. DOMAIN Pruned(w, now) \subseteq Dirs
    BY <2>2, <2>3
  <2>5. Pruned(w, now) \in Episodes(Dirs)
    BY <2>3, <2>4, EpisodesOf
  <2> QED BY <2>5 DEF w
<1> QED BY <1>3, <1>4, <1>5 DEF Rendered, Calmed, d, x, now

\* Observe in these terms.
Shows(e, o) == IF o.at - Continued(e, o).first >= Dwell THEN o.raw ELSE 1

LEMMA ObserveCases ==
  ASSUME NEW s, NEW o
  PROVE  /\ o.kind = "torn" => Observe(s, o) = Quiet
         /\ o.kind # "torn" /\ o.raw < 2 =>
              Observe(s, o) = [episodes |-> Calmed(s.episodes, o), shown |-> o.raw]
         /\ o.kind # "torn" /\ ~(o.raw < 2) =>
              Observe(s, o) = [episodes |-> Rendered(s.episodes, o), shown |-> Shows(s.episodes, o)]
BY Zenon DEF Observe, Rendered, Calmed, Shows

LEMMA QuietType ==
  ASSUME NEW Dirs
  PROVE  Quiet \in States(Dirs) /\ Quiet.episodes = <<>> /\ DOMAIN Quiet.episodes = {}
<1> DEFINE none == <<>>
<1>1. DOMAIN none = {} /\ none \in [{} -> Episode]
  OBVIOUS
<1>2. none \in Episodes(Dirs)
  BY <1>1 DEF Episodes
<1>3. Quiet = [episodes |-> none, shown |-> 0]
  BY DEF Quiet
<1> HIDE DEF none
<1>4. Quiet \in States(Dirs) /\ Quiet.episodes = none /\ DOMAIN Quiet.episodes = {}
  BY <1>1, <1>2, <1>3 DEF States
<1> QED BY <1>4 DEF none

LEMMA ObserveType ==
  ASSUME NEW Dirs, NEW s \in States(Dirs), NEW o \in Observation(Dirs, Int, Nat)
  PROVE  Observe(s, o) \in States(Dirs)
<1>1. CASE o.kind = "torn"
  BY <1>1, ObserveCases, QuietType
<1>2. CASE o.kind # "torn"
  <2> DEFINE e == s.episodes
  <2>1. o \in [kind : {"render"}, dir : Dirs, at : Int, raw : Nat]
    BY <1>2 DEF Observation
  <2>2. e \in Episodes(Dirs)
    BY DEF States
  <2>3. o.raw \in Nat /\ o.at \in Int
    BY <2>1
  <2> HIDE DEF e
  <2>4. Rendered(e, o) \in Episodes(Dirs) /\ Calmed(e, o) \in Episodes(Dirs)
         /\ Continued(e, o) \in Episode
    BY <2>1, <2>2, RenderedType
  <2>5. Shows(e, o) \in Int
    BY <2>3, <2>4 DEF Shows, Episode
  <2>6. Observe(s, o) = [episodes |-> Calmed(e, o), shown |-> o.raw]
        \/ Observe(s, o) = [episodes |-> Rendered(e, o), shown |-> Shows(e, o)]
    BY <1>2, ObserveCases DEF e
  <2> QED BY <2>3, <2>4, <2>5, <2>6 DEF States
<1> QED BY <1>1, <1>2

\* f[n] is the state after n observations.
IsHistory(f, seen, S) ==
    /\ f \in [0..Len(seen) -> S]
    /\ f[0] = Quiet
    /\ \A n \in 1..Len(seen) : f[n] = Observe(f[n - 1], seen[n])
    /\ Debounced(seen) = f[Len(seen)]

LEMMA DebouncedSteps ==
  ASSUME NEW Dirs, NEW seen \in Seq(Observation(Dirs, Int, Nat))
  PROVE  \E f : IsHistory(f, seen, States(Dirs))
<1> DEFINE N == Len(seen)
           A == States(Dirs)
           step == [n \in 1..N |-> [x \in A |-> Observe(x, seen[n])]]
           Walk(w) == [t \in SUBSET (DOMAIN seen) |->
                         IF t = {} THEN Quiet ELSE Observe(w[t \ {Max(t)}], seen[Max(t)])]
           walk == CHOOSE w : w = Walk(w)
<1>1. N \in Nat /\ DOMAIN seen = 1..N /\ \A n \in 1..N : seen[n] \in Observation(Dirs, Int, Nat)
  OBVIOUS
<1>2. step \in [1..N -> [A -> A]] /\ Quiet \in A
  <2>1. \A n \in 1..N : \A x \in A : Observe(x, seen[n]) \in A
    BY <1>1, ObserveType
  <2>2. Quiet \in A
    BY QuietType
  <2> HIDE DEF A, N
  <2> QED BY <2>1, <2>2
<1> HIDE DEF A
<1>3. PICK g \in [SUBSET (1..N) -> A] : IsFoldFunction(g, N, Quiet, step)
  <2>1. N \in Nat
    BY <1>1
  <2> HIDE DEF step, N, Walk, walk
  <2> QED BY <2>1, <1>2, FoldFunctionExists
<1>4. \A t \in SUBSET (1..N) : g[t] = IF t = {} THEN Quiet ELSE Observe(g[t \ {Max(t)}], seen[Max(t)])
  <2>1. \A t \in SUBSET (1..N) : t # {} => Max(t) \in 1..N /\ t \ {Max(t)} \in SUBSET (1..N)
    BY <1>1, MaxIsMember
  <2> QED BY <1>3, <2>1 DEF IsFoldFunction
<1>5. g = Walk(g)
  <2> HIDE DEF N
  <2> QED BY <1>4, <1>1
<1>6. walk = Walk(walk)
  <2> HIDE DEF Walk
  <2> QED BY <1>5, Zenon
<1>7. Debounced(seen) = walk[DOMAIN seen]
  BY Zenon DEF Debounced, FoldLeft, MapThenFoldSet
<1> HIDE DEF walk
<1>8. walk[{}] = Quiet
  BY <1>6
<1>9. \A n \in 1..N : walk[1..n] = Observe(walk[1..(n-1)], seen[n])
  <2> SUFFICES ASSUME NEW n \in 1..N PROVE walk[1..n] = Observe(walk[1..(n-1)], seen[n])
    OBVIOUS
  <2>1. 1..n # {} /\ Max(1..n) = n /\ (1..n) \ {n} = 1..(n-1)
    BY <1>1, IntervalSteps
  <2>2. 1..n \in SUBSET (DOMAIN seen)
    BY <1>1
  <2>3. walk[1..n] = IF 1..n = {} THEN Quiet ELSE Observe(walk[(1..n) \ {Max(1..n)}], seen[Max(1..n)])
    BY <1>6, <2>2
  <2> QED BY <2>1, <2>3
<1>10. \A n \in 1..N : \A x \in A : step[n][x] = Observe(x, seen[n])
  OBVIOUS
<1>11. GoesOn(walk, N, A, Quiet, step)
  BY <1>8, <1>9, <1>10 DEF GoesOn
<1>12. PICK f : IsRun(f, N, A, Quiet, step) /\ f[N] = walk[1..N]
  <2>1. N \in Nat
    BY <1>1
  <2>2. /\ step \in [1..N -> [A -> A]] /\ Quiet \in A
        /\ GoesOn(walk, N, A, Quiet, step)
    BY <1>2, <1>11
  <2> HIDE DEF step, N, Walk
  <2>3. RunsLike(walk, N, A, Quiet, step)
    BY <2>1, <2>2, RunAlong
  <2> QED BY <2>3 DEF RunsLike
<1>13. \A n \in 1..N : n - 1 \in 0..N
  BY <1>1
<1>14. IsHistory(f, seen, A)
  BY <1>1, <1>7, <1>10, <1>12, <1>13 DEF IsHistory, IsRun
<1> QED BY <1>14 DEF A

-----------------------------------------------------------------------------
(* The episode of a directory after n observations is the longest stretch  *)
(* that SeenSince describes; a directory has none where there is no such   *)
(* stretch, or where a day has passed since its last render.               *)

\* The clock does not go back.
InOrder(seen) ==
    \A j, k \in DOMAIN seen :
        seen[j].kind = "render" /\ seen[k].kind = "render" /\ j <= k => seen[j].at <= seen[k].at

RendersOf(seen, n, d) == {j \in 1..n : seen[j].kind = "render" /\ seen[j].dir = d}

\* The render j does not come after a gap in a stretch from i.
Follows(seen, n, d, i, j) ==
    \E k \in RendersOf(seen, n, d) : i <= k /\ k < j /\ seen[j].at - seen[k].at <= Gap

\* SeenSince, for a directory and the first n observations.
Since(seen, n, d, i) ==
    /\ i \in RendersOf(seen, n, d)
    /\ \A j \in RendersOf(seen, n, d) :
          j >= i => seen[j].raw >= 2 /\ (j # i => Follows(seen, n, d, i, j))
    /\ \A j \in i..n : seen[j].kind # "torn"

\* episode is the stretch from i, the longest there is, to the last render.
Begun(seen, n, d, episode) ==
    /\ \E i \in RendersOf(seen, n, d) :
          /\ Since(seen, n, d, i) /\ episode.first = seen[i].at
          /\ \A l \in RendersOf(seen, n, d) : Since(seen, n, d, l) => i <= l
    /\ \E i \in RendersOf(seen, n, d) :
          /\ episode.last = seen[i].at
          /\ \A j \in RendersOf(seen, n, d) : j <= i

\* The render j is more than a day ago.
Aged(seen, n, j) == \E m \in 1..n : seen[m].kind = "render" /\ seen[m].at - seen[j].at > MaxAge

Over(seen, n, d) ==
    (\E i \in RendersOf(seen, n, d) : Since(seen, n, d, i)) =>
        \A j \in RendersOf(seen, n, d) : Aged(seen, n, j)

EpisodesAreRight(Dirs, seen, n, e) ==
    /\ \A d \in DOMAIN e : Begun(seen, n, d, e[d])
    /\ \A d \in Dirs \ DOMAIN e : Over(seen, n, d)

LEMMA RenderFacts ==
  ASSUME NEW Dirs, NEW seen \in Seq(Observation(Dirs, Int, Nat)), NEW n \in Nat, n <= Len(seen),
         NEW d, NEW j \in RendersOf(seen, n, d)
  PROVE  /\ j \in 1..n /\ j \in DOMAIN seen /\ j \in Nat /\ seen[j].kind = "render" /\ seen[j].dir = d
         /\ seen[j].at \in Int /\ seen[j].raw \in Nat /\ d \in Dirs
<1>1. j \in 1..n /\ seen[j].kind = "render" /\ seen[j].dir = d
  BY DEF RendersOf
<1>2. j \in DOMAIN seen /\ seen[j] \in Observation(Dirs, Int, Nat)
  BY <1>1
<1>3. seen[j] \in [kind : {"render"}, dir : Dirs, at : Int, raw : Nat]
  BY <1>1, <1>2 DEF Observation
<1> QED BY <1>1, <1>2, <1>3

LEMMA SeenAt ==
  ASSUME NEW Dirs, NEW seen \in Seq(Observation(Dirs, Int, Nat)), NEW n \in Nat, n + 1 <= Len(seen)
  PROVE  /\ n <= Len(seen) /\ n + 1 \in DOMAIN seen /\ n + 1 \in 1..(n+1)
         /\ seen[n+1] \in Observation(Dirs, Int, Nat)
         /\ seen[n+1].kind # "torn" =>
              /\ seen[n+1] \in [kind : {"render"}, dir : Dirs, at : Int, raw : Nat]
              /\ seen[n+1].kind = "render" /\ seen[n+1].dir \in Dirs
              /\ seen[n+1].at \in Int /\ seen[n+1].raw \in Nat
<1>1. n <= Len(seen) /\ n + 1 \in DOMAIN seen /\ n + 1 \in 1..(n+1)
  OBVIOUS
<1>2. seen[n+1] \in Observation(Dirs, Int, Nat)
  BY <1>1
<1>3. ASSUME seen[n+1].kind # "torn"
      PROVE  seen[n+1] \in [kind : {"render"}, dir : Dirs, at : Int, raw : Nat]
  BY <1>2, <1>3 DEF Observation
<1> QED BY <1>1, <1>2, <1>3

\* A torn file ends every stretch, and so does a quiet observation.
LEMMA TornEnds ==
  ASSUME NEW Dirs, NEW seen \in Seq(Observation(Dirs, Int, Nat)), NEW n \in Nat, n + 1 <= Len(seen),
         seen[n+1].kind = "torn", NEW d
  PROVE  Over(seen, n + 1, d)
<1> SUFFICES ASSUME NEW i \in RendersOf(seen, n + 1, d), Since(seen, n + 1, d, i) PROVE FALSE
  BY DEF Over
<1>1. i \in 1..(n+1)
  BY DEF RendersOf
<1>2. n + 1 \in i..(n+1)
  BY <1>1
<1> QED BY <1>2 DEF Since

LEMMA QuietEnds ==
  ASSUME NEW Dirs, NEW seen \in Seq(Observation(Dirs, Int, Nat)), NEW n \in Nat, n + 1 <= Len(seen),
         seen[n+1].kind # "torn", seen[n+1].raw < 2
  PROVE  Over(seen, n + 1, seen[n+1].dir)
<1> DEFINE d == seen[n+1].dir
<1> SUFFICES ASSUME NEW i \in RendersOf(seen, n + 1, d), Since(seen, n + 1, d, i) PROVE FALSE
  BY DEF Over
<1>1. i \in 1..(n+1)
  BY DEF RendersOf
<1>2. n + 1 \in RendersOf(seen, n + 1, d)
  BY SeenAt DEF RendersOf
<1>3. seen[n+1].raw \in Nat
  BY SeenAt
<1>4. n + 1 >= i
  BY <1>1
<1> HIDE DEF d
<1> QED BY <1>2, <1>3, <1>4 DEF Since

\* What a render of another directory leaves as it is.
LEMMA OthersStay ==
  ASSUME NEW Dirs, NEW seen \in Seq(Observation(Dirs, Int, Nat)), InOrder(seen),
         NEW n \in Nat, n + 1 <= Len(seen), seen[n+1].kind # "torn", NEW d, d # seen[n+1].dir,
         MaxAge \in Nat
  PROVE  /\ Over(seen, n, d) => Over(seen, n + 1, d)
         /\ \A ep \in Episode : Begun(seen, n, d, ep) => Begun(seen, n + 1, d, ep)
         /\ \A ep \in Episode : Begun(seen, n, d, ep) /\ seen[n+1].at - ep.last > MaxAge
                                   => Over(seen, n + 1, d)
<1> DEFINE R == RendersOf(seen, n, d)
<1>1. RendersOf(seen, n + 1, d) = R
  BY DEF RendersOf
<1>2. \A i \in R : i \in 1..n
  BY DEF RendersOf
<1>3. \A i \in R : Since(seen, n + 1, d, i) <=> Since(seen, n, d, i)
  <2> SUFFICES ASSUME NEW i \in R PROVE Since(seen, n + 1, d, i) <=> Since(seen, n, d, i)
    OBVIOUS
  <2>1. i..(n+1) = (i..n) \cup {n + 1}
    BY <1>2
  <2>2. (\A j \in i..(n+1) : seen[j].kind # "torn") <=> \A j \in i..n : seen[j].kind # "torn"
    BY <2>1
  <2>3. \A j : Follows(seen, n + 1, d, i, j) <=> Follows(seen, n, d, i, j)
    BY <1>1 DEF Follows
  <2> HIDE DEF R
  <2> QED BY <1>1, <2>2, <2>3 DEF Since, R
<1>4. \A j \in R : Aged(seen, n, j) => Aged(seen, n + 1, j)
  BY DEF Aged
<1>5. Over(seen, n, d) => Over(seen, n + 1, d)
  <2> HIDE DEF R
  <2> QED BY <1>1, <1>3, <1>4 DEF Over, R
<1>6. ASSUME NEW ep \in Episode, Begun(seen, n, d, ep) PROVE Begun(seen, n + 1, d, ep)
  <2> HIDE DEF R
  <2> QED BY <1>1, <1>3, <1>6 DEF Begun, R
<1>7. ASSUME NEW ep \in Episode, Begun(seen, n, d, ep), seen[n+1].at - ep.last > MaxAge
      PROVE  Over(seen, n + 1, d)
  <2>1. PICK i \in R : ep.last = seen[i].at /\ \A j \in R : j <= i
    BY <1>7 DEF Begun
  <2> SUFFICES ASSUME NEW j \in R PROVE Aged(seen, n + 1, j)
    BY <1>1 DEF Over
  <2>2. n <= Len(seen)
    OBVIOUS
  <2>3. /\ j \in DOMAIN seen /\ seen[j].kind = "render" /\ seen[j].at \in Int
        /\ i \in DOMAIN seen /\ seen[i].kind = "render" /\ seen[i].at \in Int
    BY <2>2, RenderFacts
  <2>4. seen[j].at <= seen[i].at
    BY <2>1, <2>3 DEF InOrder
  <2>5. seen[n+1].at \in Int /\ seen[n+1].kind = "render" /\ n + 1 \in 1..(n+1)
    BY SeenAt
  <2>6. seen[n+1].at - seen[j].at > MaxAge
    BY <1>7, <2>1, <2>3, <2>4, <2>5
  <2> QED BY <2>5, <2>6 DEF Aged
<1> QED BY <1>5, <1>6, <1>7

\* The next observation comes without a gap after a stretch from i.
Reaches(seen, n, d, i) ==
    \E k \in RendersOf(seen, n, d) : i <= k /\ seen[n+1].at - seen[k].at <= Gap

\* What a render that counts two makes of the stretches of its directory.
LEMMA OneMoreRender ==
  ASSUME NEW Dirs, NEW seen \in Seq(Observation(Dirs, Int, Nat)), NEW n \in Nat, n + 1 <= Len(seen),
         seen[n+1].kind # "torn", ~(seen[n+1].raw < 2), NEW d, d = seen[n+1].dir
  PROVE  /\ RendersOf(seen, n + 1, d) = RendersOf(seen, n, d) \cup {n + 1}
         /\ Since(seen, n + 1, d, n + 1)
         /\ \A i \in RendersOf(seen, n, d) :
              Since(seen, n + 1, d, i) <=> Since(seen, n, d, i) /\ Reaches(seen, n, d, i)
<1> DEFINE R == RendersOf(seen, n, d)
           S == RendersOf(seen, n + 1, d)
<1>1. /\ seen[n+1].kind = "render" /\ seen[n+1].raw >= 2
      /\ n + 1 \in 1..(n+1) /\ 1..(n+1) = (1..n) \cup {n + 1}
  BY SeenAt
<1>2. S = R \cup {n + 1}
  BY <1>1 DEF RendersOf
<1>3. \A i \in R : i \in 1..n /\ i \in Nat /\ i < n + 1
  BY DEF RendersOf
<1>4. Since(seen, n + 1, d, n + 1)
  <2>1. n + 1 \in S
    BY <1>2
  <2>2. \A j \in S : j >= n + 1 => j = n + 1
    BY <1>2, <1>3
  <2>3. \A j \in (n+1)..(n+1) : j = n + 1
    OBVIOUS
  <2>4. \A j \in (n+1)..(n+1) : seen[j].kind # "torn"
    BY <2>3
  <2> HIDE DEF R
  <2> QED BY <1>1, <2>1, <2>2, <2>4 DEF Since
<1>5. ASSUME NEW i \in R
      PROVE  Since(seen, n + 1, d, i) <=> Since(seen, n, d, i) /\ Reaches(seen, n, d, i)
  <2>1. i \in S /\ i \in 1..n
    BY <1>2, <1>3
  <2>2. i..(n+1) = (i..n) \cup {n + 1}
    BY <2>1
  <2>3. (\A j \in i..(n+1) : seen[j].kind # "torn") <=> \A j \in i..n : seen[j].kind # "torn"
    BY <2>2
  <2> HIDE DEF R, S
  <2>4. \A j \in R : Follows(seen, n + 1, d, i, j) <=> Follows(seen, n, d, i, j)
    <3>1. \A k \in S : \A j \in R : k < j => k \in R
      BY <1>2, <1>3
    <3>2. \A k \in R : k \in S
      BY <1>2
    <3> QED BY <3>1, <3>2 DEF Follows, R, S
  <2>5. Follows(seen, n + 1, d, i, n + 1) <=> Reaches(seen, n, d, i)
    <3>1. \A k \in S : k < n + 1 <=> k \in R
      BY <1>2, <1>3
    <3>2. \A k \in R : k \in S
      BY <1>2
    <3> QED BY <3>1, <3>2 DEF Follows, Reaches, R, S
  <2>6. n + 1 >= i /\ n + 1 # i
    BY <2>1
  <2>7. ASSUME Since(seen, n + 1, d, i) PROVE Since(seen, n, d, i) /\ Reaches(seen, n, d, i)
    <3>1. \A j \in S : j >= i => seen[j].raw >= 2 /\ (j # i => Follows(seen, n + 1, d, i, j))
      BY <2>7 DEF Since, S
    <3>2. Reaches(seen, n, d, i)
      BY <1>2, <2>5, <2>6, <3>1
    <3>3. \A j \in R : j >= i => seen[j].raw >= 2 /\ (j # i => Follows(seen, n, d, i, j))
      BY <1>2, <2>4, <3>1
    <3>4. \A j \in i..n : seen[j].kind # "torn"
      BY <2>3, <2>7 DEF Since
    <3> QED BY <3>2, <3>3, <3>4 DEF Since, R
  <2>8. ASSUME Since(seen, n, d, i), Reaches(seen, n, d, i) PROVE Since(seen, n + 1, d, i)
    <3>1. \A j \in R : j >= i => seen[j].raw >= 2 /\ (j # i => Follows(seen, n, d, i, j))
      BY <2>8 DEF Since, R
    <3>2. \A j \in S : j >= i => seen[j].raw >= 2 /\ (j # i => Follows(seen, n + 1, d, i, j))
      BY <1>1, <1>2, <2>4, <2>5, <2>8, <3>1
    <3>3. \A j \in i..(n+1) : seen[j].kind # "torn"
      BY <2>3, <2>8 DEF Since
    <3> QED BY <2>1, <3>2, <3>3 DEF Since, S
  <2> QED BY <2>7, <2>8
<1> QED BY <1>2, <1>4, <1>5

LEMMA RendersAreEarlier ==
  ASSUME NEW Dirs, NEW seen \in Seq(Observation(Dirs, Int, Nat)), InOrder(seen),
         NEW n \in Nat, n + 1 <= Len(seen), seen[n+1].kind # "torn", NEW d
  PROVE  \A j, k \in RendersOf(seen, n, d) :
           /\ j \in Nat /\ j < n + 1 /\ seen[j].at \in Int /\ seen[j].at <= seen[n+1].at
           /\ j <= k => seen[j].at <= seen[k].at
<1> SUFFICES ASSUME NEW j \in RendersOf(seen, n, d), NEW k \in RendersOf(seen, n, d)
             PROVE  /\ j \in Nat /\ j < n + 1 /\ seen[j].at \in Int /\ seen[j].at <= seen[n+1].at
                    /\ j <= k => seen[j].at <= seen[k].at
  OBVIOUS
<1>1. n <= Len(seen) /\ n + 1 \in DOMAIN seen
  BY SeenAt
<1>2. /\ j \in 1..n /\ j \in DOMAIN seen /\ seen[j].kind = "render" /\ seen[j].at \in Int
      /\ k \in 1..n /\ k \in DOMAIN seen /\ seen[k].kind = "render" /\ seen[k].at \in Int
  BY <1>1, RenderFacts
<1>3. seen[n+1].kind = "render"
  BY SeenAt
<1>4. j <= n + 1 /\ j \in Nat /\ j < n + 1
  BY <1>2
<1> QED BY <1>1, <1>2, <1>3, <1>4 DEF InOrder

\* An episode begins where there was none, or after a gap.
LEMMA EpisodeBegins ==
  ASSUME NEW Dirs, NEW seen \in Seq(Observation(Dirs, Int, Nat)), InOrder(seen),
         Gap \in Nat, MaxAge \in Nat, Gap <= MaxAge,
         NEW n \in Nat, n + 1 <= Len(seen), seen[n+1].kind # "torn", ~(seen[n+1].raw < 2),
         NEW d, d = seen[n+1].dir,
         \/ Over(seen, n, d)
         \/ \E ep \in Episode : Begun(seen, n, d, ep) /\ seen[n+1].at - ep.last > Gap
  PROVE  Begun(seen, n + 1, d, [first |-> seen[n+1].at, last |-> seen[n+1].at])
<1> DEFINE R == RendersOf(seen, n, d)
           S == RendersOf(seen, n + 1, d)
           t == seen[n+1].at
<1>1. S = R \cup {n + 1} /\ Since(seen, n + 1, d, n + 1)
  BY OneMoreRender
<1>2. \A i \in R : Since(seen, n + 1, d, i) <=> Since(seen, n, d, i) /\ Reaches(seen, n, d, i)
  BY OneMoreRender
<1>3. \A j, k \in R : /\ j \in Nat /\ j < n + 1 /\ seen[j].at \in Int /\ seen[j].at <= t
                      /\ j <= k => seen[j].at <= seen[k].at
  BY RendersAreEarlier
<1>4. t \in Int
  BY SeenAt
<1>5. ASSUME NEW i \in R, Since(seen, n, d, i), Reaches(seen, n, d, i) PROVE FALSE
  <2>1. PICK k \in R : i <= k /\ t - seen[k].at <= Gap
    BY <1>5 DEF Reaches
  <2>2. CASE Over(seen, n, d)
    <3>1. Aged(seen, n, k)
      BY <1>5, <2>2 DEF Over
    <3>2. PICK m \in 1..n : seen[m].kind = "render" /\ seen[m].at - seen[k].at > MaxAge
      BY <3>1 DEF Aged
    <3>3. m \in RendersOf(seen, n, seen[m].dir)
      BY <3>2 DEF RendersOf
    <3>4. seen[m].at \in Int /\ seen[m].at <= t
      BY <3>3, RendersAreEarlier
    <3> QED BY <1>3, <1>4, <2>1, <3>2, <3>4
  <2>3. CASE \E ep \in Episode : Begun(seen, n, d, ep) /\ t - ep.last > Gap
    <3>1. PICK ep \in Episode : Begun(seen, n, d, ep) /\ t - ep.last > Gap
      BY <2>3
    <3>2. PICK l \in R : ep.last = seen[l].at /\ \A j \in R : j <= l
      BY <3>1 DEF Begun
    <3>3. seen[k].at <= seen[l].at /\ seen[k].at \in Int /\ seen[l].at \in Int
      BY <1>3, <3>2
    <3> QED BY <1>4, <2>1, <3>1, <3>2, <3>3
  <2> QED BY <2>2, <2>3
<1>6. \A i \in S : Since(seen, n + 1, d, i) => i = n + 1
  BY <1>1, <1>2, <1>5
<1>7. n + 1 \in S /\ \A j \in S : j <= n + 1
  BY <1>1, <1>3
<1> DEFINE ep == [first |-> t, last |-> t]
<1>8. ep.first = seen[n+1].at /\ ep.last = seen[n+1].at
  OBVIOUS
<1> HIDE DEF R, S, t, ep
<1>9. n + 1 <= n + 1
  OBVIOUS
<1>10. Begun(seen, n + 1, d, ep)
  BY <1>1, <1>6, <1>7, <1>8, <1>9 DEF Begun, S
<1> QED BY <1>10 DEF ep, t

\* An episode goes on with a render in time.
LEMMA EpisodeGoesOn ==
  ASSUME NEW Dirs, NEW seen \in Seq(Observation(Dirs, Int, Nat)), InOrder(seen), Gap \in Nat,
         NEW n \in Nat, n + 1 <= Len(seen), seen[n+1].kind # "torn", ~(seen[n+1].raw < 2),
         NEW d, d = seen[n+1].dir,
         NEW old \in Episode, Begun(seen, n, d, old), seen[n+1].at - old.last <= Gap
  PROVE  Begun(seen, n + 1, d, [first |-> old.first, last |-> seen[n+1].at])
<1> DEFINE R == RendersOf(seen, n, d)
           S == RendersOf(seen, n + 1, d)
           t == seen[n+1].at
           ep == [first |-> old.first, last |-> t]
<1>1. S = R \cup {n + 1} /\ Since(seen, n + 1, d, n + 1)
  BY OneMoreRender
<1>2. \A i \in R : Since(seen, n + 1, d, i) <=> Since(seen, n, d, i) /\ Reaches(seen, n, d, i)
  BY OneMoreRender
<1>3. \A j, k \in R : /\ j \in Nat /\ j < n + 1 /\ seen[j].at \in Int /\ seen[j].at <= t
                      /\ j <= k => seen[j].at <= seen[k].at
  BY RendersAreEarlier
<1>4. PICK i \in R : /\ Since(seen, n, d, i) /\ old.first = seen[i].at
                     /\ \A l \in R : Since(seen, n, d, l) => i <= l
  BY DEF Begun
<1>5. PICK k \in R : old.last = seen[k].at /\ \A j \in R : j <= k
  BY DEF Begun
<1>6. Reaches(seen, n, d, i)
  BY <1>5 DEF Reaches
<1>7. i \in S /\ Since(seen, n + 1, d, i)
  BY <1>1, <1>2, <1>4, <1>6
<1>8. \A l \in S : Since(seen, n + 1, d, l) => i <= l
  <2>1. i <= n + 1
    BY <1>3
  <2> QED BY <1>1, <1>2, <1>4, <2>1
<1>9. n + 1 \in S /\ \A j \in S : j <= n + 1
  BY <1>1, <1>3
<1>10. ep.first = seen[i].at /\ ep.last = seen[n+1].at
  BY <1>4
<1> HIDE DEF R, S, t, ep
<1>11. Begun(seen, n + 1, d, ep)
  BY <1>7, <1>8, <1>9, <1>10 DEF Begun, S
<1> QED BY <1>11 DEF ep, t

\* Each observation leaves the episodes right.
LEMMA ObservationKeepsThem ==
  ASSUME NEW Dirs, NEW seen \in Seq(Observation(Dirs, Int, Nat)), InOrder(seen),
         Gap \in Nat, MaxAge \in Nat, Gap <= MaxAge,
         NEW n \in Nat, n + 1 <= Len(seen), NEW s \in States(Dirs),
         EpisodesAreRight(Dirs, seen, n, s.episodes)
  PROVE  EpisodesAreRight(Dirs, seen, n + 1, Observe(s, seen[n+1]).episodes)
<1> DEFINE o == seen[n+1]
           e == s.episodes
           x == Continued(e, o)
           d == o.dir
           t == o.at
<1>1. CASE o.kind = "torn"
  <2>1. Observe(s, o) = Quiet /\ DOMAIN Quiet.episodes = {}
    BY <1>1, ObserveCases, QuietType
  <2>2. \A c \in Dirs : Over(seen, n + 1, c)
    BY <1>1, TornEnds
  <2> QED BY <2>1, <2>2 DEF EpisodesAreRight
<1>2. CASE o.kind # "torn"
  <2>1. /\ o \in [kind : {"render"}, dir : Dirs, at : Int, raw : Nat]
        /\ d \in Dirs /\ t \in Int /\ o.raw \in Nat
    BY <1>2, SeenAt
  <2>2. e \in Episodes(Dirs)
    BY DEF States
  <2>3. DOMAIN e \subseteq Dirs /\ IsEpisodes(e)
    BY <2>2, EpisodesOf
  <2>4. x \in Episode
    BY <2>1, <2>2, RenderedType
  <2>5. \A c \in DOMAIN e : e[c] \in Episode /\ Begun(seen, n, c, e[c])
    BY <2>3 DEF EpisodesAreRight, IsEpisodes
  <2>6. \A c \in Dirs \ DOMAIN e : Over(seen, n, c)
    BY DEF EpisodesAreRight
  <2>7. \A c : c # d => /\ Over(seen, n, c) => Over(seen, n + 1, c)
                        /\ \A ep \in Episode : Begun(seen, n, c, ep) => Begun(seen, n + 1, c, ep)
                        /\ \A ep \in Episode : Begun(seen, n, c, ep) /\ t - ep.last > MaxAge
                                                  => Over(seen, n + 1, c)
    BY <1>2, OthersStay
  <2>8. CASE o.raw < 2
    <3>1. Observe(s, o).episodes = Calmed(e, o)
      BY <1>2, <2>8, ObserveCases
    <3>2. Over(seen, n + 1, d)
      BY <1>2, <2>8, QuietEnds
    <3> HIDE DEF x, e, o
    <3>3. CASE d \notin DOMAIN e
      <4>1. Calmed(e, o) = e
        BY <3>3 DEF Calmed
      <4>2. \A c \in DOMAIN e : Begun(seen, n + 1, c, e[c])
        BY <2>5, <2>7, <3>3
      <4>3. \A c \in Dirs \ DOMAIN e : Over(seen, n + 1, c)
        BY <2>6, <2>7, <3>2
      <4>4. EpisodesAreRight(Dirs, seen, n + 1, e)
        BY <4>2, <4>3 DEF EpisodesAreRight
      <4> QED BY <3>1, <4>1, <4>4 DEF o
    <3>4. CASE d \in DOMAIN e
      <4> DEFINE w == Without(e, d)
                 p == Pruned(w, t)
      <4>1. DOMAIN w = DOMAIN e \ {d} /\ IsEpisodes(w) /\ \A c \in DOMAIN e \ {d} : w[c] = e[c]
        BY <2>3, WithoutFacts
      <4> HIDE DEF w
      <4>2. DOMAIN p = {c \in DOMAIN w : t - w[c].last <= MaxAge} /\ \A c \in DOMAIN p : p[c] = w[c]
        BY <2>1, <4>1, PrunedFacts
      <4>3. Calmed(e, o) = p
        BY <3>4 DEF Calmed, w
      <4> HIDE DEF p, t, d
      <4>4. \A c \in DOMAIN p : c \in DOMAIN e /\ c # d /\ p[c] = e[c]
        BY <4>1, <4>2
      <4>5. \A c \in DOMAIN p : Begun(seen, n + 1, c, p[c])
        BY <2>5, <2>7, <4>4
      <4>6. ASSUME NEW c \in Dirs \ DOMAIN p PROVE Over(seen, n + 1, c)
        <5>1. CASE c = d
          BY <3>2, <5>1
        <5>2. CASE c # d /\ c \notin DOMAIN e
          BY <2>6, <2>7, <5>2
        <5>3. CASE c # d /\ c \in DOMAIN e
          <6>1. e[c].last \in Int
            BY <2>5, <5>3 DEF Episode
          <6>2. t - e[c].last > MaxAge
            BY <2>1, <4>1, <4>2, <4>6, <5>3, <6>1
          <6> QED BY <2>5, <2>7, <5>3, <6>2
        <5> QED BY <5>1, <5>2, <5>3
      <4>7. EpisodesAreRight(Dirs, seen, n + 1, p)
        BY <4>5, <4>6 DEF EpisodesAreRight
      <4> QED BY <3>1, <4>3, <4>7 DEF o
    <3> QED BY <3>3, <3>4
  <2>9. CASE ~(o.raw < 2)
    <3>1. Observe(s, o).episodes = Rendered(e, o)
      BY <1>2, <2>9, ObserveCases
    <3>2. Begun(seen, n + 1, d, x)
      <4>1. CASE d \in DOMAIN e /\ t - e[d].last <= Gap
        <5>1. x = [first |-> e[d].first, last |-> t]
          BY <4>1 DEF Continued
        <5>2. e[d] \in Episode /\ Begun(seen, n, d, e[d])
          BY <2>5, <4>1
        <5>3. Begun(seen, n + 1, d, [first |-> e[d].first, last |-> t])
          BY <1>2, <2>9, <4>1, <5>2, EpisodeGoesOn
        <5> QED BY <5>1, <5>3
      <4>2. CASE ~(d \in DOMAIN e /\ t - e[d].last <= Gap)
        <5>1. x = [first |-> t, last |-> t]
          BY <4>2 DEF Continued
        <5>2. \/ Over(seen, n, d)
              \/ \E ep \in Episode : Begun(seen, n, d, ep) /\ t - ep.last > Gap
          <6>1. CASE d \notin DOMAIN e
            BY <2>1, <2>6, <6>1
          <6>2. CASE d \in DOMAIN e
            <7>1. e[d] \in Episode /\ Begun(seen, n, d, e[d]) /\ e[d].last \in Int
              BY <2>5, <6>2 DEF Episode
            <7>2. t - e[d].last > Gap
              BY <2>1, <4>2, <6>2, <7>1
            <7> QED BY <7>1, <7>2
          <6> QED BY <6>1, <6>2
        <5>3. Begun(seen, n + 1, d, [first |-> t, last |-> t])
          BY <1>2, <2>9, <5>2, EpisodeBegins
        <5> QED BY <5>1, <5>3
      <4> QED BY <4>1, <4>2
    <3>3. x.last = t
      BY DEF Continued
    <3> DEFINE w == With(e, d, x)
               p == Pruned(w, t)
    <3> HIDE DEF x, e, d
    <3>4. /\ DOMAIN w = DOMAIN e \cup {d} /\ IsEpisodes(w)
          /\ w[d] = x /\ \A c \in DOMAIN e \ {d} : w[c] = e[c]
      <4>1. DOMAIN w = DOMAIN e \cup {d} /\ IsEpisodes(w)
        BY <2>3, <2>4, WithFacts
      <4>2. w[d] = x /\ \A c \in DOMAIN e \ {d} : w[c] = e[c]
        BY DEF With
      <4> QED BY <4>1, <4>2
    <3> HIDE DEF w
    <3>5. DOMAIN p = {c \in DOMAIN w : t - w[c].last <= MaxAge} /\ \A c \in DOMAIN p : p[c] = w[c]
      BY <2>1, <3>4, PrunedFacts
    <3>6. Rendered(e, o) = p
      BY DEF Rendered, w, x, d
    <3> HIDE DEF p, t, o
    <3>7. d \in DOMAIN p
      <4>1. t - t <= MaxAge
        BY <2>1
      <4> QED BY <3>3, <3>4, <3>5, <4>1
    <3>8. ASSUME NEW c \in DOMAIN p PROVE Begun(seen, n + 1, c, p[c])
      <4>1. CASE c = d
        BY <3>2, <3>4, <3>5, <4>1, <3>8
      <4>2. CASE c # d
        <5>1. c \in DOMAIN e /\ p[c] = e[c]
          BY <3>4, <3>5, <3>8, <4>2
        <5> QED BY <2>5, <2>7, <4>2, <5>1
      <4> QED BY <4>1, <4>2
    <3>9. ASSUME NEW c \in Dirs \ DOMAIN p PROVE Over(seen, n + 1, c)
      <4>1. c # d
        BY <3>7, <3>9
      <4>2. CASE c \notin DOMAIN e
        BY <2>6, <2>7, <4>1, <4>2
      <4>3. CASE c \in DOMAIN e
        <5>1. e[c].last \in Int
          BY <2>5, <4>3 DEF Episode
        <5>2. t - e[c].last > MaxAge
          BY <2>1, <3>4, <3>5, <3>9, <4>1, <4>3, <5>1
        <5> QED BY <2>5, <2>7, <4>1, <4>3, <5>2
      <4> QED BY <4>2, <4>3
    <3>10. EpisodesAreRight(Dirs, seen, n + 1, p)
      BY <3>8, <3>9 DEF EpisodesAreRight
    <3> QED BY <3>1, <3>6, <3>10 DEF o
  <2> QED BY <2>8, <2>9
<1> QED BY <1>1, <1>2

LEMMA EpisodesStayRight ==
  ASSUME NEW Dirs, NEW seen \in Seq(Observation(Dirs, Int, Nat)), InOrder(seen),
         Gap \in Nat, MaxAge \in Nat, Gap <= MaxAge, NEW f, IsHistory(f, seen, States(Dirs))
  PROVE  \A n \in 0..Len(seen) : EpisodesAreRight(Dirs, seen, n, f[n].episodes)
<1> DEFINE Good == {n \in Nat : n <= Len(seen) => EpisodesAreRight(Dirs, seen, n, f[n].episodes)}
<1>1. 0 \in Good
  <2>1. f[0] = Quiet /\ DOMAIN Quiet.episodes = {}
    BY QuietType DEF IsHistory
  <2>2. \A d : RendersOf(seen, 0, d) = {}
    BY DEF RendersOf
  <2>3. \A d : Over(seen, 0, d)
    BY <2>2 DEF Over
  <2>4. EpisodesAreRight(Dirs, seen, 0, f[0].episodes)
    BY <2>1, <2>3 DEF EpisodesAreRight
  <2> QED BY <2>4
<1>2. ASSUME NEW n \in Nat, n \in Good PROVE n + 1 \in Good
  <2> SUFFICES ASSUME n + 1 <= Len(seen)
               PROVE  EpisodesAreRight(Dirs, seen, n + 1, f[n + 1].episodes)
    OBVIOUS
  <2>1. n \in 0..Len(seen) /\ n + 1 \in 1..Len(seen) /\ (n + 1) - 1 = n
    OBVIOUS
  <2>2. f[n] \in States(Dirs)
    BY <2>1 DEF IsHistory
  <2>3. f[n + 1] = Observe(f[n], seen[n + 1])
    BY <2>1 DEF IsHistory
  <2>4. EpisodesAreRight(Dirs, seen, n, f[n].episodes)
    BY <1>2, <2>1
  <2>5. EpisodesAreRight(Dirs, seen, n + 1, Observe(f[n], seen[n+1]).episodes)
    BY <2>2, <2>4, ObservationKeepsThem
  <2> QED BY <2>3, <2>5
<1>3. Nat \subseteq Good
  <2> HIDE DEF Good
  <2> QED BY <1>1, <1>2, NumbersByInduction
<1> QED BY <1>3

\* What is shown after observations of any directories, as many as may come, as
\* long as the clock does not go back.
LEMMA DebounceOfSequence ==
  ASSUME Gap \in Nat, MaxAge \in Nat, Gap <= MaxAge, Dwell \in Nat,
         NEW Dirs, NEW seen \in Seq(Observation(Dirs, Int, Nat)), InOrder(seen)
  PROVE  MatchesEpisodes(seen)
<1> DEFINE N == Len(seen)
           o == seen[N]
           d == o.dir
           held == \E i \in DOMAIN seen : SeenSince(seen, i) /\ o.at - seen[i].at >= Dwell
<1> SUFFICES ASSUME seen # <<>>, o.kind = "render"
             PROVE  Debounced(seen).shown = IF o.raw < 2 \/ held THEN o.raw ELSE 1
  BY DEF MatchesEpisodes, Last
<1>1. PICK f : IsHistory(f, seen, States(Dirs))
  BY DebouncedSteps
<1>2. \A n \in 0..N : EpisodesAreRight(Dirs, seen, n, f[n].episodes)
  BY <1>1, EpisodesStayRight
<1>3. N \in Nat /\ N >= 1 /\ N \in 1..N /\ N - 1 \in 0..N /\ N \in 0..N /\ DOMAIN seen = 1..N
  OBVIOUS
<1>4. o \in [kind : {"render"}, dir : Dirs, at : Int, raw : Nat]
  BY <1>3 DEF Observation
<1>5. f[N] = Observe(f[N - 1], o) /\ f[N - 1] \in States(Dirs) /\ Debounced(seen) = f[N]
  BY <1>1, <1>3 DEF IsHistory
<1>6. CASE o.raw < 2
  <2>1. Debounced(seen).shown = o.raw
    BY <1>5, <1>6, ObserveCases
  <2> QED BY <1>6, <2>1
<1>7. CASE ~(o.raw < 2)
  <2> DEFINE e == f[N - 1].episodes
             x == Continued(e, o)
  <2>1. f[N] = [episodes |-> Rendered(e, o), shown |-> Shows(e, o)]
    BY <1>5, <1>7, ObserveCases
  <2>2. e \in Episodes(Dirs)
    BY <1>5 DEF States
  <2>3. x \in Episode
    BY <1>4, <2>2, RenderedType
  <2>4. Begun(seen, N, d, x)
    <3>1. DOMAIN e \subseteq Dirs /\ IsEpisodes(e)
      BY <2>2, EpisodesOf
    <3> DEFINE w == With(e, d, x)
               p == Pruned(w, o.at)
    <3>2. x.last = o.at
      BY DEF Continued
    <3>3. EpisodesAreRight(Dirs, seen, N, p)
      BY <1>2, <1>3, <2>1 DEF Rendered
    <3>4. o.at \in Int
      BY <1>4
    <3> HIDE DEF x, e, d
    <3>5. DOMAIN w = DOMAIN e \cup {d} /\ IsEpisodes(w) /\ w[d] = x
      <4>1. DOMAIN w = DOMAIN e \cup {d} /\ IsEpisodes(w)
        BY <2>3, <3>1, WithFacts
      <4>2. w[d] = x
        BY DEF With
      <4> QED BY <4>1, <4>2
    <3> HIDE DEF w
    <3>6. DOMAIN p = {c \in DOMAIN w : o.at - w[c].last <= MaxAge} /\ \A c \in DOMAIN p : p[c] = w[c]
      BY <3>4, <3>5, PrunedFacts
    <3>7. o.at - o.at <= MaxAge
      BY <3>4
    <3>8. d \in DOMAIN p /\ p[d] = x
      BY <3>2, <3>5, <3>6, <3>7
    <3> HIDE DEF p
    <3> QED BY <3>3, <3>8 DEF EpisodesAreRight
  <2>5. \A i : SeenSince(seen, i) <=> Since(seen, N, d, i)
    <3>1. Same(seen) = RendersOf(seen, N, d)
      BY <1>3 DEF Same, RendersOf, Last
    <3> DEFINE R == RendersOf(seen, N, d)
    <3>2. ASSUME NEW i PROVE SeenSince(seen, i) <=> Since(seen, N, d, i)
      <4> DEFINE T == {j \in R : j >= i}
      <4>1. SeenSince(seen, i) <=>
              /\ i \in R
              /\ \A j \in T : seen[j].raw >= 2
                              /\ (j # i => \E k \in T : k < j /\ seen[j].at - seen[k].at <= Gap)
              /\ \A j \in i..N : seen[j].kind # "torn"
        BY <3>1 DEF SeenSince
      <4>2. Since(seen, N, d, i) <=>
              /\ i \in R
              /\ \A j \in R : j >= i =>
                    seen[j].raw >= 2
                    /\ (j # i => \E k \in R : i <= k /\ k < j /\ seen[j].at - seen[k].at <= Gap)
              /\ \A j \in i..N : seen[j].kind # "torn"
        BY DEF Since, Follows
      <4>3. ASSUME i \in R PROVE \A k \in R : i <= k <=> k >= i
        OBVIOUS
      <4> HIDE DEF R
      <4> QED BY <4>1, <4>2, <4>3
    <3> QED BY <3>2
  <2>6. \A i \in RendersOf(seen, N, d) : /\ i \in DOMAIN seen /\ i \in Nat
                                         /\ seen[i].kind = "render" /\ seen[i].at \in Int
    BY <1>3, RenderFacts
  <2>7. PICK i \in RendersOf(seen, N, d) :
          /\ Since(seen, N, d, i) /\ x.first = seen[i].at
          /\ \A l \in RendersOf(seen, N, d) : Since(seen, N, d, l) => i <= l
    BY <2>4 DEF Begun
  <2>8. held <=> o.at - x.first >= Dwell
    <3>1. ASSUME o.at - x.first >= Dwell PROVE held
      BY <2>5, <2>6, <2>7, <3>1
    <3>2. ASSUME held PROVE o.at - x.first >= Dwell
      <4>1. PICK l \in DOMAIN seen : SeenSince(seen, l) /\ o.at - seen[l].at >= Dwell
        BY <3>2
      <4>2. Since(seen, N, d, l)
        BY <2>5, <4>1
      <4>3. l \in RendersOf(seen, N, d)
        BY <4>2 DEF Since
      <4>4. i <= l
        BY <2>7, <4>2, <4>3
      <4>5. seen[i].at <= seen[l].at /\ seen[i].at \in Int /\ seen[l].at \in Int
        BY <2>6, <4>3, <4>4 DEF InOrder
      <4>6. o.at \in Int
        BY <1>4
      <4> QED BY <2>7, <4>1, <4>5, <4>6
    <3> QED BY <3>1, <3>2
  <2>9. Debounced(seen).shown = Shows(e, o)
    BY <1>5, <2>1
  <2> HIDE DEF held, x
  <2>10. Shows(e, o) = IF o.at - x.first >= Dwell THEN o.raw ELSE 1
    BY DEF Shows, x
  <2>11. (o.raw < 2 \/ held) <=> o.at - x.first >= Dwell
    BY <1>7, <2>8
  <2> QED BY <2>9, <2>10, <2>11
<1> QED BY <1>6, <1>7

-----------------------------------------------------------------------------
(* The inputs of the algorithms, as they grow.                             *)

ObservationsTyped ==
    algorithm = "debounce" => input \in Seq(Observation(Directories, Int, Nat)) /\ InOrder(input)

LEMMA ObservationsAreTyped == Inputs => []ObservationsTyped
<1>1. NoInput => ObservationsTyped
  <2> SUFFICES ASSUME input = <<>> PROVE input \in Seq(Observation(Directories, Int, Nat)) /\ InOrder(input)
    BY DEF NoInput, ObservationsTyped
  <2>1. input \in Seq(Observation(Directories, Int, Nat)) /\ DOMAIN input = {}
    OBVIOUS
  <2> QED BY <2>1 DEF InOrder
<1>2. ObservationsTyped /\ [NextInput]_inputVars => ObservationsTyped'
  <2> SUFFICES ASSUME ObservationsTyped, [NextInput]_inputVars, algorithm' = "debounce"
               PROVE  input' \in Seq(Observation(Directories, Int, Nat)) /\ InOrder(input')
    BY DEF ObservationsTyped, InOrder
  <2>1. CASE UNCHANGED inputVars
    BY <2>1 DEF inputVars, ObservationsTyped, InOrder
  <2>2. CASE NextInput
    <3>1. algorithm = "debounce"
      BY <2>2 DEF NextInput, NextObservation, NextLine, NextTurn, NextHook, Grow
    <3>2. NextObservation
      BY <2>2, <3>1 DEF NextInput, NextLine, NextTurn, NextHook
    <3>3. PICK o \in Observation(Directories, Times, Counts) :
            /\ o.kind = "render" =>
                 \A i \in DOMAIN input : input[i].kind = "render" => input[i].at <= o.at
            /\ input' = Append(input, o)
      BY <3>2 DEF NextObservation, Grow
    <3>4. input \in Seq(Observation(Directories, Int, Nat)) /\ InOrder(input)
      BY <3>1 DEF ObservationsTyped
    <3>5. o \in Observation(Directories, Int, Nat)
      BY InputAssumption DEF Observation
    <3>6. /\ input' \in Seq(Observation(Directories, Int, Nat))
          /\ Len(input') = Len(input) + 1 /\ input'[Len(input) + 1] = o
          /\ \A i \in 1..Len(input) : input'[i] = input[i]
          /\ DOMAIN input' = 1..(Len(input) + 1) /\ DOMAIN input = 1..Len(input)
          /\ Len(input) \in Nat
      BY <3>3, <3>4, <3>5
    <3>7. ASSUME NEW j \in DOMAIN input', NEW k \in DOMAIN input',
                 input'[j].kind = "render", input'[k].kind = "render", j <= k
          PROVE  input'[j].at <= input'[k].at
      <4>1. CASE k \in 1..Len(input)
        <5>1. j \in 1..Len(input)
          BY <3>6, <3>7, <4>1
        <5> QED BY <3>4, <3>6, <3>7, <4>1, <5>1 DEF InOrder
      <4>2. CASE k = Len(input) + 1 /\ j \in 1..Len(input)
        <5>1. input'[k] = o /\ input'[j] = input[j] /\ j \in DOMAIN input
          BY <3>6, <4>2
        <5> QED BY <3>3, <3>7, <5>1
      <4>3. CASE k = Len(input) + 1 /\ j = Len(input) + 1
        <5>1. input'[k] = o /\ input'[j] = o
          BY <3>6, <4>3
        <5>2. o \in [kind : {"render"}, dir : Directories, at : Int, raw : Nat]
          BY <3>5, <3>7, <5>1 DEF Observation
        <5>3. o.at \in Int
          BY <5>2
        <5> QED BY <5>1, <5>3
      <4> QED BY <3>6, <3>7, <4>1, <4>2, <4>3
    <3> QED BY <3>6, <3>7 DEF InOrder
  <2> QED BY <2>1, <2>2
<1> QED BY <1>1, <1>2, PTL DEF Inputs

\* The badge of debounce_session_count shows the count it read, except that it
\* says 1 for a second session that has not been seen for the whole dwell: for
\* any directories and counts, and as many observations as may come.
THEOREM DebounceIsRight == Inputs => []DebounceMatchesEpisodes
<1>1. ObservationsTyped => DebounceMatchesEpisodes
  <2> SUFFICES ASSUME ObservationsTyped, algorithm = "debounce" PROVE MatchesEpisodes(input)
    BY DEF DebounceMatchesEpisodes
  <2>1. input \in Seq(Observation(Directories, Int, Nat)) /\ InOrder(input)
    BY DEF ObservationsTyped
  <2>2. Gap \in Nat /\ MaxAge \in Nat /\ Gap <= MaxAge /\ Dwell \in Nat
    BY InputAssumption
  <2> HIDE DEF InOrder
  <2> QED BY <2>1, <2>2, DebounceOfSequence
<1> QED BY <1>1, ObservationsAreTyped, PTL

-----------------------------------------------------------------------------
(* The scan for beacon anchors.                                            *)

Anchors == [begin : Nat, report : Nat, eta : Int]
Stamp == [ts : Nat \ {0}, kind : {"begin", "report", "end", "other"}, eta : Int]
TextLine == [assistant : BOOLEAN, ts : Nat, beacons : Seq(Beacon(Int))]

\* The beacons of a line, as Stamped lists them.
StampedBeacons(line) ==
    [j \in DOMAIN line.beacons |-> [ts |-> line.ts, kind |-> line.beacons[j].kind,
                                    eta |-> line.beacons[j].eta]]

\* What MatchesLifecycle says, for a sequence of beacons.
OpenOf(all) ==
    {i \in DOMAIN all : all[i].kind = "begin"
                        /\ \A j \in DOMAIN all : all[j].kind \in {"begin", "end"} => j <= i}
ReportsOf(all) ==
    {j \in DOMAIN all : all[j].kind = "report" /\ \E i \in OpenOf(all) : i < j}

Told(all, got) ==
    /\ OpenOf(all) = {} => got = NoAnchors
    /\ \A i \in OpenOf(all) :
          /\ got.begin = all[i].ts
          /\ got.eta = IF all[i].eta > 0 THEN all[i].eta ELSE None
          /\ ReportsOf(all) = {} => got.report = None
          /\ \A j \in ReportsOf(all) :
                (\A k \in ReportsOf(all) : k <= j) => got.report = all[j].ts

\* One beacon more.
LEMMA OneMoreBeacon ==
  ASSUME NEW all \in Seq(Stamp), NEW got \in Anchors, Told(all, got),
         NEW b \in Beacon(Int), NEW ts \in Nat \ {0}
  PROVE  /\ ApplyBeacon(got, ts, b) \in Anchors
         /\ Told(Append(all, [ts |-> ts, kind |-> b.kind, eta |-> b.eta]), ApplyBeacon(got, ts, b))
<1> DEFINE s == [ts |-> ts, kind |-> b.kind, eta |-> b.eta]
           N == Len(all)
           new == Append(all, s)
           next == ApplyBeacon(got, ts, b)
<1>1. /\ b.kind \in {"begin", "report", "end", "other"} /\ b.eta \in Int
      /\ s.kind = b.kind /\ s.eta = b.eta /\ s.ts = ts
  BY DEF Beacon
<1>2. s \in Stamp
  BY <1>1 DEF Stamp
<1>3. /\ N \in Nat /\ DOMAIN all = 1..N /\ DOMAIN new = (1..N) \cup {N + 1}
      /\ new[N + 1] = s /\ \A i \in 1..N : new[i] = all[i]
  <2> HIDE DEF s
  <2> QED BY <1>2
<1>4. \A i \in 1..N : all[i].ts # 0
  <2>1. \A i \in 1..N : all[i] \in Stamp
    OBVIOUS
  <2> QED BY <2>1 DEF Stamp
<1>5. N + 1 \notin 1..N /\ \A i \in 1..N : i \in Nat /\ i < N + 1 /\ ~(N + 1 <= i) /\ i <= N + 1
  BY <1>3
<1> HIDE DEF s, N, new
<1>6. CASE b.kind = "begin"
  <2>1. next = [begin |-> ts, report |-> None, eta |-> IF b.eta > 0 THEN b.eta ELSE None]
    BY <1>6 DEF ApplyBeacon
  <2>2. next \in Anchors
    BY <1>1, <2>1 DEF Anchors, None
  <2>3. OpenOf(new) = {N + 1}
    BY <1>1, <1>3, <1>5, <1>6 DEF OpenOf
  <2>4. ReportsOf(new) = {}
    BY <1>1, <1>3, <1>5, <1>6, <2>3 DEF ReportsOf
  <2>5. next.begin = s.ts /\ next.report = None /\ next.eta = IF s.eta > 0 THEN s.eta ELSE None
    BY <1>1, <2>1
  <2> HIDE DEF next
  <2>6. Told(new, next)
    BY <1>3, <2>3, <2>4, <2>5 DEF Told
  <2> QED BY <2>2, <2>6 DEF next, new, s
<1>7. CASE b.kind = "end"
  <2>1. next = NoAnchors
    BY <1>7 DEF ApplyBeacon
  <2>2. next \in Anchors
    BY <2>1 DEF Anchors, None, NoAnchors
  <2>3. OpenOf(new) = {}
    BY <1>1, <1>3, <1>5, <1>7 DEF OpenOf
  <2> HIDE DEF next
  <2>4. Told(new, next)
    BY <2>1, <2>3 DEF Told
  <2> QED BY <2>2, <2>4 DEF next, new, s
<1>8. CASE b.kind = "other"
  <2>1. next = got
    BY <1>8 DEF ApplyBeacon
  <2>2. OpenOf(new) = OpenOf(all)
    BY <1>1, <1>3, <1>5, <1>8 DEF OpenOf
  <2>3. ReportsOf(new) = ReportsOf(all)
    BY <1>1, <1>3, <1>5, <1>8, <2>2 DEF ReportsOf
  <2>4. \A i \in OpenOf(all) : new[i] = all[i]
    BY <1>3 DEF OpenOf
  <2>5. \A i \in ReportsOf(all) : new[i] = all[i]
    BY <1>3 DEF ReportsOf
  <2> HIDE DEF next
  <2>6. Told(new, next)
    BY <2>1, <2>2, <2>3, <2>4, <2>5 DEF Told
  <2> QED BY <2>1, <2>6 DEF next, new, s
<1>9. CASE b.kind = "report"
  <2>1. OpenOf(new) = OpenOf(all)
    BY <1>1, <1>3, <1>5, <1>9 DEF OpenOf
  <2>2. \A i \in OpenOf(all) : i \in 1..N /\ new[i] = all[i] /\ i < N + 1
    BY <1>3, <1>5 DEF OpenOf
  <2>3. CASE OpenOf(all) = {}
    <3>1. got = NoAnchors
      BY <2>3 DEF Told
    <3>2. next = got
      BY <1>9, <3>1 DEF ApplyBeacon, NoAnchors
    <3> HIDE DEF next
    <3>3. Told(new, next)
      BY <2>1, <2>3, <3>1, <3>2 DEF Told
    <3> QED BY <3>2, <3>3 DEF next, new, s
  <2>4. CASE OpenOf(all) # {}
    <3>1. PICK i0 \in OpenOf(all) : TRUE
      BY <2>4
    <3>2. got.begin = all[i0].ts
      BY DEF Told
    <3>3. got.begin # None
      BY <1>4, <2>2, <3>2 DEF None
    <3>4. next = [got EXCEPT !.report = ts]
      BY <1>9, <3>3 DEF ApplyBeacon
    <3>5. next \in Anchors /\ next.begin = got.begin /\ next.eta = got.eta /\ next.report = ts
      BY <3>4 DEF Anchors
    <3>6. N + 1 \in ReportsOf(new)
      BY <1>1, <1>3, <1>9, <2>1, <2>2, <3>1 DEF ReportsOf
    <3>7. \A j \in ReportsOf(new) : j # N + 1 => ~(N + 1 <= j)
      BY <1>3, <1>5 DEF ReportsOf
    <3> HIDE DEF next
    <3>8. ASSUME NEW i \in OpenOf(new)
          PROVE  /\ next.begin = new[i].ts
                 /\ next.eta = IF new[i].eta > 0 THEN new[i].eta ELSE None
                 /\ ReportsOf(new) = {} => next.report = None
                 /\ \A j \in ReportsOf(new) :
                       (\A k \in ReportsOf(new) : k <= j) => next.report = new[j].ts
      <4>1. new[i] = all[i] /\ i \in OpenOf(all)
        BY <2>1, <2>2
      <4>2. got.begin = all[i].ts /\ got.eta = IF all[i].eta > 0 THEN all[i].eta ELSE None
        BY <4>1 DEF Told
      <4>3. ASSUME NEW j \in ReportsOf(new), \A k \in ReportsOf(new) : k <= j
            PROVE  next.report = new[j].ts
        <5>1. j = N + 1
          BY <3>6, <3>7, <4>3
        <5> QED BY <1>1, <1>3, <3>5, <5>1
      <4> QED BY <3>5, <3>6, <4>1, <4>2, <4>3
    <3>9. Told(new, next)
      BY <2>1, <2>4, <3>8 DEF Told
    <3> QED BY <3>5, <3>9 DEF next, new, s
  <2> QED BY <2>3, <2>4
<1> QED BY <1>1, <1>6, <1>7, <1>8, <1>9

\* f[n] are the anchors after n beacons of a line with the stamp ts.
Applied(a, ts, beacons) == FoldLeft(LAMBDA x, b : ApplyBeacon(x, ts, b), a, beacons)

IsTelling(f, a, ts, beacons) ==
    /\ f \in [0..Len(beacons) -> Anchors]
    /\ f[0] = a
    /\ \A n \in 1..Len(beacons) : f[n] = ApplyBeacon(f[n - 1], ts, beacons[n])
    /\ Applied(a, ts, beacons) = f[Len(beacons)]

LEMMA ApplyBeaconType ==
  ASSUME NEW a \in Anchors, NEW ts \in Nat, NEW b \in Beacon(Int)
  PROVE  ApplyBeacon(a, ts, b) \in Anchors
<1>1. b.kind \in {"begin", "report", "end", "other"} /\ b.eta \in Int
  BY DEF Beacon
<1>2. CASE b.kind = "begin"
  <2>1. ApplyBeacon(a, ts, b) =
          [begin |-> ts, report |-> None, eta |-> IF b.eta > 0 THEN b.eta ELSE None]
    BY <1>2 DEF ApplyBeacon
  <2> QED BY <1>1, <2>1 DEF Anchors, None
<1>3. CASE b.kind = "report" /\ a.begin # None
  <2>1. ApplyBeacon(a, ts, b) = [a EXCEPT !.report = ts]
    BY <1>3 DEF ApplyBeacon
  <2> QED BY <2>1 DEF Anchors
<1>4. CASE b.kind = "end"
  BY <1>4 DEF ApplyBeacon, Anchors, NoAnchors, None
<1>5. CASE b.kind = "other" \/ (b.kind = "report" /\ a.begin = None)
  <2>1. ApplyBeacon(a, ts, b) = a
    BY <1>5 DEF ApplyBeacon
  <2> QED BY <2>1
<1> QED BY <1>1, <1>2, <1>3, <1>4, <1>5

LEMMA TellingSteps ==
  ASSUME NEW a \in Anchors, NEW ts \in Nat, NEW beacons \in Seq(Beacon(Int))
  PROVE  \E f : IsTelling(f, a, ts, beacons)
<1> DEFINE N == Len(beacons)
           A == Anchors
           step == [n \in 1..N |-> [x \in A |-> ApplyBeacon(x, ts, beacons[n])]]
           Walk(w) == [t \in SUBSET (DOMAIN beacons) |->
                         IF t = {} THEN a ELSE ApplyBeacon(w[t \ {Max(t)}], ts, beacons[Max(t)])]
           walk == CHOOSE w : w = Walk(w)
<1>1. N \in Nat /\ DOMAIN beacons = 1..N /\ \A n \in 1..N : beacons[n] \in Beacon(Int)
  OBVIOUS
<1>2. step \in [1..N -> [A -> A]] /\ a \in A
  <2>1. \A n \in 1..N : \A x \in A : ApplyBeacon(x, ts, beacons[n]) \in A
    BY <1>1, ApplyBeaconType
  <2> HIDE DEF A, N
  <2> QED BY <2>1 DEF A
<1> HIDE DEF A
<1>3. PICK g \in [SUBSET (1..N) -> A] : IsFoldFunction(g, N, a, step)
  <2>1. N \in Nat
    BY <1>1
  <2> HIDE DEF step, N, Walk, walk
  <2> QED BY <2>1, <1>2, FoldFunctionExists
<1>4. \A t \in SUBSET (1..N) : g[t] = IF t = {} THEN a ELSE ApplyBeacon(g[t \ {Max(t)}], ts, beacons[Max(t)])
  <2>1. \A t \in SUBSET (1..N) : t # {} => Max(t) \in 1..N /\ t \ {Max(t)} \in SUBSET (1..N)
    BY <1>1, MaxIsMember
  <2> QED BY <1>3, <2>1 DEF IsFoldFunction
<1>5. g = Walk(g)
  <2> HIDE DEF N
  <2> QED BY <1>4, <1>1
<1>6. walk = Walk(walk)
  <2> HIDE DEF Walk
  <2> QED BY <1>5, Zenon
<1>7. Applied(a, ts, beacons) = walk[DOMAIN beacons]
  BY Zenon DEF Applied, FoldLeft, MapThenFoldSet
<1> HIDE DEF walk
<1>8. walk[{}] = a
  BY <1>6
<1>9. \A n \in 1..N : walk[1..n] = ApplyBeacon(walk[1..(n-1)], ts, beacons[n])
  <2> SUFFICES ASSUME NEW n \in 1..N PROVE walk[1..n] = ApplyBeacon(walk[1..(n-1)], ts, beacons[n])
    OBVIOUS
  <2>1. 1..n # {} /\ Max(1..n) = n /\ (1..n) \ {n} = 1..(n-1)
    BY <1>1, IntervalSteps
  <2>2. 1..n \in SUBSET (DOMAIN beacons)
    BY <1>1
  <2>3. walk[1..n] = IF 1..n = {} THEN a
                     ELSE ApplyBeacon(walk[(1..n) \ {Max(1..n)}], ts, beacons[Max(1..n)])
    BY <1>6, <2>2
  <2> QED BY <2>1, <2>3
<1>10. \A n \in 1..N : \A x \in A : step[n][x] = ApplyBeacon(x, ts, beacons[n])
  OBVIOUS
<1>11. GoesOn(walk, N, A, a, step)
  BY <1>8, <1>9, <1>10 DEF GoesOn
<1>12. PICK f : IsRun(f, N, A, a, step) /\ f[N] = walk[1..N]
  <2>1. N \in Nat
    BY <1>1
  <2>2. step \in [1..N -> [A -> A]] /\ a \in A /\ GoesOn(walk, N, A, a, step)
    BY <1>2, <1>11
  <2> HIDE DEF step, N, Walk
  <2>3. RunsLike(walk, N, A, a, step)
    BY <2>1, <2>2, RunAlong
  <2> QED BY <2>3 DEF RunsLike
<1>13. \A n \in 1..N : n - 1 \in 0..N
  BY <1>1
<1>14. IsTelling(f, a, ts, beacons)
  BY <1>1, <1>7, <1>10, <1>12, <1>13 DEF IsTelling, IsRun, A
<1> QED BY <1>14

\* All the beacons of a line more.
LEMMA OneMoreLine ==
  ASSUME NEW all \in Seq(Stamp), NEW got \in Anchors, Told(all, got),
         NEW line \in TextLine, line.ts # None
  PROVE  /\ StampedBeacons(line) \in Seq(Stamp)
         /\ Applied(got, line.ts, line.beacons) \in Anchors
         /\ Told(all \o StampedBeacons(line), Applied(got, line.ts, line.beacons))
<1> DEFINE ts == line.ts
           bs == line.beacons
           st == StampedBeacons(line)
           M == Len(bs)
           N == Len(all)
           Pre(m) == [i \in 1..(N + m) |-> IF i <= N THEN all[i] ELSE st[i - N]]
<1>1. ts \in Nat \ {0} /\ bs \in Seq(Beacon(Int)) /\ M \in Nat /\ DOMAIN bs = 1..M
  BY DEF TextLine, None
<1>2. \A m \in 1..M : bs[m] \in Beacon(Int)
  BY <1>1
<1>3. DOMAIN st = 1..M /\ \A m \in 1..M : st[m] = [ts |-> ts, kind |-> bs[m].kind, eta |-> bs[m].eta]
  BY <1>1 DEF StampedBeacons
<1>4. \A m \in 1..M : st[m] \in Stamp
  <2>1. \A m \in 1..M : bs[m].kind \in {"begin", "report", "end", "other"} /\ bs[m].eta \in Int
    BY <1>2 DEF Beacon
  <2> HIDE DEF st, bs, M, ts
  <2> QED BY <1>1, <1>3, <2>1 DEF Stamp
<1>5. st \in Seq(Stamp) /\ Len(st) = M
  <2>1. st = [m \in 1..M |-> st[m]]
    BY <1>1 DEF StampedBeacons
  <2> HIDE DEF st, bs, M, ts
  <2>2. st \in [1..M -> Stamp]
    BY <1>4, <2>1
  <2> QED BY <1>1, <2>2
<1>6. PICK f : IsTelling(f, got, ts, bs)
  <2>1. ts \in Nat
    BY <1>1
  <2> HIDE DEF ts, bs
  <2> QED BY <1>1, <2>1, TellingSteps
<1>7. /\ f \in [0..M -> Anchors] /\ f[0] = got /\ Applied(got, ts, bs) = f[M]
      /\ \A m \in 1..M : f[m] = ApplyBeacon(f[m - 1], ts, bs[m])
  BY <1>6 DEF IsTelling
<1> HIDE DEF ts, bs, st, M
<1>8. N \in Nat /\ \A i \in 1..N : all[i] \in Stamp
  OBVIOUS
<1>9. \A m \in 0..M : Pre(m) \in Seq(Stamp) /\ Len(Pre(m)) = N + m
  <2> SUFFICES ASSUME NEW m \in 0..M PROVE Pre(m) \in Seq(Stamp) /\ Len(Pre(m)) = N + m
    OBVIOUS
  <2>1. \A i \in 1..(N + m) : ~(i <= N) => i - N \in 1..M
    BY <1>1, <1>8
  <2>2. \A i \in 1..(N + m) : i <= N => i \in 1..N
    BY <1>8
  <2> HIDE DEF N
  <2>3. Pre(m) \in [1..(N + m) -> Stamp]
    BY <1>4, <1>8, <2>1, <2>2
  <2>4. N + m \in Nat
    BY <1>1, <1>8
  <2> HIDE DEF Pre
  <2> QED BY <2>3, <2>4
<1>10. ASSUME NEW m \in Nat, m + 1 <= M PROVE Pre(m + 1) = Append(Pre(m), st[m + 1])
  <2>1. /\ m \in 0..M /\ m + 1 \in 0..M /\ m + 1 \in 1..M /\ N + (m + 1) = (N + m) + 1
        /\ N + m \in Nat
    BY <1>1, <1>8, <1>10
  <2>2. /\ Pre(m) \in Seq(Stamp) /\ Len(Pre(m)) = N + m /\ Pre(m + 1) \in Seq(Stamp)
        /\ Len(Pre(m + 1)) = (N + m) + 1 /\ st[m + 1] \in Stamp
    BY <1>4, <1>9, <2>1
  <2>3. \A i \in 1..(N + m) : Pre(m + 1)[i] = Pre(m)[i]
    BY <1>8, <2>1
  <2>4. Pre(m + 1)[(N + m) + 1] = st[m + 1]
    BY <1>8, <2>1
  <2> DEFINE p == Pre(m)
             q == Pre(m + 1)
             s == st[m + 1]
             r == Append(p, s)
             K == N + m
  <2>5. p \in Seq(Stamp) /\ q \in Seq(Stamp) /\ s \in Stamp /\ Len(p) = K /\ Len(q) = K + 1 /\ K \in Nat
    BY <2>1, <2>2
  <2>6. (\A i \in 1..K : q[i] = p[i]) /\ q[K + 1] = s
    BY <2>3, <2>4
  <2> HIDE DEF p, q, s, K, Pre, N
  <2>7. r \in Seq(Stamp) /\ Len(r) = K + 1 /\ r[K + 1] = s /\ \A i \in 1..K : r[i] = p[i]
    BY <2>5
  <2>8. \A i \in 1..(K + 1) : q[i] = r[i]
    BY <2>5, <2>6, <2>7
  <2>9. q = r
    <3> HIDE DEF r
    <3> QED BY <2>5, <2>7, <2>8, SeqEqual
  <2> QED BY <2>9 DEF p, q, s
<1>11. Pre(0) = all
  <2>1. Pre(0) \in Seq(Stamp) /\ Len(Pre(0)) = N
    BY <1>1, <1>8, <1>9
  <2>2. \A i \in 1..N : Pre(0)[i] = all[i]
    BY <1>8
  <2> HIDE DEF Pre
  <2> QED BY <2>1, <2>2, SeqEqual
<1>12. Pre(M) = all \o st
  <2>1. Pre(M) \in Seq(Stamp) /\ Len(Pre(M)) = N + M
    <3>1. M \in 0..M
      BY <1>1
    <3> HIDE DEF Pre, N
    <3> QED BY <1>9, <3>1
  <2>2. all \o st \in Seq(Stamp) /\ Len(all \o st) = N + M
    BY <1>5
  <2>3. \A i \in 1..(N + M) : Pre(M)[i] = (all \o st)[i]
    BY <1>1, <1>5, <1>8
  <2> HIDE DEF Pre
  <2> QED BY <2>1, <2>2, <2>3, SeqEqual
<1> DEFINE Good == {m \in Nat : m <= M => Told(Pre(m), f[m])}
<1>13. 0 \in Good
  BY <1>7, <1>11
<1>14. ASSUME NEW m \in Nat, m \in Good PROVE m + 1 \in Good
  <2> SUFFICES ASSUME m + 1 <= M PROVE Told(Pre(m + 1), f[m + 1])
    OBVIOUS
  <2>1. m \in 0..M /\ m + 1 \in 1..M /\ (m + 1) - 1 = m /\ m <= M
    BY <1>1
  <2>2. Told(Pre(m), f[m]) /\ Pre(m) \in Seq(Stamp) /\ f[m] \in Anchors
    BY <1>7, <1>9, <1>14, <2>1
  <2>3. f[m + 1] = ApplyBeacon(f[m], ts, bs[m + 1]) /\ bs[m + 1] \in Beacon(Int)
    BY <1>2, <1>7, <2>1
  <2>4. Pre(m + 1) = Append(Pre(m), [ts |-> ts, kind |-> bs[m + 1].kind, eta |-> bs[m + 1].eta])
    BY <1>3, <1>10, <2>1
  <2> DEFINE p == Pre(m)
             b == bs[m + 1]
             a == f[m]
  <2> HIDE DEF p, b, a, Pre
  <2>5. Told(Append(p, [ts |-> ts, kind |-> b.kind, eta |-> b.eta]), ApplyBeacon(a, ts, b))
    <3>1. p \in Seq(Stamp) /\ a \in Anchors /\ Told(p, a) /\ b \in Beacon(Int)
      BY <2>2, <2>3 DEF p, a, b
    <3> QED BY <1>1, <3>1, OneMoreBeacon
  <2> QED BY <2>3, <2>4, <2>5 DEF p, b, a
<1>15. Nat \subseteq Good
  <2> HIDE DEF Good
  <2> QED BY <1>13, <1>14, NumbersByInduction
<1>16. Told(Pre(M), f[M]) /\ f[M] \in Anchors
  BY <1>1, <1>7, <1>15
<1> QED BY <1>5, <1>7, <1>12, <1>16 DEF ts, bs, st

LEMMA ApplyLineFacts ==
  ASSUME NEW a \in Anchors, NEW line \in TextLine
  PROVE  /\ ApplyLine(a, line) \in Anchors
         /\ line.assistant /\ line.ts # None =>
              ApplyLine(a, line) = Applied(a, line.ts, line.beacons)
         /\ ~(line.assistant /\ line.ts # None) => ApplyLine(a, line) = a
<1>1. line.ts \in Nat /\ line.beacons \in Seq(Beacon(Int))
  BY DEF TextLine
<1>2. ApplyLine(a, line) = IF line.assistant /\ line.ts # None
                           THEN Applied(a, line.ts, line.beacons) ELSE a
  BY Zenon DEF ApplyLine, Applied
<1>3. Applied(a, line.ts, line.beacons) \in Anchors
  <2> DEFINE ts == line.ts
             bs == line.beacons
  <2>1. ts \in Nat /\ bs \in Seq(Beacon(Int))
    BY <1>1
  <2> HIDE DEF ts, bs
  <2>2. PICK f : IsTelling(f, a, ts, bs)
    BY <2>1, TellingSteps
  <2>3. Len(bs) \in 0..Len(bs)
    BY <2>1
  <2>4. Applied(a, ts, bs) \in Anchors
    BY <2>2, <2>3 DEF IsTelling
  <2> QED BY <2>4 DEF ts, bs
<1> QED BY <1>2, <1>3

\* f[n] are the anchors after n lines.
IsScan(f, lines) ==
    /\ f \in [0..Len(lines) -> Anchors]
    /\ f[0] = NoAnchors
    /\ \A n \in 1..Len(lines) : f[n] = ApplyLine(f[n - 1], lines[n])
    /\ Scan(lines) = f[Len(lines)]

LEMMA ScanSteps ==
  ASSUME NEW lines \in Seq(TextLine)
  PROVE  \E f : IsScan(f, lines)
<1> DEFINE N == Len(lines)
           A == Anchors
           step == [n \in 1..N |-> [x \in A |-> ApplyLine(x, lines[n])]]
           Walk(w) == [t \in SUBSET (DOMAIN lines) |->
                         IF t = {} THEN NoAnchors ELSE ApplyLine(w[t \ {Max(t)}], lines[Max(t)])]
           walk == CHOOSE w : w = Walk(w)
<1>1. N \in Nat /\ DOMAIN lines = 1..N /\ \A n \in 1..N : lines[n] \in TextLine
  OBVIOUS
<1>2. step \in [1..N -> [A -> A]] /\ NoAnchors \in A
  <2>1. \A n \in 1..N : \A x \in A : ApplyLine(x, lines[n]) \in A
    <3> HIDE DEF N
    <3> QED BY <1>1, ApplyLineFacts
  <2>2. NoAnchors \in A
    BY DEF NoAnchors, Anchors, None
  <2> HIDE DEF A, N
  <2> QED BY <2>1, <2>2
<1> HIDE DEF A
<1>3. PICK g \in [SUBSET (1..N) -> A] : IsFoldFunction(g, N, NoAnchors, step)
  <2>1. N \in Nat
    BY <1>1
  <2> HIDE DEF step, N, Walk, walk
  <2> QED BY <2>1, <1>2, FoldFunctionExists
<1>4. \A t \in SUBSET (1..N) : g[t] = IF t = {} THEN NoAnchors ELSE ApplyLine(g[t \ {Max(t)}], lines[Max(t)])
  <2>1. \A t \in SUBSET (1..N) : t # {} => Max(t) \in 1..N /\ t \ {Max(t)} \in SUBSET (1..N)
    BY <1>1, MaxIsMember
  <2> QED BY <1>3, <2>1 DEF IsFoldFunction
<1>5. g = Walk(g)
  <2> HIDE DEF N
  <2> QED BY <1>4, <1>1
<1>6. walk = Walk(walk)
  <2> HIDE DEF Walk
  <2> QED BY <1>5, Zenon
<1>7. Scan(lines) = walk[DOMAIN lines]
  BY Zenon DEF Scan, FoldLeft, MapThenFoldSet
<1> HIDE DEF walk
<1>8. walk[{}] = NoAnchors
  BY <1>6
<1>9. \A n \in 1..N : walk[1..n] = ApplyLine(walk[1..(n-1)], lines[n])
  <2> SUFFICES ASSUME NEW n \in 1..N PROVE walk[1..n] = ApplyLine(walk[1..(n-1)], lines[n])
    OBVIOUS
  <2>1. 1..n # {} /\ Max(1..n) = n /\ (1..n) \ {n} = 1..(n-1)
    BY <1>1, IntervalSteps
  <2>2. 1..n \in SUBSET (DOMAIN lines)
    BY <1>1
  <2>3. walk[1..n] = IF 1..n = {} THEN NoAnchors
                     ELSE ApplyLine(walk[(1..n) \ {Max(1..n)}], lines[Max(1..n)])
    BY <1>6, <2>2
  <2> QED BY <2>1, <2>3
<1>10. \A n \in 1..N : \A x \in A : step[n][x] = ApplyLine(x, lines[n])
  OBVIOUS
<1>11. GoesOn(walk, N, A, NoAnchors, step)
  BY <1>8, <1>9, <1>10 DEF GoesOn
<1>12. PICK f : IsRun(f, N, A, NoAnchors, step) /\ f[N] = walk[1..N]
  <2>1. N \in Nat
    BY <1>1
  <2>2. step \in [1..N -> [A -> A]] /\ NoAnchors \in A /\ GoesOn(walk, N, A, NoAnchors, step)
    BY <1>2, <1>11
  <2> HIDE DEF step, N, Walk
  <2>3. RunsLike(walk, N, A, NoAnchors, step)
    BY <2>1, <2>2, RunAlong
  <2> QED BY <2>3 DEF RunsLike
<1>13. \A n \in 1..N : n - 1 \in 0..N
  BY <1>1
<1>14. IsScan(f, lines)
  BY <1>1, <1>7, <1>10, <1>12, <1>13 DEF IsScan, IsRun, A
<1> QED BY <1>14

\* Flattening one sequence after the other.
IsFlatOf(flat, ss) ==
    /\ flat[0] = <<>>
    /\ \A n \in 1..Len(ss) : flat[n] = flat[n - 1] \o ss[n]
    /\ FlattenSeq(ss) = flat[Len(ss)]

LEMMA FlattenSteps ==
  ASSUME NEW L, NEW ss \in Seq(Seq(L))
  PROVE  \E flat : flat \in [0..Len(ss) -> Seq(L)] /\ IsFlatOf(flat, ss)
<1> DEFINE N == Len(ss)
           made == CHOOSE f : IsFlat(f, ss)
           flat == [n \in 0..N |-> IF n = 0 THEN <<>> ELSE made[n]]
<1>1. N \in Nat /\ \A n \in 1..N : ss[n] \in Seq(L)
  OBVIOUS
<1>2. IsFlat(made, ss)
  BY FlatExists, Zenon
<1>3. N # 0 => FlattenSeq(ss) = made[N]
  BY Zenon DEF FlattenSeq, IsFlat
<1>4. N = 0 => FlattenSeq(ss) = <<>>
  BY DEF FlattenSeq
<1> HIDE DEF made
<1>5. \A i \in 1..N : made[i] = IF i = 1 THEN ss[i] ELSE made[i - 1] \o ss[i]
  BY <1>2 DEF IsFlat
<1>6. flat[0] = <<>> /\ \A n \in 1..N : flat[n] = made[n]
  BY <1>1
<1>7. FlattenSeq(ss) = flat[N]
  <2>1. CASE N = 0
    BY <1>4, <1>6, <2>1
  <2>2. CASE N # 0
    <3>1. N \in 1..N
      BY <1>1, <2>2
    <3> HIDE DEF flat, N
    <3> QED BY <1>3, <1>6, <2>2, <3>1
  <2> QED BY <2>1, <2>2
<1> HIDE DEF flat
<1>8. \A n \in 1..N : flat[n] = flat[n - 1] \o ss[n]
  <2> SUFFICES ASSUME NEW n \in 1..N PROVE flat[n] = flat[n - 1] \o ss[n]
    OBVIOUS
  <2>1. CASE n = 1
    <3>1. ss[1] \in Seq(L) /\ n - 1 = 0
      BY <1>1, <2>1
    <3>2. flat[1] = ss[1]
      BY <1>5, <1>6, <2>1
    <3>3. <<>> \o ss[1] = ss[1]
      BY <3>1, ConcatEmptySeq
    <3> QED BY <1>6, <2>1, <3>1, <3>2, <3>3
  <2>2. CASE n # 1
    <3>1. n - 1 \in 1..N
      BY <1>1, <2>2
    <3> QED BY <1>5, <1>6, <2>2, <3>1
  <2> QED BY <2>1, <2>2
<1> DEFINE S == {n \in Nat : n <= N => flat[n] \in Seq(L)}
<1>9. 0 \in S
  <2>1. <<>> \in Seq(L)
    OBVIOUS
  <2> HIDE DEF N
  <2> QED BY <1>1, <1>6, <2>1
<1>10. ASSUME NEW n \in Nat, n \in S PROVE n + 1 \in S
  <2> SUFFICES ASSUME n + 1 <= N PROVE flat[n + 1] \in Seq(L)
    OBVIOUS
  <2>1. n + 1 \in 1..N /\ (n + 1) - 1 = n /\ flat[n] \in Seq(L)
    BY <1>1, <1>10
  <2>2. flat[n + 1] = flat[n] \o ss[n + 1] /\ ss[n + 1] \in Seq(L)
    BY <1>1, <1>8, <2>1
  <2> QED BY <2>1, <2>2
<1>11. Nat \subseteq S
  <2> HIDE DEF S
  <2> QED BY <1>9, <1>10, NumbersByInduction
<1>12. \A n \in 0..N : flat[n] \in Seq(L)
  BY <1>1, <1>11
<1>13. flat = [n \in 0..N |-> flat[n]]
  BY DEF flat
<1>14. flat \in [0..N -> Seq(L)]
  <2> HIDE DEF N
  <2> QED BY <1>12, <1>13
<1>15. IsFlatOf(flat, ss)
  BY <1>6, <1>7, <1>8 DEF IsFlatOf
<1> QED BY <1>14, <1>15

\* The anchors of any transcript are those of its open lifecycle.
LEMMA AnchorsOfLines ==
  ASSUME NEW lines \in Seq(TextLine)
  PROVE  MatchesLifecycle(lines)
<1> DEFINE N == Len(lines)
           part(i) == IF lines[i].assistant /\ lines[i].ts # None
                      THEN StampedBeacons(lines[i]) ELSE <<>>
           ss == [i \in DOMAIN lines |-> part(i)]
<1>1. N \in Nat /\ DOMAIN lines = 1..N /\ \A i \in 1..N : lines[i] \in TextLine
  OBVIOUS
<1>2. /\ NoAnchors \in Anchors /\ <<>> \in Seq(Stamp)
      /\ Told(<<>>, NoAnchors)
  <2>1. OpenOf(<<>>) = {}
    BY DEF OpenOf
  <2>2. Told(<<>>, NoAnchors)
    BY <2>1 DEF Told
  <2>3. NoAnchors \in Anchors
    BY DEF NoAnchors, Anchors, None
  <2>4. <<>> \in Seq(Stamp)
    OBVIOUS
  <2> QED BY <2>2, <2>3, <2>4
<1>3. \A i \in 1..N : part(i) \in Seq(Stamp)
  <2> SUFFICES ASSUME NEW i \in 1..N, lines[i].ts # None PROVE StampedBeacons(lines[i]) \in Seq(Stamp)
    BY <1>2
  <2>1. lines[i] \in TextLine
    BY <1>1
  <2> QED BY <1>2, <2>1, OneMoreLine
<1>4. ss \in Seq(Seq(Stamp)) /\ Len(ss) = N /\ \A i \in 1..N : ss[i] = part(i)
  <2> HIDE DEF part, N
  <2>1. ss = [i \in 1..N |-> part(i)]
    BY <1>1
  <2> HIDE DEF ss
  <2>2. ss \in [1..N -> Seq(Stamp)] /\ \A i \in 1..N : ss[i] = part(i)
    BY <1>3, <2>1
  <2> QED BY <1>1, <2>2
<1>5. Stamped(lines) = FlattenSeq(ss)
  BY Zenon DEF Stamped, StampedBeacons
<1>6. PICK f : IsScan(f, lines)
  BY ScanSteps
<1>7. PICK flat \in [0..N -> Seq(Stamp)] : IsFlatOf(flat, ss)
  <2> HIDE DEF ss, N
  <2> QED BY <1>4, FlattenSteps
<1> HIDE DEF ss, part
<1>8. /\ flat[0] = <<>> /\ FlattenSeq(ss) = flat[N]
      /\ \A n \in 1..N : flat[n] = flat[n - 1] \o part(n)
  BY <1>4, <1>7 DEF IsFlatOf
<1>9. /\ f \in [0..N -> Anchors] /\ f[0] = NoAnchors /\ Scan(lines) = f[N]
      /\ \A n \in 1..N : f[n] = ApplyLine(f[n - 1], lines[n])
  BY <1>6 DEF IsScan
<1> HIDE DEF N
<1> DEFINE Good == {n \in Nat : n <= N => Told(flat[n], f[n])}
<1>10. 0 \in Good
  BY <1>2, <1>8, <1>9
<1>11. ASSUME NEW n \in Nat, n \in Good PROVE n + 1 \in Good
  <2> SUFFICES ASSUME n + 1 <= N PROVE Told(flat[n + 1], f[n + 1])
    OBVIOUS
  <2>1. n \in 0..N /\ n + 1 \in 1..N /\ (n + 1) - 1 = n /\ n <= N
    BY <1>1
  <2>2. /\ Told(flat[n], f[n]) /\ flat[n] \in Seq(Stamp) /\ f[n] \in Anchors
        /\ lines[n + 1] \in TextLine
    BY <1>1, <1>7, <1>9, <1>11, <2>1
  <2>3. flat[n + 1] = flat[n] \o part(n + 1) /\ f[n + 1] = ApplyLine(f[n], lines[n + 1])
    BY <1>8, <1>9, <2>1
  <2> DEFINE all == flat[n]
             got == f[n]
             line == lines[n + 1]
  <2>4. /\ all \in Seq(Stamp) /\ got \in Anchors /\ line \in TextLine /\ Told(all, got)
        /\ part(n + 1) = IF line.assistant /\ line.ts # None THEN StampedBeacons(line) ELSE <<>>
    BY <2>2 DEF part
  <2> HIDE DEF all, got, line
  <2>5. CASE line.assistant /\ line.ts # None
    <3>1. Told(all \o StampedBeacons(line), Applied(got, line.ts, line.beacons))
      BY <2>4, <2>5, OneMoreLine
    <3>2. ApplyLine(got, line) = Applied(got, line.ts, line.beacons)
      BY <2>4, <2>5, ApplyLineFacts
    <3> QED BY <2>3, <2>4, <2>5, <3>1, <3>2 DEF all, got, line
  <2>6. CASE ~(line.assistant /\ line.ts # None)
    <3>1. ApplyLine(got, line) = got
      BY <2>4, <2>6, ApplyLineFacts
    <3>2. all \o <<>> = all
      BY <2>4, ConcatEmptySeq
    <3>3. flat[n + 1] = all /\ f[n + 1] = got
      BY <2>3, <2>4, <2>6, <3>1, <3>2 DEF all, got, line
    <3> QED BY <2>4, <3>3
  <2> QED BY <2>5, <2>6
<1>12. Nat \subseteq Good
  <2> HIDE DEF Good
  <2> QED BY <1>10, <1>11, NumbersByInduction
<1>13. Told(Stamped(lines), Scan(lines)) /\ Stamped(lines) \in Seq(Stamp)
  <2>1. N \in 0..N
    BY <1>1
  <2> QED BY <1>1, <1>5, <1>7, <1>8, <1>9, <1>12, <2>1
<1> DEFINE all == Stamped(lines)
           got == Scan(lines)
           Of(what) == {i \in DOMAIN all : all[i].kind = what}
           open == {i \in Of("begin") : \A j \in Of("begin") \cup Of("end") : j <= i}
           reports == {j \in Of("report") : \E i \in open : i < j}
<1> HIDE DEF all, got
<1>14. open = OpenOf(all) /\ reports = ReportsOf(all)
  BY DEF OpenOf, ReportsOf
<1>15. Told(all, got)
  BY <1>13 DEF all, got
<1> HIDE DEF open, reports
<1>16. /\ open = {} => got = NoAnchors
       /\ \A i \in open :
             /\ got.begin = all[i].ts
             /\ got.eta = IF all[i].eta > 0 THEN all[i].eta ELSE None
             /\ reports = {} => got.report = None
             /\ \A j \in reports : (\A k \in reports : k <= j) => got.report = all[j].ts
  BY <1>14, <1>15 DEF Told
<1> QED BY <1>16, Zenon DEF MatchesLifecycle, all, got, open, reports

TextTyped == algorithm = "anchors" => input \in Seq(TextLine)

LEMMA TextIsTyped == Inputs => []TextTyped
<1>1. NoInput => TextTyped
  BY DEF NoInput, TextTyped
<1>2. TextTyped /\ [NextInput]_inputVars => TextTyped'
  <2> SUFFICES ASSUME TextTyped, [NextInput]_inputVars, algorithm' = "anchors"
               PROVE  input' \in Seq(TextLine)
    BY DEF TextTyped
  <2>1. CASE UNCHANGED inputVars
    BY <2>1 DEF inputVars, TextTyped
  <2>2. CASE NextInput
    <3>1. algorithm = "anchors"
      BY <2>2 DEF NextInput, NextObservation, NextLine, NextTurn, NextHook, Grow
    <3>2. NextLine
      BY <2>2, <3>1 DEF NextInput, NextObservation, NextTurn, NextHook
    <3>3. input \in Seq(TextLine)
      BY <3>1 DEF TextTyped
    <3>4. PICK beacons \in BeaconLists, assistant \in BOOLEAN, dated \in BOOLEAN :
            input' = Append(input, [assistant |-> assistant,
                                    ts |-> IF dated THEN Len(input) + 1 ELSE 0, beacons |-> beacons])
      BY <3>2 DEF NextLine, Grow
    <3>5. beacons \in Seq(Beacon(Int))
      BY InputAssumption
    <3>6. (IF dated THEN Len(input) + 1 ELSE 0) \in Nat
      BY <3>3
    <3>7. [assistant |-> assistant, ts |-> IF dated THEN Len(input) + 1 ELSE 0, beacons |-> beacons]
            \in TextLine
      BY <3>5, <3>6 DEF TextLine
    <3> QED BY <3>3, <3>4, <3>7
  <2> QED BY <2>1, <2>2
<1> QED BY <1>1, <1>2, PTL DEF Inputs

\* What _scan_beacon_anchors returns are the times and the estimate of the
\* lifecycle that is open at the end, and nothing when none is: for transcripts
\* of any length whose lines hold any beacons.
THEOREM AnchorsAreRight == Inputs => []AnchorsMatchLifecycle
<1>1. TextTyped => AnchorsMatchLifecycle
  BY AnchorsOfLines DEF TextTyped, AnchorsMatchLifecycle
<1> QED BY <1>1, TextIsTyped, PTL

-----------------------------------------------------------------------------
(* The walks that charge the turns of a session.                           *)

AnyLine == Line(Nat, Nat, STRING)
Models == STRING \cup {""}
Turn == [id : Nat, at : Nat, model : Models]
WalkState == [seen : SUBSET Nat, model : Models, charged : Seq(Turn), cut : BOOLEAN]
Spent == [seen : SUBSET Nat, charged : Seq(Turn)]

\* A turn as charged for a line.
ChargedFor(line, turn) ==
    /\ turn.id = line.id /\ turn.at = line.at
    /\ line.model # "" => turn.model = line.model

\* What reading a line that counts makes of a walk.
Charges(walk, line, new) ==
    /\ new.cut = walk.cut
    /\ new.seen = IF line.id = 0 THEN walk.seen ELSE walk.seen \cup {line.id}
    /\ \E turn \in Turn : ChargedFor(line, turn) /\ new.charged = Append(walk.charged, turn)

LEMMA LineFacts ==
  ASSUME NEW line \in AnyLine
  PROVE  /\ line.kind \in {"turn", "cut", "noise"}
         /\ line.kind = "turn" => line.id \in Nat /\ line.at \in Nat /\ line.model \in STRING
<1>1. line \in [kind : {"turn"}, id : Nat, at : Nat, model : STRING] \/ line \in [kind : {"cut", "noise"}]
  BY DEF AnyLine, Line
<1> QED BY <1>1

LEMMA ReadLineFacts ==
  ASSUME NEW walk \in WalkState, NEW line \in AnyLine
  PROVE  /\ ReadLine(walk, line) \in WalkState
         /\ walk.cut = TRUE \/ line.kind = "cut" =>
              /\ ReadLine(walk, line).cut = TRUE /\ ReadLine(walk, line).seen = walk.seen
              /\ ReadLine(walk, line).charged = walk.charged
         /\ walk.cut = FALSE /\ line.kind # "cut" /\ ~Taken(line, walk.seen) => ReadLine(walk, line) = walk
         /\ walk.cut = FALSE /\ Taken(line, walk.seen) => Charges(walk, line, ReadLine(walk, line))
<1>1. /\ walk.seen \in SUBSET Nat /\ walk.model \in Models /\ walk.charged \in Seq(Turn)
      /\ walk.cut \in BOOLEAN
      /\ walk = [seen |-> walk.seen, model |-> walk.model, charged |-> walk.charged, cut |-> walk.cut]
  BY DEF WalkState
<1>2. CASE walk.cut = TRUE \/ line.kind = "cut"
  <2>1. ReadLine(walk, line) = [walk EXCEPT !.cut = TRUE]
    BY <1>2 DEF ReadLine
  <2>2. ReadLine(walk, line)
          = [seen |-> walk.seen, model |-> walk.model, charged |-> walk.charged, cut |-> TRUE]
    BY <1>1, <2>1
  <2>3. Taken(line, walk.seen) => line.kind # "cut"
    BY DEF Taken
  <2> QED BY <1>1, <1>2, <2>2, <2>3 DEF WalkState
<1>3. CASE walk.cut = FALSE /\ line.kind # "cut" /\ ~Taken(line, walk.seen)
  <2>1. ReadLine(walk, line) = walk
    BY <1>3 DEF ReadLine
  <2> QED BY <1>3, <2>1
<1>4. CASE walk.cut = FALSE /\ line.kind # "cut" /\ Taken(line, walk.seen)
  <2> DEFINE model == IF line.model # "" THEN line.model ELSE walk.model
             turn == [id |-> line.id, at |-> line.at, model |-> model]
             seen == IF line.id = 0 THEN walk.seen ELSE walk.seen \cup {line.id}
  <2>1. line.kind = "turn"
    BY <1>4 DEF Taken
  <2>2. line.id \in Nat /\ line.at \in Nat /\ line.model \in STRING
    BY <2>1, LineFacts
  <2>3. turn \in Turn /\ ChargedFor(line, turn) /\ seen \in SUBSET Nat /\ model \in Models
    BY <1>1, <2>2 DEF Turn, ChargedFor, Models
  <2>4. ReadLine(walk, line) = [walk EXCEPT !.seen = seen, !.model = model, !.charged = Append(walk.charged, turn)]
    BY <1>4 DEF ReadLine
  <2> HIDE DEF turn, seen, model
  <2>5. ReadLine(walk, line)
          = [seen |-> seen, model |-> model, charged |-> Append(walk.charged, turn), cut |-> walk.cut]
    BY <1>1, <2>4
  <2>6. Append(walk.charged, turn) \in Seq(Turn)
    BY <1>1, <2>3
  <2>7. ReadLine(walk, line) \in WalkState
    BY <1>1, <2>3, <2>5, <2>6 DEF WalkState
  <2>8. Charges(walk, line, ReadLine(walk, line))
    BY <2>3, <2>5 DEF Charges, seen
  <2> QED BY <1>4, <2>7, <2>8
<1>5. walk.cut = TRUE \/ walk.cut = FALSE
  BY <1>1
<1>6. Taken(line, walk.seen) => line.kind # "cut"
  BY DEF Taken
<1> QED BY <1>2, <1>3, <1>4, <1>5, <1>6

\* f[n] is the walk of a file after n lines.
IsFileWalk(f, log, seen) ==
    /\ f \in [0..Len(log) -> WalkState]
    /\ f[0] = Start(seen)
    /\ \A n \in 1..Len(log) : f[n] = ReadLine(f[n - 1], log[n])
    /\ WalkFile(log, seen) = f[Len(log)]

LEMMA FileWalkSteps ==
  ASSUME NEW log \in Seq(AnyLine), NEW seen \in SUBSET Nat
  PROVE  \E f : IsFileWalk(f, log, seen)
<1> DEFINE N == Len(log)
           A == WalkState
           base == Start(seen)
           step == [n \in 1..N |-> [x \in A |-> ReadLine(x, log[n])]]
           Walk(w) == [t \in SUBSET (DOMAIN log) |->
                         IF t = {} THEN base ELSE ReadLine(w[t \ {Max(t)}], log[Max(t)])]
           walk == CHOOSE w : w = Walk(w)
<1>1. N \in Nat /\ DOMAIN log = 1..N /\ \A n \in 1..N : log[n] \in AnyLine
  OBVIOUS
<1>2. step \in [1..N -> [A -> A]] /\ base \in A
  <2>1. \A n \in 1..N : \A x \in A : ReadLine(x, log[n]) \in A
    BY <1>1, ReadLineFacts
  <2>2. base \in A
    <3>1. <<>> \in Seq(Turn)
      OBVIOUS
    <3>2. "" \in Models
      BY DEF Models
    <3> QED BY <3>1, <3>2 DEF Start, WalkState
  <2> HIDE DEF A, N, base
  <2> QED BY <2>1, <2>2
<1>3. WalkFile(log, seen) = walk[DOMAIN log]
  BY Zenon DEF WalkFile, FoldLeft, MapThenFoldSet
<1> HIDE DEF A, base
<1>4. PICK g \in [SUBSET (1..N) -> A] : IsFoldFunction(g, N, base, step)
  <2>1. N \in Nat
    BY <1>1
  <2> HIDE DEF step, N, Walk, walk
  <2> QED BY <2>1, <1>2, FoldFunctionExists
<1>5. \A t \in SUBSET (1..N) : g[t] = IF t = {} THEN base ELSE ReadLine(g[t \ {Max(t)}], log[Max(t)])
  <2>1. \A t \in SUBSET (1..N) : t # {} => Max(t) \in 1..N /\ t \ {Max(t)} \in SUBSET (1..N)
    BY <1>1, MaxIsMember
  <2> QED BY <1>4, <2>1 DEF IsFoldFunction
<1>6. g = Walk(g)
  <2> HIDE DEF N
  <2> QED BY <1>5, <1>1
<1>7. walk = Walk(walk)
  <2> HIDE DEF Walk
  <2> QED BY <1>6, Zenon
<1> HIDE DEF walk
<1>8. walk[{}] = base
  BY <1>7
<1>9. \A n \in 1..N : walk[1..n] = ReadLine(walk[1..(n-1)], log[n])
  <2> SUFFICES ASSUME NEW n \in 1..N PROVE walk[1..n] = ReadLine(walk[1..(n-1)], log[n])
    OBVIOUS
  <2>1. 1..n # {} /\ Max(1..n) = n /\ (1..n) \ {n} = 1..(n-1)
    BY <1>1, IntervalSteps
  <2>2. 1..n \in SUBSET (DOMAIN log)
    BY <1>1
  <2>3. walk[1..n] = IF 1..n = {} THEN base ELSE ReadLine(walk[(1..n) \ {Max(1..n)}], log[Max(1..n)])
    BY <1>7, <2>2
  <2> QED BY <2>1, <2>3
<1>10. \A n \in 1..N : \A x \in A : step[n][x] = ReadLine(x, log[n])
  OBVIOUS
<1>11. GoesOn(walk, N, A, base, step)
  BY <1>8, <1>9, <1>10 DEF GoesOn
<1>12. PICK f : IsRun(f, N, A, base, step) /\ f[N] = walk[1..N]
  <2>1. N \in Nat
    BY <1>1
  <2>2. step \in [1..N -> [A -> A]] /\ base \in A /\ GoesOn(walk, N, A, base, step)
    BY <1>2, <1>11
  <2> HIDE DEF step, N, Walk
  <2>3. RunsLike(walk, N, A, base, step)
    BY <2>1, <2>2, RunAlong
  <2> QED BY <2>3 DEF RunsLike
<1>13. \A n \in 1..N : n - 1 \in 0..N
  BY <1>1
<1>14. IsFileWalk(f, log, seen)
  BY <1>1, <1>3, <1>10, <1>12, <1>13 DEF IsFileWalk, IsRun, A, base
<1> QED BY <1>14

\* Of the positions P of some lines, those of the first copies; and where among
\* them one is.
FirstIn(files, P) ==
    {at \in P : LineAt(files, at).id # 0 =>
        \A other \in P : LineAt(files, other).id = LineAt(files, at).id => ~Before(other, at)}

PlaceIn(F, at) == Cardinality({other \in F : ~Before(at, other)})

\* The positions F are paid for, in order.
PaidFor(files, F, charged) ==
    /\ IsFiniteSet(F) /\ Len(charged) = Cardinality(F)
    /\ \A at \in F : ChargedFor(LineAt(files, at), charged[PlaceIn(F, at)])

AllLines == Nat \X Nat

\* What a walk over the readable lines P has seen, and charged of the lines K.
Charged(files, P, K, seen, charged) ==
    /\ P \subseteq Nat \X Nat /\ charged \in Seq(Turn)
    /\ seen = {LineAt(files, at).id : at \in P} \ {0}
    /\ PaidFor(files, FirstIn(files, P) \cap K, charged)

LEMMA BeforeIsStrict ==
  ASSUME NEW a \in Nat \X Nat, NEW b \in Nat \X Nat
  PROVE  ~Before(a, a) /\ (Before(a, b) => ~Before(b, a))
<1>1. a[1] \in Nat /\ a[2] \in Nat /\ b[1] \in Nat /\ b[2] \in Nat
  OBVIOUS
<1> QED BY <1>1 DEF Before

LEMMA PlaceBounds ==
  ASSUME NEW F \in SUBSET (Nat \X Nat), IsFiniteSet(F), NEW at \in F
  PROVE  PlaceIn(F, at) \in 1..Cardinality(F)
<1> DEFINE upTo == {other \in F : ~Before(at, other)}
<1>1. upTo \subseteq F /\ at \in upTo
  BY BeforeIsStrict
<1> HIDE DEF upTo
<1>2. IsFiniteSet(upTo) /\ Cardinality(upTo) <= Cardinality(F)
  BY <1>1, FS_Subset
<1>3. Cardinality(upTo) \in Nat /\ Cardinality(F) \in Nat
  BY <1>2, FS_CardinalityType
<1>4. Cardinality(upTo) # 0
  BY <1>1, <1>2, FS_EmptySet
<1> QED BY <1>2, <1>3, <1>4 DEF PlaceIn, upTo

\* One more position, after all the others.
LEMMA PaidForOneMore ==
  ASSUME NEW files, NEW F \in SUBSET (Nat \X Nat), NEW charged \in Seq(Turn),
         PaidFor(files, F, charged),
         NEW x \in Nat \X Nat, \A y \in F : Before(y, x),
         NEW turn \in Turn, ChargedFor(LineAt(files, x), turn)
  PROVE  PaidFor(files, F \cup {x}, Append(charged, turn))
<1> DEFINE more == Append(charged, turn)
<1>1. IsFiniteSet(F) /\ Len(charged) = Cardinality(F) /\ Len(charged) \in Nat
  BY DEF PaidFor
<1>2. x \notin F
  BY BeforeIsStrict
<1>3. IsFiniteSet(F \cup {x}) /\ Cardinality(F \cup {x}) = Cardinality(F) + 1
  BY <1>1, <1>2, FS_AddElement
<1>4. Len(more) = Len(charged) + 1 /\ more[Len(charged) + 1] = turn
      /\ \A i \in 1..Len(charged) : more[i] = charged[i]
  OBVIOUS
<1>5. ASSUME NEW at \in F PROVE ChargedFor(LineAt(files, at), more[PlaceIn(F \cup {x}, at)])
  <2>1. {other \in F \cup {x} : ~Before(at, other)} = {other \in F : ~Before(at, other)}
    OBVIOUS
  <2>2. PlaceIn(F \cup {x}, at) = PlaceIn(F, at)
    BY <2>1 DEF PlaceIn
  <2>3. PlaceIn(F, at) \in 1..Len(charged)
    BY <1>1, PlaceBounds
  <2> QED BY <1>4, <2>2, <2>3 DEF PaidFor
<1>6. ChargedFor(LineAt(files, x), more[PlaceIn(F \cup {x}, x)])
  <2>1. \A y \in F : ~Before(x, y)
    BY BeforeIsStrict
  <2>2. ~Before(x, x)
    BY BeforeIsStrict
  <2>3. {other \in F \cup {x} : ~Before(x, other)} = F \cup {x}
    BY <2>1, <2>2
  <2>4. PlaceIn(F \cup {x}, x) = Len(charged) + 1
    BY <1>1, <1>3, <2>3 DEF PlaceIn
  <2> QED BY <1>4, <2>4
<1> HIDE DEF more
<1>7. Len(more) = Cardinality(F \cup {x})
  BY <1>1, <1>3, <1>4
<1>8. PaidFor(files, F \cup {x}, more)
  BY <1>3, <1>5, <1>6, <1>7 DEF PaidFor
<1> QED BY <1>8 DEF more

LEMMA FirstOfOneMore ==
  ASSUME NEW files, NEW P \in SUBSET (Nat \X Nat),
         NEW x \in Nat \X Nat, \A y \in P : Before(y, x)
  PROVE  FirstIn(files, P \cup {x})
           = FirstIn(files, P)
               \cup (IF LineAt(files, x).id # 0 /\ \E y \in P : LineAt(files, y).id = LineAt(files, x).id
                     THEN {} ELSE {x})
<1>1. \A y \in P : ~Before(x, y)
  BY BeforeIsStrict
<1>2. ~Before(x, x) /\ x \notin P
  BY BeforeIsStrict
<1>3. \A at \in P : at \in FirstIn(files, P \cup {x}) <=> at \in FirstIn(files, P)
  BY <1>1 DEF FirstIn
<1>4. x \in FirstIn(files, P \cup {x})
        <=> ~(LineAt(files, x).id # 0 /\ \E y \in P : LineAt(files, y).id = LineAt(files, x).id)
  BY <1>2 DEF FirstIn
<1>5. FirstIn(files, P \cup {x}) \subseteq P \cup {x} /\ FirstIn(files, P) \subseteq P
  BY DEF FirstIn
<1> QED BY <1>2, <1>3, <1>4, <1>5

\* A copy of a message that has been seen.
LEMMA ChargedBefore ==
  ASSUME NEW files, NEW P, NEW K, NEW seen, NEW charged, Charged(files, P, K, seen, charged),
         NEW x \in Nat \X Nat, \A y \in P : Before(y, x), LineAt(files, x).id \in seen
  PROVE  Charged(files, P \cup {x}, K, seen, charged)
<1>1. /\ P \subseteq Nat \X Nat /\ charged \in Seq(Turn)
      /\ seen = {LineAt(files, at).id : at \in P} \ {0}
      /\ PaidFor(files, FirstIn(files, P) \cap K, charged)
  BY DEF Charged
<1>2. LineAt(files, x).id # 0 /\ \E y \in P : LineAt(files, y).id = LineAt(files, x).id
  BY <1>1
<1>3. FirstIn(files, P \cup {x}) = FirstIn(files, P)
  <2>1. P \in SUBSET (Nat \X Nat)
    BY <1>1
  <2>2. FirstIn(files, P \cup {x}) = FirstIn(files, P) \cup {}
    BY <1>2, <2>1, FirstOfOneMore
  <2> QED BY <2>2
<1>4. seen = {LineAt(files, at).id : at \in P \cup {x}} \ {0}
  BY <1>1, <1>2
<1>5. P \cup {x} \subseteq Nat \X Nat
  BY <1>1
<1> QED BY <1>1, <1>3, <1>4, <1>5 DEF Charged

\* The ids of one more line.
AndIdOf(files, x, seen) ==
    IF LineAt(files, x).id = 0 THEN seen ELSE seen \cup {LineAt(files, x).id}

\* A message that has not been seen, or one without an id.
LEMMA FirstAnew ==
  ASSUME NEW files, NEW P, NEW K, NEW seen, NEW charged, Charged(files, P, K, seen, charged),
         NEW x \in Nat \X Nat, \A y \in P : Before(y, x),
         LineAt(files, x).id = 0 \/ LineAt(files, x).id \notin seen
  PROVE  /\ FirstIn(files, P \cup {x}) = FirstIn(files, P) \cup {x}
         /\ AndIdOf(files, x, seen) = {LineAt(files, at).id : at \in P \cup {x}} \ {0}
         /\ P \cup {x} \subseteq Nat \X Nat
<1>1. /\ P \subseteq Nat \X Nat
      /\ seen = {LineAt(files, at).id : at \in P} \ {0}
  BY DEF Charged
<1>2. ~(LineAt(files, x).id # 0 /\ \E y \in P : LineAt(files, y).id = LineAt(files, x).id)
  BY <1>1
<1>3. FirstIn(files, P \cup {x}) = FirstIn(files, P) \cup {x}
  <2>1. P \in SUBSET (Nat \X Nat)
    BY <1>1
  <2> QED BY <1>2, <2>1, FirstOfOneMore
<1>4. {LineAt(files, at).id : at \in P \cup {x}}
        = {LineAt(files, at).id : at \in P} \cup {LineAt(files, x).id}
  OBVIOUS
<1>5. AndIdOf(files, x, seen) = {LineAt(files, at).id : at \in P \cup {x}} \ {0}
  BY <1>1, <1>4 DEF AndIdOf
<1>6. P \cup {x} \subseteq Nat \X Nat
  BY <1>1
<1> QED BY <1>3, <1>5, <1>6

\* It is charged when it is one of K,
LEMMA ChargedAnew ==
  ASSUME NEW files, NEW P, NEW K, NEW seen, NEW charged, Charged(files, P, K, seen, charged),
         NEW x \in Nat \X Nat, \A y \in P : Before(y, x), x \in K,
         LineAt(files, x).id = 0 \/ LineAt(files, x).id \notin seen,
         NEW turn \in Turn, ChargedFor(LineAt(files, x), turn)
  PROVE  Charged(files, P \cup {x}, K, AndIdOf(files, x, seen), Append(charged, turn))
<1>1. /\ P \subseteq Nat \X Nat /\ charged \in Seq(Turn)
      /\ PaidFor(files, FirstIn(files, P) \cap K, charged)
  BY DEF Charged
<1>2. /\ FirstIn(files, P \cup {x}) = FirstIn(files, P) \cup {x}
      /\ AndIdOf(files, x, seen) = {LineAt(files, at).id : at \in P \cup {x}} \ {0}
      /\ P \cup {x} \subseteq Nat \X Nat
  BY FirstAnew
<1>3. FirstIn(files, P) \subseteq P
  BY DEF FirstIn
<1> DEFINE F == FirstIn(files, P) \cap K
<1>4. F \in SUBSET (Nat \X Nat) /\ (\A y \in F : Before(y, x)) /\ PaidFor(files, F, charged)
  BY <1>1, <1>3
<1>5. FirstIn(files, P \cup {x}) \cap K = F \cup {x}
  BY <1>2
<1> HIDE DEF F
<1>6. PaidFor(files, F \cup {x}, Append(charged, turn))
  BY <1>1, <1>4, PaidForOneMore
<1>7. Append(charged, turn) \in Seq(Turn)
  BY <1>1
<1> QED BY <1>2, <1>5, <1>6, <1>7 DEF Charged

\* and else it is only seen.
LEMMA SeenAnew ==
  ASSUME NEW files, NEW P, NEW K, NEW seen, NEW charged, Charged(files, P, K, seen, charged),
         NEW x \in Nat \X Nat, \A y \in P : Before(y, x), x \notin K,
         LineAt(files, x).id = 0 \/ LineAt(files, x).id \notin seen
  PROVE  Charged(files, P \cup {x}, K, AndIdOf(files, x, seen), charged)
<1>1. /\ charged \in Seq(Turn)
      /\ PaidFor(files, FirstIn(files, P) \cap K, charged)
  BY DEF Charged
<1>2. /\ FirstIn(files, P \cup {x}) = FirstIn(files, P) \cup {x}
      /\ AndIdOf(files, x, seen) = {LineAt(files, at).id : at \in P \cup {x}} \ {0}
      /\ P \cup {x} \subseteq Nat \X Nat
  BY FirstAnew
<1>3. FirstIn(files, P \cup {x}) \cap K = FirstIn(files, P) \cap K
  BY <1>2
<1> QED BY <1>1, <1>2, <1>3 DEF Charged

\* The readable lines among the first n of a file.
ReadIn(files, f, n) ==
    {f} \X {i \in 1..n : /\ IsStamped(files[f][i]) /\ files[f][i].at >= Earliest
                         /\ \A j \in 1..i : files[f][j].kind # "cut"}

\* A line that is readable, and one that is not.
LEMMA ReadInOneMore ==
  ASSUME NEW files, NEW f \in Nat, NEW n \in Nat,
         NEW readable, readable \in BOOLEAN,
         readable <=> /\ IsStamped(files[f][n+1]) /\ files[f][n+1].at >= Earliest
                      /\ \A j \in 1..(n+1) : files[f][j].kind # "cut"
  PROVE  /\ ReadIn(files, f, n) \subseteq {f} \X (1..n)
         /\ ReadIn(files, f, n + 1) = ReadIn(files, f, n) \cup (IF readable THEN {<<f, n + 1>>} ELSE {})
<1> DEFINE Ok(i) == /\ IsStamped(files[f][i]) /\ files[f][i].at >= Earliest
                    /\ \A j \in 1..i : files[f][j].kind # "cut"
<1>1. readable <=> Ok(n + 1)
  OBVIOUS
<1>2. ReadIn(files, f, n) = {f} \X {i \in 1..n : Ok(i)} /\ ReadIn(files, f, n + 1) = {f} \X {i \in 1..(n+1) : Ok(i)}
  BY DEF ReadIn
<1> HIDE DEF Ok
<1>3. {i \in 1..(n+1) : Ok(i)} = {i \in 1..n : Ok(i)} \cup (IF readable THEN {n + 1} ELSE {})
  BY <1>1
<1>4. {i \in 1..n : Ok(i)} \subseteq 1..n
  OBVIOUS
<1> DEFINE a == {i \in 1..n : Ok(i)}
<1>5. \A s : {f} \X (s \cup {n + 1}) = ({f} \X s) \cup {<<f, n + 1>>}
  OBVIOUS
<1>6. {f} \X a \subseteq {f} \X (1..n)
  BY <1>4
<1> HIDE DEF a
<1>7. {f} \X (a \cup (IF readable THEN {n + 1} ELSE {})) = ({f} \X a) \cup (IF readable THEN {<<f, n + 1>>} ELSE {})
  <2>1. CASE readable = TRUE
    BY <1>5, <2>1
  <2>2. CASE readable = FALSE
    BY <2>2
  <2> QED BY <2>1, <2>2
<1> QED BY <1>2, <1>3, <1>6, <1>7 DEF a

\* One line of a file that comes after the readable lines P.
LEMMA ReadOneMore ==
  ASSUME NEW files, NEW f \in Nat, NEW n \in Nat, files[f][n + 1] \in AnyLine,
         NEW P, \A y \in P : y[1] < f,
         NEW walk \in WalkState, NEW c \in Seq(Turn),
         walk.cut = TRUE <=> \E j \in 1..n : files[f][j].kind = "cut",
         Charged(files, P \cup ReadIn(files, f, n), AllLines, walk.seen, c \o walk.charged),
         NEW new, new = ReadLine(walk, files[f][n + 1])
  PROVE  /\ new \in WalkState
         /\ new.cut = TRUE <=> \E j \in 1..(n+1) : files[f][j].kind = "cut"
         /\ Charged(files, P \cup ReadIn(files, f, n + 1), AllLines, new.seen, c \o new.charged)
<1> DEFINE line == files[f][n + 1]
           readable == /\ IsStamped(line) /\ line.at >= Earliest
                       /\ \A j \in 1..(n+1) : files[f][j].kind # "cut"
           Q == P \cup ReadIn(files, f, n)
           x == <<f, n + 1>>
<1>1. readable \in BOOLEAN /\ x \in Nat \X Nat /\ LineAt(files, x) = line /\ line \in AnyLine
  BY DEF LineAt
<1>2. /\ ReadIn(files, f, n) \subseteq {f} \X (1..n)
      /\ ReadIn(files, f, n + 1) = ReadIn(files, f, n) \cup (IF readable THEN {x} ELSE {})
  <2> DEFINE r == readable
  <2>1. r \in BOOLEAN
    OBVIOUS
  <2>2. r <=> /\ IsStamped(files[f][n+1]) /\ files[f][n+1].at >= Earliest
              /\ \A j \in 1..(n+1) : files[f][j].kind # "cut"
    OBVIOUS
  <2> HIDE DEF r
  <2>3. /\ ReadIn(files, f, n) \subseteq {f} \X (1..n)
        /\ ReadIn(files, f, n + 1) = ReadIn(files, f, n) \cup (IF r THEN {<<f, n + 1>>} ELSE {})
    BY <2>1, <2>2, ReadInOneMore
  <2> QED BY <2>3 DEF r
<1>3. \A j : j \in 1..(n+1) <=> j \in 1..n \/ j = n + 1
  OBVIOUS
<1>4. \A y \in Q : Before(y, x)
  <2>1. \A y \in P : Before(y, x)
    BY DEF Before
  <2>2. \A y \in {f} \X (1..n) : y[1] = f /\ y[2] < n + 1
    OBVIOUS
  <2>3. \A y \in {f} \X (1..n) : Before(y, x)
    BY <2>2 DEF Before
  <2> QED BY <1>2, <2>1, <2>3
<1>5. Charged(files, Q, AllLines, walk.seen, c \o walk.charged)
  OBVIOUS
<1>6. new \in WalkState
  BY ReadLineFacts
<1>7. readable => line.kind = "turn" /\ line.at # 0 /\ line.at >= Earliest /\ walk.cut # TRUE /\ line.kind # "cut"
  BY <1>3 DEF IsStamped
<1>8. walk.cut = TRUE \/ walk.cut = FALSE
  BY DEF WalkState
<1>9. line.kind = "turn" /\ line.at # 0 /\ line.at >= Earliest /\ walk.cut = FALSE => readable
  BY <1>3 DEF IsStamped
<1>10. P \cup ReadIn(files, f, n + 1) = Q \cup (IF readable THEN {x} ELSE {})
  BY <1>2
<1>11. line.kind = "turn" => line.id \in Nat
  BY <1>1, LineFacts
<1> HIDE DEF readable, Q, line, x
<1>12. CASE walk.cut = TRUE \/ line.kind = "cut"
  <2>1. new.cut = TRUE /\ new.seen = walk.seen /\ new.charged = walk.charged
    BY <1>12, ReadLineFacts DEF line
  <2>2. ~readable
    BY <1>7, <1>12
  <2>3. P \cup ReadIn(files, f, n + 1) = Q
    BY <1>10, <2>2
  <2>4. \E j \in 1..(n+1) : files[f][j].kind = "cut"
    BY <1>3, <1>12 DEF line
  <2> QED BY <1>5, <1>6, <2>1, <2>3, <2>4
<1>13. CASE walk.cut = FALSE /\ line.kind # "cut"
  <2>1. ~ \E j \in 1..(n+1) : files[f][j].kind = "cut"
    BY <1>3, <1>13 DEF line
  <2>2. CASE Taken(line, walk.seen)
    <3>1. Charges(walk, line, new)
      BY <1>13, <2>2, ReadLineFacts DEF line
    <3>2. PICK turn \in Turn : ChargedFor(line, turn) /\ new.charged = Append(walk.charged, turn)
      BY <3>1 DEF Charges
    <3>3. readable
      BY <1>9, <1>13, <2>2 DEF Taken
    <3>4. LineAt(files, x).id = 0 \/ LineAt(files, x).id \notin walk.seen
      BY <1>1, <2>2 DEF Taken
    <3>5. Charged(files, Q \cup {x}, AllLines, AndIdOf(files, x, walk.seen), Append(c \o walk.charged, turn))
      <4>1. ChargedFor(LineAt(files, x), turn)
        BY <1>1, <3>2
      <4>2. x \in AllLines
        BY <1>1 DEF AllLines
      <4> QED BY <1>1, <1>4, <1>5, <3>4, <4>1, <4>2, ChargedAnew
    <3>6. new.seen = AndIdOf(files, x, walk.seen)
      BY <1>1, <3>1 DEF Charges, AndIdOf
    <3>7. c \o new.charged = Append(c \o walk.charged, turn)
      <4>1. walk.charged \in Seq(Turn)
        BY DEF WalkState
      <4> QED BY <3>2, <4>1
    <3>8. P \cup ReadIn(files, f, n + 1) = Q \cup {x}
      BY <1>10, <3>3
    <3>9. new.cut = FALSE
      BY <1>13, <3>1 DEF Charges
    <3> QED BY <1>6, <2>1, <3>5, <3>6, <3>7, <3>8, <3>9
  <2>3. CASE ~Taken(line, walk.seen)
    <3>1. new = walk
      BY <1>13, <2>3, ReadLineFacts DEF line
    <3>2. CASE readable
      <4>1. LineAt(files, x).id \in walk.seen
        BY <1>1, <1>7, <2>3, <3>2 DEF Taken
      <4>2. Charged(files, Q \cup {x}, AllLines, walk.seen, c \o walk.charged)
        BY <1>1, <1>4, <1>5, <4>1, ChargedBefore
      <4>3. P \cup ReadIn(files, f, n + 1) = Q \cup {x}
        BY <1>10, <3>2
      <4> QED BY <1>6, <1>13, <2>1, <3>1, <4>2, <4>3
    <3>3. CASE ~readable
      <4>1. P \cup ReadIn(files, f, n + 1) = Q
        BY <1>10, <3>3
      <4> QED BY <1>5, <1>6, <1>13, <2>1, <3>1, <4>1
    <3> QED BY <3>2, <3>3
  <2> QED BY <2>2, <2>3
<1> QED BY <1>8, <1>12, <1>13

\* A file that comes after the readable lines P.
LEMMA FileCharges ==
  ASSUME NEW files, NEW f \in Nat, files[f] \in Seq(AnyLine),
         NEW P, \A y \in P : y[1] < f,
         NEW seen \in SUBSET Nat, NEW c \in Seq(Turn), Charged(files, P, AllLines, seen, c),
         NEW walk, walk = WalkFile(files[f], seen)
  PROVE  /\ walk \in WalkState
         /\ walk.cut = TRUE <=> \E j \in 1..Len(files[f]) : files[f][j].kind = "cut"
         /\ Charged(files, P \cup ReadIn(files, f, Len(files[f])), AllLines, walk.seen, c \o walk.charged)
<1> DEFINE log == files[f]
           N == Len(log)
<1>1. N \in Nat /\ log \in Seq(AnyLine) /\ \A n \in 1..N : log[n] \in AnyLine
  OBVIOUS
<1>2. PICK w : IsFileWalk(w, log, seen)
  BY <1>1, FileWalkSteps
<1> DEFINE Good(n) == /\ w[n] \in WalkState
                      /\ w[n].cut = TRUE <=> \E j \in 1..n : files[f][j].kind = "cut"
                      /\ Charged(files, P \cup ReadIn(files, f, n), AllLines, w[n].seen, c \o w[n].charged)
           S == {n \in Nat : n <= N => Good(n)}
<1>3. 0 \in S
  <2>1. w[0] = Start(seen) /\ w[0] \in WalkState
    BY <1>1, <1>2 DEF IsFileWalk
  <2>2. w[0].seen = seen /\ w[0].cut = FALSE /\ w[0].charged = <<>>
    <3> DEFINE none == ""
    <3>1. w[0] = [seen |-> seen, model |-> none, charged |-> <<>>, cut |-> FALSE]
      BY <2>1, Zenon DEF Start
    <3> HIDE DEF none
    <3> QED BY <3>1
  <2>3. c \o <<>> = c
    BY ConcatEmptySeq
  <2>4. 1..0 = {}
    OBVIOUS
  <2>5. ReadIn(files, f, 0) = {}
    BY <2>4 DEF ReadIn
  <2>6. P \cup ReadIn(files, f, 0) = P
    BY <2>5
  <2>7. ~ \E j \in 1..0 : files[f][j].kind = "cut"
    BY <2>4
  <2> QED BY <2>1, <2>2, <2>3, <2>6, <2>7
<1> HIDE DEF Good
<1>4. ASSUME NEW n \in Nat, n \in S PROVE n + 1 \in S
  <2>1. SUFFICES ASSUME n + 1 <= N PROVE Good(n + 1)
    OBVIOUS
  <2>2. Good(n)
    BY <1>1, <1>4, <2>1
  <2>3. n + 1 \in 1..N /\ (n + 1) - 1 = n
    BY <1>1, <2>1
  <2>4. w[n + 1] = ReadLine(w[n], files[f][n + 1])
    BY <1>2, <2>3 DEF IsFileWalk
  <2>5. files[f][n + 1] \in AnyLine
    BY <1>1, <2>3
  <2> QED BY <2>2, <2>4, <2>5, ReadOneMore DEF Good
<1>5. Good(N)
  <2>1. Nat \subseteq S
    <3> HIDE DEF S
    <3> QED BY <1>3, <1>4, NumbersByInduction
  <2> QED BY <1>1, <2>1
<1>6. walk = w[N]
  BY <1>2 DEF IsFileWalk
<1> QED BY <1>5, <1>6 DEF Good

\* Where reading a file fails does not depend on the ids seen before.
LEMMA WalkFileFacts ==
  ASSUME NEW log \in Seq(AnyLine), NEW seen \in SUBSET Nat
  PROVE  /\ WalkFile(log, seen) \in WalkState
         /\ WalkFile(log, seen).cut = TRUE <=> \E j \in 1..Len(log) : log[j].kind = "cut"
<1> DEFINE N == Len(log)
<1>1. N \in Nat /\ \A n \in 1..N : log[n] \in AnyLine
  OBVIOUS
<1>2. PICK w : IsFileWalk(w, log, seen)
  BY FileWalkSteps
<1> DEFINE Good(n) == /\ w[n] \in WalkState
                      /\ w[n].cut = TRUE <=> \E j \in 1..n : log[j].kind = "cut"
           S == {n \in Nat : n <= N => Good(n)}
<1>3. 0 \in S
  <2>1. w[0] = Start(seen) /\ w[0] \in WalkState
    BY <1>1, <1>2 DEF IsFileWalk
  <2>2. w[0].cut = FALSE
    <3> DEFINE none == ""
    <3>1. w[0] = [seen |-> seen, model |-> none, charged |-> <<>>, cut |-> FALSE]
      BY <2>1, Zenon DEF Start
    <3> HIDE DEF none
    <3> QED BY <3>1
  <2>3. 1..0 = {}
    OBVIOUS
  <2>4. ~ \E j \in 1..0 : log[j].kind = "cut"
    BY <2>3
  <2> QED BY <2>1, <2>2, <2>4
<1> HIDE DEF Good
<1>4. ASSUME NEW n \in Nat, n \in S PROVE n + 1 \in S
  <2>1. SUFFICES ASSUME n + 1 <= N PROVE Good(n + 1)
    OBVIOUS
  <2>2. w[n] \in WalkState /\ (w[n].cut = TRUE <=> \E j \in 1..n : log[j].kind = "cut")
    BY <1>1, <1>4, <2>1 DEF Good
  <2>3. n + 1 \in 1..N /\ (n + 1) - 1 = n
    BY <1>1, <2>1
  <2>4. w[n + 1] = ReadLine(w[n], log[n + 1]) /\ log[n + 1] \in AnyLine
    BY <1>1, <1>2, <2>3 DEF IsFileWalk
  <2>5. w[n + 1] \in WalkState
    BY <2>2, <2>4, ReadLineFacts
  <2>6. w[n].cut = TRUE \/ w[n].cut = FALSE
    BY <2>2 DEF WalkState
  <2>7. w[n + 1].cut = TRUE <=> w[n].cut = TRUE \/ log[n + 1].kind = "cut"
    <3>1. CASE w[n].cut = TRUE \/ log[n + 1].kind = "cut"
      BY <2>2, <2>4, <3>1, ReadLineFacts
    <3>2. CASE w[n].cut = FALSE /\ log[n + 1].kind # "cut"
      <4>1. CASE Taken(log[n + 1], w[n].seen)
        <5>1. Charges(w[n], log[n + 1], w[n + 1])
          BY <2>2, <2>4, <3>2, <4>1, ReadLineFacts
        <5>2. w[n + 1].cut = w[n].cut
          BY <5>1 DEF Charges
        <5> QED BY <3>2, <5>2
      <4>2. CASE ~Taken(log[n + 1], w[n].seen)
        <5>1. w[n + 1] = w[n]
          BY <2>2, <2>4, <3>2, <4>2, ReadLineFacts
        <5> QED BY <3>2, <5>1
      <4> QED BY <4>1, <4>2
    <3> QED BY <2>6, <3>1, <3>2
  <2>8. \A j : j \in 1..(n+1) <=> j \in 1..n \/ j = n + 1
    OBVIOUS
  <2> QED BY <2>2, <2>5, <2>7, <2>8 DEF Good
<1>5. Good(N)
  <2>1. Nat \subseteq S
    <3> HIDE DEF S
    <3> QED BY <1>3, <1>4, NumbersByInduction
  <2> QED BY <1>1, <2>1
<1>6. WalkFile(log, seen) = w[N]
  BY <1>2 DEF IsFileWalk
<1> QED BY <1>5, <1>6 DEF Good

NoSpend == [seen |-> {}, charged |-> <<>>]

LEMMA SpendOfFileType ==
  ASSUME NEW total \in Spent, NEW log \in Seq(AnyLine)
  PROVE  /\ SpendOfFile(total, log) \in Spent
         /\ ~InWindow(log) => SpendOfFile(total, log) = total
         /\ InWindow(log) =>
              SpendOfFile(total, log) = [seen |-> WalkFile(log, total.seen).seen,
                                          charged |-> total.charged \o WalkFile(log, total.seen).charged]
<1>1. total.seen \in SUBSET Nat /\ total.charged \in Seq(Turn)
  BY DEF Spent
<1> DEFINE walk == WalkFile(log, total.seen)
<1>2. walk \in WalkState
  BY <1>1, WalkFileFacts
<1>3. ~InWindow(log) => SpendOfFile(total, log) = total
  BY DEF SpendOfFile
<1>4. InWindow(log) => SpendOfFile(total, log) = [seen |-> walk.seen, charged |-> total.charged \o walk.charged]
  BY DEF SpendOfFile
<1> HIDE DEF walk
<1>5. walk.seen \in SUBSET Nat /\ walk.charged \in Seq(Turn)
  BY <1>2 DEF WalkState
<1>6. total.charged \o walk.charged \in Seq(Turn)
  BY <1>1, <1>5
<1>7. [seen |-> walk.seen, charged |-> total.charged \o walk.charged] \in Spent
  BY <1>5, <1>6 DEF Spent
<1> QED BY <1>3, <1>4, <1>7 DEF walk

\* t[n] is what the first n files have cost.
IsSpending(t, files) ==
    /\ t \in [0..Len(files) -> Spent]
    /\ t[0] = NoSpend
    /\ \A n \in 1..Len(files) : t[n] = SpendOfFile(t[n - 1], files[n])

LEMMA SpendSteps ==
  ASSUME NEW files \in Seq(Seq(AnyLine))
  PROVE  \E t : IsSpending(t, files) /\ Spend(files) = t[Len(files)]
<1> DEFINE N == Len(files)
           A == Spent
           base == NoSpend
           step == [n \in 1..N |-> [x \in A |-> SpendOfFile(x, files[n])]]
           Walk(w) == [s \in SUBSET (DOMAIN files) |->
                         IF s = {} THEN base ELSE SpendOfFile(w[s \ {Max(s)}], files[Max(s)])]
           walk == CHOOSE w : w = Walk(w)
<1>1. N \in Nat /\ DOMAIN files = 1..N /\ \A n \in 1..N : files[n] \in Seq(AnyLine)
  OBVIOUS
<1>2. step \in [1..N -> [A -> A]] /\ base \in A
  <2>1. \A n \in 1..N : \A x \in A : SpendOfFile(x, files[n]) \in A
    BY <1>1, SpendOfFileType
  <2>2. base \in A
    <3>1. <<>> \in Seq(Turn)
      OBVIOUS
    <3> QED BY <3>1 DEF NoSpend, Spent
  <2> HIDE DEF A, N, base
  <2> QED BY <2>1, <2>2
<1>3. Spend(files) = walk[DOMAIN files]
  BY Zenon DEF Spend, FoldLeft, MapThenFoldSet, NoSpend
<1> HIDE DEF A, base
<1>4. PICK g \in [SUBSET (1..N) -> A] : IsFoldFunction(g, N, base, step)
  <2>1. N \in Nat
    BY <1>1
  <2> HIDE DEF step, N, Walk, walk
  <2> QED BY <2>1, <1>2, FoldFunctionExists
<1>5. \A s \in SUBSET (1..N) : g[s] = IF s = {} THEN base ELSE SpendOfFile(g[s \ {Max(s)}], files[Max(s)])
  <2>1. \A s \in SUBSET (1..N) : s # {} => Max(s) \in 1..N /\ s \ {Max(s)} \in SUBSET (1..N)
    BY <1>1, MaxIsMember
  <2> QED BY <1>4, <2>1 DEF IsFoldFunction
<1>6. g = Walk(g)
  <2> HIDE DEF N
  <2> QED BY <1>5, <1>1
<1>7. walk = Walk(walk)
  <2> HIDE DEF Walk
  <2> QED BY <1>6, Zenon
<1> HIDE DEF walk
<1>8. walk[{}] = base
  BY <1>7
<1>9. \A n \in 1..N : walk[1..n] = SpendOfFile(walk[1..(n-1)], files[n])
  <2> SUFFICES ASSUME NEW n \in 1..N PROVE walk[1..n] = SpendOfFile(walk[1..(n-1)], files[n])
    OBVIOUS
  <2>1. 1..n # {} /\ Max(1..n) = n /\ (1..n) \ {n} = 1..(n-1)
    BY <1>1, IntervalSteps
  <2>2. 1..n \in SUBSET (DOMAIN files)
    BY <1>1
  <2>3. walk[1..n] = IF 1..n = {} THEN base ELSE SpendOfFile(walk[(1..n) \ {Max(1..n)}], files[Max(1..n)])
    BY <1>7, <2>2
  <2> QED BY <2>1, <2>3
<1>10. \A n \in 1..N : \A x \in A : step[n][x] = SpendOfFile(x, files[n])
  OBVIOUS
<1>11. GoesOn(walk, N, A, base, step)
  BY <1>8, <1>9, <1>10 DEF GoesOn
<1>12. PICK f : IsRun(f, N, A, base, step) /\ f[N] = walk[1..N]
  <2>1. N \in Nat
    BY <1>1
  <2>2. step \in [1..N -> [A -> A]] /\ base \in A /\ GoesOn(walk, N, A, base, step)
    BY <1>2, <1>11
  <2> HIDE DEF step, N, Walk
  <2>3. RunsLike(walk, N, A, base, step)
    BY <2>1, <2>2, RunAlong
  <2> QED BY <2>3 DEF RunsLike
<1>13. \A n \in 1..N : n - 1 \in 0..N
  BY <1>1
<1>14. IsSpending(f, files)
  BY <1>1, <1>10, <1>12, <1>13 DEF IsSpending, IsRun, A, base
<1>15. Spend(files) = f[N]
  BY <1>1, <1>3, <1>12
<1> QED BY <1>14, <1>15

\* The readable lines of the first n files.
Done(files, n) == UNION {ReadIn(files, f, Len(files[f])) : f \in 1..n}

LEMMA NothingCharged ==
  ASSUME NEW files, NEW K
  PROVE  Charged(files, {}, K, {}, <<>>)
<1>1. FirstIn(files, {}) = {}
  BY DEF FirstIn
<1>2. PaidFor(files, {}, <<>>) /\ {} \cap K = {}
  BY FS_EmptySet DEF PaidFor
<1>3. <<>> \in Seq(Turn) /\ Len(<<>>) = 0
  OBVIOUS
<1>4. {LineAt(files, at).id : at \in {}} \ {0} = {}
  OBVIOUS
<1> QED BY <1>1, <1>2, <1>3, <1>4 DEF Charged

LEMMA SpendCharges ==
  ASSUME NEW files \in Seq(Seq(AnyLine))
  PROVE  Charged(files, Done(files, Len(files)), AllLines, Spend(files).seen, Spend(files).charged)
<1> DEFINE N == Len(files)
<1>1. N \in Nat /\ \A n \in 1..N : files[n] \in Seq(AnyLine)
  OBVIOUS
<1>2. PICK t : IsSpending(t, files) /\ Spend(files) = t[N]
  BY SpendSteps
<1> DEFINE Good(n) == Charged(files, Done(files, n), AllLines, t[n].seen, t[n].charged)
           S == {n \in Nat : n <= N => Good(n)}
<1>3. 0 \in S
  <2>1. t[0].seen = {} /\ t[0].charged = <<>>
    BY <1>2 DEF IsSpending, NoSpend
  <2>2. 1..0 = {}
    OBVIOUS
  <2>3. Done(files, 0) = {}
    BY <2>2 DEF Done
  <2> QED BY <2>1, <2>3, NothingCharged
<1> HIDE DEF Good
<1>4. ASSUME NEW n \in Nat, n \in S PROVE n + 1 \in S
  <2>1. SUFFICES ASSUME n + 1 <= N PROVE Good(n + 1)
    OBVIOUS
  <2> DEFINE P == Done(files, n)
             log == files[n + 1]
             total == t[n]
             read == ReadIn(files, n + 1, Len(log))
  <2>2. n + 1 \in 1..N /\ (n + 1) - 1 = n /\ n \in 0..N
    BY <1>1, <2>1
  <2>3. Charged(files, P, AllLines, total.seen, total.charged)
    BY <1>1, <1>4, <2>1 DEF Good
  <2>4. t[n + 1] = SpendOfFile(total, log) /\ total \in Spent /\ log \in Seq(AnyLine)
    BY <1>1, <1>2, <2>2 DEF IsSpending
  <2>5. total.seen \in SUBSET Nat /\ total.charged \in Seq(Turn)
    BY <2>4 DEF Spent
  <2>6. 1..(n+1) = (1..n) \cup {n + 1}
    OBVIOUS
  <2>7. Done(files, n + 1) = P \cup read
    BY <2>6 DEF Done
  <2>8. \A y \in P : y[1] < n + 1
    BY DEF Done, ReadIn
  <2> HIDE DEF P, total
  <2>9. CASE ~InWindow(log)
    <3>1. t[n + 1] = total
      BY <2>4, <2>9, SpendOfFileType
    <3>2. read = {}
      <4>1. DOMAIN log = 1..Len(log)
        BY <2>4
      <4>2. \A i \in 1..Len(log) : ~(IsStamped(log[i]) /\ log[i].at >= Earliest)
        BY <2>9, <4>1 DEF InWindow
      <4> QED BY <4>2 DEF ReadIn
    <3>3. Done(files, n + 1) = P
      BY <2>7, <3>2
    <3> QED BY <2>3, <3>1, <3>3 DEF Good
  <2>10. CASE InWindow(log)
    <3> DEFINE walk == WalkFile(log, total.seen)
    <3>1. Charged(files, P \cup read, AllLines, walk.seen, total.charged \o walk.charged)
      <4>1. n + 1 \in Nat
        OBVIOUS
      <4> QED BY <2>3, <2>4, <2>5, <2>8, <4>1, FileCharges
    <3>2. t[n + 1] = [seen |-> walk.seen, charged |-> total.charged \o walk.charged]
      BY <2>4, <2>10, SpendOfFileType
    <3> HIDE DEF walk
    <3>3. t[n + 1].seen = walk.seen /\ t[n + 1].charged = total.charged \o walk.charged
      <4> DEFINE new == t[n + 1]
      <4>1. new = [seen |-> walk.seen, charged |-> total.charged \o walk.charged]
        BY <3>2
      <4> HIDE DEF new
      <4>2. new.seen = walk.seen /\ new.charged = total.charged \o walk.charged
        BY <4>1
      <4> QED BY <4>2 DEF new
    <3> QED BY <2>7, <3>1, <3>3 DEF Good
  <2> QED BY <2>9, <2>10
<1>5. Good(N)
  <2>1. Nat \subseteq S
    <3> HIDE DEF S
    <3> QED BY <1>3, <1>4, NumbersByInduction
  <2> QED BY <1>1, <2>1
<1> QED BY <1>2, <1>5 DEF Good

LEMMA DoneIsReadable ==
  ASSUME NEW files \in Seq(Seq(AnyLine))
  PROVE  Done(files, Len(files)) = Readable(files)
<1>1. DOMAIN files = 1..Len(files)
  OBVIOUS
<1>2. \A f \in 1..Len(files) : DOMAIN files[f] = 1..Len(files[f])
  OBVIOUS
<1> DEFINE Of(f) == {f} \X {i \in DOMAIN files[f] :
                              /\ IsStamped(files[f][i]) /\ files[f][i].at >= Earliest
                              /\ \A j \in 1..i : files[f][j].kind # "cut"}
<1>3. \A f \in 1..Len(files) : ReadIn(files, f, Len(files[f])) = Of(f)
  BY <1>2 DEF ReadIn
<1>4. Readable(files) = UNION {Of(f) : f \in DOMAIN files}
  BY DEF Readable
<1> HIDE DEF Of
<1> QED BY <1>1, <1>3, <1>4 DEF Done

\* What is paid for, as PaceWalk says it.
LEMMA PaidForPays ==
  ASSUME NEW files, NEW F, NEW charged, PaidFor(files, F, charged)
  PROVE  PaysFor(files, F, charged)
BY DEF PaidFor, PaysFor, ChargedFor, PlaceIn

LEMMA SpendChargesOnce ==
  ASSUME NEW files \in Seq(Seq(AnyLine))
  PROVE  ChargesOnce(files)
<1>1. FirstIn(files, Readable(files)) = FirstCopies(files)
  BY DEF FirstIn, FirstCopies
<1>2. PaidFor(files, FirstIn(files, Readable(files)) \cap AllLines, Spend(files).charged)
      /\ Readable(files) \subseteq AllLines
  BY SpendCharges, DoneIsReadable DEF Charged, AllLines
<1>3. FirstCopies(files) \cap AllLines = FirstCopies(files)
  BY <1>2 DEF FirstCopies
<1>4. PaidFor(files, FirstCopies(files), Spend(files).charged)
  BY <1>1, <1>2, <1>3
<1> QED BY <1>4, PaidForPays DEF ChargesOnce

\* The walk by the hour.
Buckets == [0..Hours-1 -> Seq(Turn)]
HourState == [seen : SUBSET Nat, model : Models, buckets : Buckets, cut : BOOLEAN]
Burnt == [seen : SUBSET Nat, buckets : Buckets]
HourStart(seen) == [seen |-> seen, model |-> "", buckets |-> NoBurn, cut |-> FALSE]

\* What a turn adds to the bucket of its hour.
IsInHour(buckets, h, line, turn, new) ==
    new[h] = IF h = HourOf(line.at) THEN Append(buckets[h], turn) ELSE buckets[h]

HourCharges(walk, line, new) ==
    /\ new.cut = walk.cut
    /\ new.seen = IF line.id = 0 THEN walk.seen ELSE walk.seen \cup {line.id}
    /\ \E turn \in Turn : /\ ChargedFor(line, turn)
                          /\ \A h \in 0..Hours-1 : IsInHour(walk.buckets, h, line, turn, new.buckets)

LEMMA HourLineFacts ==
  ASSUME NEW walk \in HourState, NEW line \in AnyLine
  PROVE  /\ HourLine(walk, line) \in HourState
         /\ walk.cut = TRUE \/ line.kind = "cut" =>
              /\ HourLine(walk, line).cut = TRUE /\ HourLine(walk, line).seen = walk.seen
              /\ HourLine(walk, line).buckets = walk.buckets
         /\ walk.cut = FALSE /\ line.kind # "cut" /\ ~Taken(line, walk.seen) => HourLine(walk, line) = walk
         /\ walk.cut = FALSE /\ Taken(line, walk.seen) => HourCharges(walk, line, HourLine(walk, line))
<1>1. /\ walk.seen \in SUBSET Nat /\ walk.model \in Models /\ walk.buckets \in Buckets
      /\ walk.cut \in BOOLEAN
      /\ walk = [seen |-> walk.seen, model |-> walk.model, buckets |-> walk.buckets, cut |-> walk.cut]
  BY DEF HourState
<1>2. CASE walk.cut = TRUE \/ line.kind = "cut"
  <2>1. HourLine(walk, line) = [walk EXCEPT !.cut = TRUE]
    BY <1>2 DEF HourLine
  <2>2. HourLine(walk, line)
          = [seen |-> walk.seen, model |-> walk.model, buckets |-> walk.buckets, cut |-> TRUE]
    BY <1>1, <2>1
  <2>3. Taken(line, walk.seen) => line.kind # "cut"
    BY DEF Taken
  <2> QED BY <1>1, <1>2, <2>2, <2>3 DEF HourState
<1>3. CASE walk.cut = FALSE /\ line.kind # "cut" /\ ~Taken(line, walk.seen)
  <2>1. HourLine(walk, line) = walk
    BY <1>3 DEF HourLine
  <2> QED BY <1>3, <2>1
<1>4. CASE walk.cut = FALSE /\ line.kind # "cut" /\ Taken(line, walk.seen)
  <2> DEFINE model == IF line.model # "" THEN line.model ELSE walk.model
             turn == [id |-> line.id, at |-> line.at, model |-> model]
             seen == IF line.id = 0 THEN walk.seen ELSE walk.seen \cup {line.id}
             buckets == [h \in 0..Hours-1 |-> IF h = HourOf(line.at) THEN Append(walk.buckets[h], turn)
                                              ELSE walk.buckets[h]]
  <2>1. line.kind = "turn"
    BY <1>4 DEF Taken
  <2>2. line.id \in Nat /\ line.at \in Nat /\ line.model \in STRING
    BY <2>1, LineFacts
  <2>3. turn \in Turn /\ ChargedFor(line, turn) /\ seen \in SUBSET Nat /\ model \in Models
    BY <1>1, <2>2 DEF Turn, ChargedFor, Models
  <2>4. HourLine(walk, line) = [walk EXCEPT !.seen = seen, !.model = model, !.buckets = buckets]
    BY <1>4 DEF HourLine
  <2> HIDE DEF turn, seen, model
  <2>5. buckets \in Buckets
    <3> SUFFICES ASSUME NEW h \in 0..Hours-1
                 PROVE  (IF h = HourOf(line.at) THEN Append(walk.buckets[h], turn) ELSE walk.buckets[h])
                          \in Seq(Turn)
      BY DEF Buckets
    <3>1. walk.buckets[h] \in Seq(Turn)
      BY <1>1 DEF Buckets
    <3>2. Append(walk.buckets[h], turn) \in Seq(Turn)
      BY <2>3, <3>1
    <3> QED BY <3>1, <3>2
  <2>6. \A h \in 0..Hours-1 : IsInHour(walk.buckets, h, line, turn, buckets)
    BY DEF IsInHour
  <2> HIDE DEF buckets
  <2>7. HourLine(walk, line)
          = [seen |-> seen, model |-> model, buckets |-> buckets, cut |-> walk.cut]
    BY <1>1, <2>4
  <2>8. HourLine(walk, line) \in HourState
    BY <1>1, <2>3, <2>5, <2>7 DEF HourState
  <2>9. HourCharges(walk, line, HourLine(walk, line))
    <3> DEFINE new == HourLine(walk, line)
    <3>1. new.cut = walk.cut /\ new.seen = seen /\ new.buckets = buckets
      BY <2>7
    <3> HIDE DEF new
    <3>2. HourCharges(walk, line, new)
      BY <2>3, <2>6, <3>1 DEF HourCharges, seen
    <3> QED BY <3>2 DEF new
  <2> QED BY <1>4, <2>8, <2>9
<1>5. walk.cut = TRUE \/ walk.cut = FALSE
  BY <1>1
<1>6. Taken(line, walk.seen) => line.kind # "cut"
  BY DEF Taken
<1> QED BY <1>2, <1>3, <1>4, <1>5, <1>6

\* f[n] is the walk of a file after n lines.
IsHourWalk(f, log, seen) ==
    /\ f \in [0..Len(log) -> HourState]
    /\ f[0] = HourStart(seen)
    /\ \A n \in 1..Len(log) : f[n] = HourLine(f[n - 1], log[n])
    /\ HoursOf(log, seen) = f[Len(log)]

LEMMA HourStartFacts ==
  ASSUME NEW seen \in SUBSET Nat
  PROVE  /\ HourStart(seen) \in HourState /\ HourStart(seen).seen = seen
         /\ HourStart(seen).cut = FALSE /\ HourStart(seen).buckets = NoBurn
         /\ NoBurn \in Buckets
<1> DEFINE none == ""
<1>1. HourStart(seen) = [seen |-> seen, model |-> none, buckets |-> NoBurn, cut |-> FALSE]
  BY Zenon DEF HourStart
<1>2. none \in Models
  BY DEF Models
<1> HIDE DEF none
<1>3. <<>> \in Seq(Turn)
  OBVIOUS
<1>4. NoBurn \in Buckets
  BY <1>3 DEF NoBurn, Buckets
<1> QED BY <1>1, <1>2, <1>4 DEF HourState

LEMMA HourWalkSteps ==
  ASSUME NEW log \in Seq(AnyLine), NEW seen \in SUBSET Nat
  PROVE  \E f : IsHourWalk(f, log, seen)
<1> DEFINE N == Len(log)
           A == HourState
           base == HourStart(seen)
           step == [n \in 1..N |-> [x \in A |-> HourLine(x, log[n])]]
           Walk(w) == [t \in SUBSET (DOMAIN log) |->
                         IF t = {} THEN base ELSE HourLine(w[t \ {Max(t)}], log[Max(t)])]
           walk == CHOOSE w : w = Walk(w)
<1>1. N \in Nat /\ DOMAIN log = 1..N /\ \A n \in 1..N : log[n] \in AnyLine
  OBVIOUS
<1>2. step \in [1..N -> [A -> A]] /\ base \in A
  <2>1. \A n \in 1..N : \A x \in A : HourLine(x, log[n]) \in A
    BY <1>1, HourLineFacts
  <2>2. base \in A
    BY HourStartFacts
  <2> HIDE DEF A, N, base
  <2> QED BY <2>1, <2>2
<1>3. HoursOf(log, seen) = walk[DOMAIN log]
  BY Zenon DEF HoursOf, FoldLeft, MapThenFoldSet, HourStart
<1> HIDE DEF A, base
<1>4. PICK g \in [SUBSET (1..N) -> A] : IsFoldFunction(g, N, base, step)
  <2>1. N \in Nat
    BY <1>1
  <2> HIDE DEF step, N, Walk, walk
  <2> QED BY <2>1, <1>2, FoldFunctionExists
<1>5. \A t \in SUBSET (1..N) : g[t] = IF t = {} THEN base ELSE HourLine(g[t \ {Max(t)}], log[Max(t)])
  <2>1. \A t \in SUBSET (1..N) : t # {} => Max(t) \in 1..N /\ t \ {Max(t)} \in SUBSET (1..N)
    BY <1>1, MaxIsMember
  <2> QED BY <1>4, <2>1 DEF IsFoldFunction
<1>6. g = Walk(g)
  <2> HIDE DEF N
  <2> QED BY <1>5, <1>1
<1>7. walk = Walk(walk)
  <2> HIDE DEF Walk
  <2> QED BY <1>6, Zenon
<1> HIDE DEF walk
<1>8. walk[{}] = base
  BY <1>7
<1>9. \A n \in 1..N : walk[1..n] = HourLine(walk[1..(n-1)], log[n])
  <2> SUFFICES ASSUME NEW n \in 1..N PROVE walk[1..n] = HourLine(walk[1..(n-1)], log[n])
    OBVIOUS
  <2>1. 1..n # {} /\ Max(1..n) = n /\ (1..n) \ {n} = 1..(n-1)
    BY <1>1, IntervalSteps
  <2>2. 1..n \in SUBSET (DOMAIN log)
    BY <1>1
  <2>3. walk[1..n] = IF 1..n = {} THEN base ELSE HourLine(walk[(1..n) \ {Max(1..n)}], log[Max(1..n)])
    BY <1>7, <2>2
  <2> QED BY <2>1, <2>3
<1>10. \A n \in 1..N : \A x \in A : step[n][x] = HourLine(x, log[n])
  OBVIOUS
<1>11. GoesOn(walk, N, A, base, step)
  BY <1>8, <1>9, <1>10 DEF GoesOn
<1>12. PICK f : IsRun(f, N, A, base, step) /\ f[N] = walk[1..N]
  <2>1. N \in Nat
    BY <1>1
  <2>2. step \in [1..N -> [A -> A]] /\ base \in A /\ GoesOn(walk, N, A, base, step)
    BY <1>2, <1>11
  <2> HIDE DEF step, N, Walk
  <2>3. RunsLike(walk, N, A, base, step)
    BY <2>1, <2>2, RunAlong
  <2> QED BY <2>3 DEF RunsLike
<1>13. \A n \in 1..N : n - 1 \in 0..N
  BY <1>1
<1>14. IsHourWalk(f, log, seen)
  BY <1>1, <1>3, <1>10, <1>12, <1>13 DEF IsHourWalk, IsRun, A, base
<1> QED BY <1>14

LEMMA AppendConcat ==
  ASSUME NEW a \in Seq(Turn), NEW b \in Seq(Turn), NEW turn \in Turn
  PROVE  a \o Append(b, turn) = Append(a \o b, turn)
OBVIOUS

IsWhole(log) == \A j \in 1..Len(log) : log[j].kind # "cut"

\* The lines that count for hour h.
HourLines(files, h) == {at \in AllLines : HourOf(LineAt(files, at).at) = h /\ IsWhole(files[at[1]])}

\* The bucket of an hour when a file has been read, or cannot be.
WithFile(whole, total, own) == IF whole THEN total \o own ELSE total

\* One line of a file that comes after the readable lines P.
LEMMA HourOneMore ==
  ASSUME NEW files, NEW f \in Nat, NEW n \in Nat, files[f][n + 1] \in AnyLine,
         NEW h \in 0..Hours-1,
         NEW whole, whole <=> IsWhole(files[f]),
         NEW P, \A y \in P : y[1] < f,
         NEW walk \in HourState, NEW c \in Seq(Turn),
         walk.cut = TRUE <=> \E j \in 1..n : files[f][j].kind = "cut",
         Charged(files, P \cup ReadIn(files, f, n), HourLines(files, h), walk.seen,
                 WithFile(whole, c, walk.buckets[h])),
         NEW new, new = HourLine(walk, files[f][n + 1])
  PROVE  /\ new \in HourState
         /\ new.cut = TRUE <=> \E j \in 1..(n+1) : files[f][j].kind = "cut"
         /\ Charged(files, P \cup ReadIn(files, f, n + 1), HourLines(files, h), new.seen,
                    WithFile(whole, c, new.buckets[h]))
<1> DEFINE line == files[f][n + 1]
           readable == /\ IsStamped(line) /\ line.at >= Earliest
                       /\ \A j \in 1..(n+1) : files[f][j].kind # "cut"
           Q == P \cup ReadIn(files, f, n)
           x == <<f, n + 1>>
           K == HourLines(files, h)
<1>1. readable \in BOOLEAN /\ x \in Nat \X Nat /\ LineAt(files, x) = line /\ line \in AnyLine
  BY DEF LineAt
<1>2. /\ ReadIn(files, f, n) \subseteq {f} \X (1..n)
      /\ ReadIn(files, f, n + 1) = ReadIn(files, f, n) \cup (IF readable THEN {x} ELSE {})
  <2> DEFINE r == readable
  <2>1. r \in BOOLEAN
    OBVIOUS
  <2>2. r <=> /\ IsStamped(files[f][n+1]) /\ files[f][n+1].at >= Earliest
              /\ \A j \in 1..(n+1) : files[f][j].kind # "cut"
    OBVIOUS
  <2> HIDE DEF r
  <2>3. /\ ReadIn(files, f, n) \subseteq {f} \X (1..n)
        /\ ReadIn(files, f, n + 1) = ReadIn(files, f, n) \cup (IF r THEN {<<f, n + 1>>} ELSE {})
    BY <2>1, <2>2, ReadInOneMore
  <2> QED BY <2>3 DEF r
<1>3. \A j : j \in 1..(n+1) <=> j \in 1..n \/ j = n + 1
  OBVIOUS
<1>4. \A y \in Q : Before(y, x)
  <2>1. \A y \in P : Before(y, x)
    BY DEF Before
  <2>2. \A y \in {f} \X (1..n) : y[1] = f /\ y[2] < n + 1
    OBVIOUS
  <2>3. \A y \in {f} \X (1..n) : Before(y, x)
    BY <2>2 DEF Before
  <2> QED BY <1>2, <2>1, <2>3
<1>5. Charged(files, Q, K, walk.seen, WithFile(whole, c, walk.buckets[h]))
  OBVIOUS
<1>6. new \in HourState /\ walk.buckets[h] \in Seq(Turn)
  BY HourLineFacts DEF HourState, Buckets
<1>7. readable => line.kind = "turn" /\ line.at # 0 /\ line.at >= Earliest /\ walk.cut # TRUE /\ line.kind # "cut"
  BY <1>3 DEF IsStamped
<1>8. walk.cut = TRUE \/ walk.cut = FALSE
  BY DEF HourState
<1>9. line.kind = "turn" /\ line.at # 0 /\ line.at >= Earliest /\ walk.cut = FALSE => readable
  BY <1>3 DEF IsStamped
<1>10. P \cup ReadIn(files, f, n + 1) = Q \cup (IF readable THEN {x} ELSE {})
  BY <1>2
<1>11. x \in K <=> HourOf(line.at) = h /\ whole
  BY <1>1 DEF HourLines, AllLines
<1> HIDE DEF readable, Q, line, x, K
<1>12. CASE walk.cut = TRUE \/ line.kind = "cut"
  <2>1. new.cut = TRUE /\ new.seen = walk.seen /\ new.buckets = walk.buckets
    BY <1>12, HourLineFacts DEF line
  <2>2. ~readable
    BY <1>7, <1>12
  <2>3. P \cup ReadIn(files, f, n + 1) = Q
    BY <1>10, <2>2
  <2>4. \E j \in 1..(n+1) : files[f][j].kind = "cut"
    BY <1>3, <1>12 DEF line
  <2> QED BY <1>5, <1>6, <2>1, <2>3, <2>4 DEF K
<1>13. CASE walk.cut = FALSE /\ line.kind # "cut"
  <2>1. ~ \E j \in 1..(n+1) : files[f][j].kind = "cut"
    BY <1>3, <1>13 DEF line
  <2>2. CASE Taken(line, walk.seen)
    <3>1. HourCharges(walk, line, new)
      BY <1>13, <2>2, HourLineFacts DEF line
    <3>2. PICK turn \in Turn : /\ ChargedFor(line, turn)
                               /\ IsInHour(walk.buckets, h, line, turn, new.buckets)
      BY <3>1 DEF HourCharges
    <3>3. readable
      BY <1>9, <1>13, <2>2 DEF Taken
    <3>4. LineAt(files, x).id = 0 \/ LineAt(files, x).id \notin walk.seen
      BY <1>1, <2>2 DEF Taken
    <3>5. ChargedFor(LineAt(files, x), turn)
      BY <1>1, <3>2
    <3>6. new.seen = AndIdOf(files, x, walk.seen) /\ new.cut = FALSE
      BY <1>1, <1>13, <3>1 DEF HourCharges, AndIdOf
    <3>7. P \cup ReadIn(files, f, n + 1) = Q \cup {x}
      BY <1>10, <3>3
    <3>8. CASE x \in K
      <4>1. Charged(files, Q \cup {x}, K, AndIdOf(files, x, walk.seen),
                    Append(WithFile(whole, c, walk.buckets[h]), turn))
        BY <1>1, <1>4, <1>5, <3>4, <3>5, <3>8, ChargedAnew
      <4>2. new.buckets[h] = Append(walk.buckets[h], turn) /\ whole
        BY <1>11, <3>2, <3>8 DEF IsInHour
      <4>3. WithFile(whole, c, new.buckets[h]) = Append(WithFile(whole, c, walk.buckets[h]), turn)
        <5> DEFINE own == walk.buckets[h]
        <5>1. own \in Seq(Turn) /\ new.buckets[h] = Append(own, turn)
          BY <1>6, <4>2
        <5> HIDE DEF own
        <5>2. c \o Append(own, turn) = Append(c \o own, turn)
          BY <5>1, AppendConcat
        <5>3. WithFile(whole, c, new.buckets[h]) = c \o Append(own, turn)
              /\ WithFile(whole, c, own) = c \o own
          BY <4>2, <5>1 DEF WithFile
        <5> QED BY <5>2, <5>3 DEF own
      <4> QED BY <1>6, <2>1, <3>6, <3>7, <4>1, <4>3 DEF K
    <3>9. CASE x \notin K
      <4>1. Charged(files, Q \cup {x}, K, AndIdOf(files, x, walk.seen),
                    WithFile(whole, c, walk.buckets[h]))
        BY <1>1, <1>4, <1>5, <3>4, <3>9, SeenAnew
      <4>2. whole => new.buckets[h] = walk.buckets[h]
        BY <1>11, <3>2, <3>9 DEF IsInHour
      <4>3. WithFile(whole, c, new.buckets[h]) = WithFile(whole, c, walk.buckets[h])
        BY <4>2 DEF WithFile
      <4> QED BY <1>6, <2>1, <3>6, <3>7, <4>1, <4>3 DEF K
    <3> QED BY <3>8, <3>9
  <2>3. CASE ~Taken(line, walk.seen)
    <3>1. new = walk
      BY <1>13, <2>3, HourLineFacts DEF line
    <3>2. CASE readable
      <4>1. LineAt(files, x).id \in walk.seen
        BY <1>1, <1>7, <2>3, <3>2 DEF Taken
      <4>2. Charged(files, Q \cup {x}, K, walk.seen, WithFile(whole, c, walk.buckets[h]))
        BY <1>1, <1>4, <1>5, <4>1, ChargedBefore
      <4>3. P \cup ReadIn(files, f, n + 1) = Q \cup {x}
        BY <1>10, <3>2
      <4> QED BY <1>6, <1>13, <2>1, <3>1, <4>2, <4>3 DEF K
    <3>3. CASE ~readable
      <4>1. P \cup ReadIn(files, f, n + 1) = Q
        BY <1>10, <3>3
      <4> QED BY <1>5, <1>6, <1>13, <2>1, <3>1, <4>1 DEF K
    <3> QED BY <3>2, <3>3
  <2> QED BY <2>2, <2>3
<1> QED BY <1>8, <1>12, <1>13

\* A file that comes after the readable lines P.
LEMMA HourFileCharges ==
  ASSUME NEW files, NEW f \in Nat, files[f] \in Seq(AnyLine),
         NEW h \in 0..Hours-1,
         NEW P, \A y \in P : y[1] < f,
         NEW seen \in SUBSET Nat, NEW c \in Seq(Turn), Charged(files, P, HourLines(files, h), seen, c),
         NEW walk, walk = HoursOf(files[f], seen)
  PROVE  /\ walk \in HourState
         /\ walk.cut = TRUE <=> ~IsWhole(files[f])
         /\ Charged(files, P \cup ReadIn(files, f, Len(files[f])), HourLines(files, h), walk.seen,
                    WithFile(walk.cut = FALSE, c, walk.buckets[h]))
<1> DEFINE log == files[f]
           N == Len(log)
           whole == IsWhole(log)
<1>1. N \in Nat /\ log \in Seq(AnyLine) /\ \A n \in 1..N : log[n] \in AnyLine
  OBVIOUS
<1>2. PICK w : IsHourWalk(w, log, seen)
  BY <1>1, HourWalkSteps
<1> DEFINE Good(n) == /\ w[n] \in HourState
                      /\ w[n].cut = TRUE <=> \E j \in 1..n : files[f][j].kind = "cut"
                      /\ Charged(files, P \cup ReadIn(files, f, n), HourLines(files, h), w[n].seen,
                                 WithFile(whole, c, w[n].buckets[h]))
           S == {n \in Nat : n <= N => Good(n)}
<1>3. 0 \in S
  <2>1. w[0] = HourStart(seen)
    BY <1>1, <1>2 DEF IsHourWalk
  <2>2. w[0] \in HourState /\ w[0].seen = seen /\ w[0].cut = FALSE /\ w[0].buckets[h] = <<>>
    <3>1. w[0] \in HourState /\ w[0].seen = seen /\ w[0].cut = FALSE /\ w[0].buckets = NoBurn
      BY <2>1, HourStartFacts
    <3>2. NoBurn[h] = <<>>
      BY DEF NoBurn
    <3> QED BY <3>1, <3>2
  <2>3. WithFile(whole, c, <<>>) = c
    BY ConcatEmptySeq DEF WithFile
  <2>4. 1..0 = {}
    OBVIOUS
  <2>5. ReadIn(files, f, 0) = {}
    BY <2>4 DEF ReadIn
  <2>6. P \cup ReadIn(files, f, 0) = P
    BY <2>5
  <2>7. ~ \E j \in 1..0 : files[f][j].kind = "cut"
    BY <2>4
  <2> HIDE DEF whole
  <2> QED BY <2>2, <2>3, <2>6, <2>7
<1> HIDE DEF Good
<1>4. ASSUME NEW n \in Nat, n \in S PROVE n + 1 \in S
  <2>1. SUFFICES ASSUME n + 1 <= N PROVE Good(n + 1)
    OBVIOUS
  <2>2. Good(n)
    BY <1>1, <1>4, <2>1
  <2>3. n + 1 \in 1..N /\ (n + 1) - 1 = n
    BY <1>1, <2>1
  <2>4. w[n + 1] = HourLine(w[n], files[f][n + 1])
    BY <1>2, <2>3 DEF IsHourWalk
  <2>5. files[f][n + 1] \in AnyLine
    BY <1>1, <2>3
  <2> QED BY <2>2, <2>4, <2>5, HourOneMore DEF Good
<1>5. Good(N)
  <2>1. Nat \subseteq S
    <3> HIDE DEF S
    <3> QED BY <1>3, <1>4, NumbersByInduction
  <2> QED BY <1>1, <2>1
<1>6. walk = w[N]
  BY <1>2 DEF IsHourWalk
<1>7. walk \in HourState /\ (walk.cut = TRUE <=> ~whole)
  BY <1>5, <1>6 DEF Good, IsWhole
<1>8. whole <=> walk.cut = FALSE
  BY <1>7 DEF HourState
<1>9. Charged(files, P \cup ReadIn(files, f, N), HourLines(files, h), walk.seen,
              WithFile(whole, c, walk.buckets[h]))
  BY <1>5, <1>6 DEF Good
<1>10. WithFile(whole, c, walk.buckets[h]) = WithFile(walk.cut = FALSE, c, walk.buckets[h])
  BY <1>8 DEF WithFile
<1> QED BY <1>7, <1>9, <1>10

LEMMA HourlyOfFileType ==
  ASSUME NEW total \in Burnt, NEW log \in Seq(AnyLine)
  PROVE  /\ HourlyOfFile(total, log) \in Burnt
         /\ ~InWindow(log) => HourlyOfFile(total, log) = total
         /\ InWindow(log) =>
              /\ HourlyOfFile(total, log).seen = HoursOf(log, total.seen).seen
              /\ \A h \in 0..Hours-1 :
                    HourlyOfFile(total, log).buckets[h]
                      = WithFile(HoursOf(log, total.seen).cut = FALSE, total.buckets[h],
                                 HoursOf(log, total.seen).buckets[h])
<1>1. total.seen \in SUBSET Nat /\ total.buckets \in Buckets
  BY DEF Burnt
<1> DEFINE walk == HoursOf(log, total.seen)
<1>2. walk \in HourState
  <2>1. PICK w : IsHourWalk(w, log, total.seen)
    BY <1>1, HourWalkSteps
  <2>2. Len(log) \in 0..Len(log)
    OBVIOUS
  <2> QED BY <2>1, <2>2 DEF IsHourWalk
<1> DEFINE both == [h \in 0..Hours-1 |-> total.buckets[h] \o walk.buckets[h]]
           buckets == IF walk.cut THEN total.buckets ELSE both
<1>3. ~InWindow(log) => HourlyOfFile(total, log) = total
  BY DEF HourlyOfFile
<1>4. InWindow(log) => HourlyOfFile(total, log) = [seen |-> walk.seen, buckets |-> buckets]
  BY DEF HourlyOfFile
<1> HIDE DEF walk
<1>5. walk.seen \in SUBSET Nat /\ walk.buckets \in Buckets /\ (walk.cut = TRUE \/ walk.cut = FALSE)
  BY <1>2 DEF HourState
<1>6. both \in Buckets
  <2> SUFFICES ASSUME NEW h \in 0..Hours-1 PROVE total.buckets[h] \o walk.buckets[h] \in Seq(Turn)
    BY DEF Buckets
  <2>1. total.buckets[h] \in Seq(Turn) /\ walk.buckets[h] \in Seq(Turn)
    BY <1>1, <1>5 DEF Buckets
  <2> QED BY <2>1
<1>7. \A h \in 0..Hours-1 : buckets[h] = WithFile(walk.cut = FALSE, total.buckets[h], walk.buckets[h])
  BY <1>5 DEF WithFile
<1>8. buckets \in Buckets
  BY <1>1, <1>5, <1>6
<1> HIDE DEF buckets, both
<1>9. [seen |-> walk.seen, buckets |-> buckets] \in Burnt
  BY <1>5, <1>8 DEF Burnt
<1>10. InWindow(log) => /\ HourlyOfFile(total, log).seen = walk.seen
                        /\ HourlyOfFile(total, log).buckets = buckets
  BY <1>4
<1> QED BY <1>3, <1>4, <1>7, <1>9, <1>10 DEF walk

NoHours == [seen |-> {}, buckets |-> NoBurn]

\* t[n] is what the first n files put into the hours.
IsBurning(t, files) ==
    /\ t \in [0..Len(files) -> Burnt]
    /\ t[0] = NoHours
    /\ \A n \in 1..Len(files) : t[n] = HourlyOfFile(t[n - 1], files[n])

LEMMA HourlySteps ==
  ASSUME NEW files \in Seq(Seq(AnyLine))
  PROVE  \E t : IsBurning(t, files) /\ Hourly(files) = t[Len(files)]
<1> DEFINE N == Len(files)
           A == Burnt
           base == NoHours
           step == [n \in 1..N |-> [x \in A |-> HourlyOfFile(x, files[n])]]
           Walk(w) == [s \in SUBSET (DOMAIN files) |->
                         IF s = {} THEN base ELSE HourlyOfFile(w[s \ {Max(s)}], files[Max(s)])]
           walk == CHOOSE w : w = Walk(w)
<1>1. N \in Nat /\ DOMAIN files = 1..N /\ \A n \in 1..N : files[n] \in Seq(AnyLine)
  OBVIOUS
<1>2. step \in [1..N -> [A -> A]] /\ base \in A
  <2>1. \A n \in 1..N : \A x \in A : HourlyOfFile(x, files[n]) \in A
    BY <1>1, HourlyOfFileType
  <2>2. base \in A
    BY HourStartFacts DEF NoHours, Burnt
  <2> HIDE DEF A, N, base
  <2> QED BY <2>1, <2>2
<1>3. Hourly(files) = walk[DOMAIN files]
  BY Zenon DEF Hourly, FoldLeft, MapThenFoldSet, NoHours
<1> HIDE DEF A, base
<1>4. PICK g \in [SUBSET (1..N) -> A] : IsFoldFunction(g, N, base, step)
  <2>1. N \in Nat
    BY <1>1
  <2> HIDE DEF step, N, Walk, walk
  <2> QED BY <2>1, <1>2, FoldFunctionExists
<1>5. \A s \in SUBSET (1..N) : g[s] = IF s = {} THEN base ELSE HourlyOfFile(g[s \ {Max(s)}], files[Max(s)])
  <2>1. \A s \in SUBSET (1..N) : s # {} => Max(s) \in 1..N /\ s \ {Max(s)} \in SUBSET (1..N)
    BY <1>1, MaxIsMember
  <2> QED BY <1>4, <2>1 DEF IsFoldFunction
<1>6. g = Walk(g)
  <2> HIDE DEF N
  <2> QED BY <1>5, <1>1
<1>7. walk = Walk(walk)
  <2> HIDE DEF Walk
  <2> QED BY <1>6, Zenon
<1> HIDE DEF walk
<1>8. walk[{}] = base
  BY <1>7
<1>9. \A n \in 1..N : walk[1..n] = HourlyOfFile(walk[1..(n-1)], files[n])
  <2> SUFFICES ASSUME NEW n \in 1..N PROVE walk[1..n] = HourlyOfFile(walk[1..(n-1)], files[n])
    OBVIOUS
  <2>1. 1..n # {} /\ Max(1..n) = n /\ (1..n) \ {n} = 1..(n-1)
    BY <1>1, IntervalSteps
  <2>2. 1..n \in SUBSET (DOMAIN files)
    BY <1>1
  <2>3. walk[1..n] = IF 1..n = {} THEN base ELSE HourlyOfFile(walk[(1..n) \ {Max(1..n)}], files[Max(1..n)])
    BY <1>7, <2>2
  <2> QED BY <2>1, <2>3
<1>10. \A n \in 1..N : \A x \in A : step[n][x] = HourlyOfFile(x, files[n])
  OBVIOUS
<1>11. GoesOn(walk, N, A, base, step)
  BY <1>8, <1>9, <1>10 DEF GoesOn
<1>12. PICK f : IsRun(f, N, A, base, step) /\ f[N] = walk[1..N]
  <2>1. N \in Nat
    BY <1>1
  <2>2. step \in [1..N -> [A -> A]] /\ base \in A /\ GoesOn(walk, N, A, base, step)
    BY <1>2, <1>11
  <2> HIDE DEF step, N, Walk
  <2>3. RunsLike(walk, N, A, base, step)
    BY <2>1, <2>2, RunAlong
  <2> QED BY <2>3 DEF RunsLike
<1>13. \A n \in 1..N : n - 1 \in 0..N
  BY <1>1
<1>14. IsBurning(f, files)
  BY <1>1, <1>10, <1>12, <1>13 DEF IsBurning, IsRun, A, base
<1>15. Hourly(files) = f[N]
  BY <1>1, <1>3, <1>12
<1> QED BY <1>14, <1>15

LEMMA HourlyCharges ==
  ASSUME NEW files \in Seq(Seq(AnyLine)), NEW h \in 0..Hours-1
  PROVE  Charged(files, Done(files, Len(files)), HourLines(files, h), Hourly(files).seen, Bucket(files, h))
<1> DEFINE N == Len(files)
           K == HourLines(files, h)
<1>1. N \in Nat /\ \A n \in 1..N : files[n] \in Seq(AnyLine)
  OBVIOUS
<1>2. PICK t : IsBurning(t, files) /\ Hourly(files) = t[N]
  BY HourlySteps
<1> DEFINE Good(n) == Charged(files, Done(files, n), K, t[n].seen, t[n].buckets[h])
           S == {n \in Nat : n <= N => Good(n)}
<1>3. 0 \in S
  <2>1. t[0].seen = {} /\ t[0].buckets = NoBurn
    BY <1>2 DEF IsBurning, NoHours
  <2>2. NoBurn[h] = <<>>
    BY DEF NoBurn
  <2>3. 1..0 = {}
    OBVIOUS
  <2>4. Done(files, 0) = {}
    BY <2>3 DEF Done
  <2> HIDE DEF K
  <2> QED BY <2>1, <2>2, <2>4, NothingCharged
<1> HIDE DEF Good, K
<1>4. ASSUME NEW n \in Nat, n \in S PROVE n + 1 \in S
  <2>1. SUFFICES ASSUME n + 1 <= N PROVE Good(n + 1)
    OBVIOUS
  <2> DEFINE P == Done(files, n)
             log == files[n + 1]
             total == t[n]
             read == ReadIn(files, n + 1, Len(log))
  <2>2. n + 1 \in 1..N /\ (n + 1) - 1 = n /\ n \in 0..N
    BY <1>1, <2>1
  <2>3. Charged(files, P, K, total.seen, total.buckets[h])
    BY <1>1, <1>4, <2>1 DEF Good
  <2>4. t[n + 1] = HourlyOfFile(total, log) /\ total \in Burnt /\ log \in Seq(AnyLine)
    BY <1>1, <1>2, <2>2 DEF IsBurning
  <2>5. total.seen \in SUBSET Nat /\ total.buckets[h] \in Seq(Turn)
    BY <2>4 DEF Burnt, Buckets
  <2>6. 1..(n+1) = (1..n) \cup {n + 1}
    OBVIOUS
  <2>7. Done(files, n + 1) = P \cup read
    BY <2>6 DEF Done
  <2>8. \A y \in P : y[1] < n + 1
    BY DEF Done, ReadIn
  <2> HIDE DEF P, total
  <2>9. CASE ~InWindow(log)
    <3>1. t[n + 1] = total
      BY <2>4, <2>9, HourlyOfFileType
    <3>2. read = {}
      <4>1. DOMAIN log = 1..Len(log)
        BY <2>4
      <4>2. \A i \in 1..Len(log) : ~(IsStamped(log[i]) /\ log[i].at >= Earliest)
        BY <2>9, <4>1 DEF InWindow
      <4> QED BY <4>2 DEF ReadIn
    <3>3. Done(files, n + 1) = P
      BY <2>7, <3>2
    <3> QED BY <2>3, <3>1, <3>3 DEF Good
  <2>10. CASE InWindow(log)
    <3> DEFINE walk == HoursOf(log, total.seen)
    <3>1. Charged(files, P \cup read, K, walk.seen, WithFile(walk.cut = FALSE, total.buckets[h], walk.buckets[h]))
      <4>1. n + 1 \in Nat
        OBVIOUS
      <4>2. Charged(files, P, HourLines(files, h), total.seen, total.buckets[h])
        BY <2>3 DEF K
      <4>3. Charged(files, P \cup read, HourLines(files, h), walk.seen,
                    WithFile(walk.cut = FALSE, total.buckets[h], walk.buckets[h]))
        BY <2>4, <2>5, <2>8, <4>1, <4>2, HourFileCharges
      <4> QED BY <4>3 DEF K
    <3>2. /\ t[n + 1].seen = walk.seen
          /\ t[n + 1].buckets[h] = WithFile(walk.cut = FALSE, total.buckets[h], walk.buckets[h])
      <4> DEFINE new == HourlyOfFile(total, log)
      <4>1. /\ new.seen = walk.seen
            /\ \A k \in 0..Hours-1 :
                  new.buckets[k] = WithFile(walk.cut = FALSE, total.buckets[k], walk.buckets[k])
        BY <2>4, <2>10, HourlyOfFileType, Zenon
      <4> HIDE DEF new, walk
      <4>2. new.buckets[h] = WithFile(walk.cut = FALSE, total.buckets[h], walk.buckets[h])
        BY <4>1
      <4> QED BY <2>4, <4>1, <4>2 DEF new
    <3> HIDE DEF walk
    <3> QED BY <2>7, <3>1, <3>2 DEF Good
  <2> QED BY <2>9, <2>10
<1>5. Good(N)
  <2>1. Nat \subseteq S
    <3> HIDE DEF S
    <3> QED BY <1>3, <1>4, NumbersByInduction
  <2> QED BY <1>1, <2>1
<1> QED BY <1>2, <1>5 DEF Good, K, Bucket

\* The number of whole lengths d in a.
LEMMA WholeLengths ==
  ASSUME NEW a \in Nat, NEW d \in Nat \ {0}, NEW h \in Nat
  PROVE  a \div d = h <=> h * d <= a /\ a < (h + 1) * d
<1> DEFINE q == a \div d
<1>1. q \in Nat /\ a % d \in 0..d-1 /\ a = q * d + (a % d)
  BY SMTT(30)
<1>2. PICK r \in 0..d-1 : a = q * d + r
  BY <1>1
<1>3. q \in Nat
  BY <1>1
<1> HIDE DEF q
<1>4. q = h => (h * d <= a /\ a < (h + 1) * d)
  BY <1>2, <1>3, SMTT(30)
<1>5. ASSUME h * d <= a, a < (h + 1) * d PROVE q = h
  <2>1. q < h => (q + 1) * d <= h * d
    BY <1>3, SMTT(30)
  <2>2. q > h => (h + 1) * d <= q * d
    BY <1>3, SMTT(30)
  <2>3. (q + 1) * d = q * d + d
    BY <1>3, SMTT(30)
  <2> QED BY <1>2, <1>3, <1>5, <2>1, <2>2, <2>3, SMTT(30)
<1> QED BY <1>4, <1>5 DEF q

\* The hour of a time, in the window, is the one that holds it.
LEMMA HourHolds ==
  ASSUME NEW at \in Nat, at >= Earliest, NEW h \in Nat
  PROVE  HourOf(at) = h
           <=> Earliest + h * HourLength <= at /\ at < Earliest + (h + 1) * HourLength
<1>1. Earliest \in Nat /\ HourLength \in Nat \ {0}
  BY InputAssumption
<1> DEFINE a == at - Earliest
           from == h * HourLength
           to == (h + 1) * HourLength
<1>2. a \in Nat /\ from \in Nat /\ to \in Nat
  BY <1>1, SMTT(30)
<1>3. a \div HourLength = h <=> from <= a /\ a < to
  <2> HIDE DEF a
  <2> QED BY <1>1, <1>2, WholeLengths
<1>4. HourOf(at) = a \div HourLength
  BY DEF HourOf
<1> HIDE DEF from, to
<1>5. from <= a /\ a < to <=> Earliest + from <= at /\ at < Earliest + to
  BY <1>1, <1>2
<1> QED BY <1>3, <1>4, <1>5 DEF from, to

LEMMA HourlyFills ==
  ASSUME NEW files \in Seq(Seq(AnyLine))
  PROVE  FillsHours(files)
<1> SUFFICES ASSUME NEW h \in 0..Hours-1
             PROVE  PaysFor(files, FirstOfHour(files, h), Bucket(files, h))
  BY DEF FillsHours
<1>1. FirstIn(files, Readable(files)) = FirstCopies(files)
  BY DEF FirstIn, FirstCopies
<1>2. PaidFor(files, FirstIn(files, Readable(files)) \cap HourLines(files, h), Bucket(files, h))
      /\ Readable(files) \subseteq AllLines
  BY HourlyCharges, DoneIsReadable DEF Charged, AllLines
<1>3. h \in Nat
  OBVIOUS
<1>4. ASSUME NEW at \in FirstCopies(files)
      PROVE  at \in HourLines(files, h) <=> at \in FirstOfHour(files, h)
  <2>1. at \in Readable(files) /\ at \in AllLines
    BY <1>2 DEF FirstCopies
  <2>2. PICK f \in DOMAIN files : at \in {f} \X {i \in DOMAIN files[f] :
                     /\ IsStamped(files[f][i]) /\ files[f][i].at >= Earliest
                     /\ \A j \in 1..i : files[f][j].kind # "cut"}
    BY <2>1 DEF Readable
  <2>3. at[1] = f /\ at[2] \in DOMAIN files[f] /\ IsStamped(files[f][at[2]]) /\ files[f][at[2]].at >= Earliest
    BY <2>2
  <2> DEFINE line == files[f][at[2]]
  <2>4. LineAt(files, at) = line /\ files[f] \in Seq(AnyLine)
    BY <2>3 DEF LineAt
  <2>5. line \in AnyLine /\ DOMAIN files[f] = 1..Len(files[f])
    BY <2>3, <2>4
  <2>6. line.kind = "turn" /\ line.at >= Earliest
    BY <2>3 DEF IsStamped
  <2>7. line.at \in Nat
    BY <2>5, <2>6, LineFacts
  <2> HIDE DEF line
  <2>8. HourOf(line.at) = h
          <=> Earliest + h * HourLength <= line.at /\ line.at < Earliest + (h + 1) * HourLength
    BY <1>3, <2>6, <2>7, HourHolds
  <2>9. IsWhole(files[at[1]]) <=> \A i \in DOMAIN files[at[1]] : files[at[1]][i].kind # "cut"
    BY <2>3, <2>5 DEF IsWhole
  <2> QED BY <2>1, <2>4, <2>8, <2>9 DEF HourLines, FirstOfHour
<1>5. FirstOfHour(files, h) \subseteq FirstCopies(files)
  BY DEF FirstOfHour
<1>6. FirstCopies(files) \cap HourLines(files, h) = FirstOfHour(files, h)
  BY <1>4, <1>5
<1>7. PaidFor(files, FirstOfHour(files, h), Bucket(files, h))
  BY <1>1, <1>2, <1>6
<1> QED BY <1>7, PaidForPays

TurnOfFile == [file : 1..FileCount, line : TurnLines]

LEMMA TranscriptsType ==
  ASSUME input \in Seq(TurnOfFile)
  PROVE  Transcripts \in [1..FileCount -> Seq(TurnLines)]
<1> DEFINE N == Len(input)
           A == [1..FileCount -> Seq(TurnLines)]
           base == [f \in 1..FileCount |-> <<>>]
           Put(x, n) == [x EXCEPT ![input[n].file] = Append(@, input[n].line)]
           step == [n \in 1..N |-> [x \in A |-> Put(x, n)]]
           Filled(T) == [n \in 0..N |-> IF n = 0 THEN base ELSE Put(T[n - 1], n)]
           T0 == CHOOSE T : T = Filled(T)
<1>1. N \in Nat /\ \A n \in 1..N : input[n] \in TurnOfFile
  OBVIOUS
<1>2. base \in A
  OBVIOUS
<1>3. \A n \in 1..N : \A x \in A : Put(x, n) \in A
  <2> SUFFICES ASSUME NEW n \in 1..N, NEW x \in A PROVE Put(x, n) \in A
    OBVIOUS
  <2>1. input[n].file \in 1..FileCount /\ input[n].line \in TurnLines
    BY <1>1 DEF TurnOfFile
  <2>2. x[input[n].file] \in Seq(TurnLines)
    BY <2>1
  <2>3. Append(x[input[n].file], input[n].line) \in Seq(TurnLines)
    BY <2>1, <2>2
  <2> QED BY <2>3
<1> HIDE DEF base, A, Put
<1>4. step \in [1..N -> [A -> A]]
  <2> HIDE DEF N
  <2> QED BY <1>3
<1>5. PICK g \in [SUBSET (1..N) -> A] : IsFoldFunction(g, N, base, step)
  <2>1. N \in Nat
    BY <1>1
  <2> HIDE DEF step, N, T0, Filled
  <2> QED BY <2>1, <1>2, <1>4, FoldFunctionExists
<1> DEFINE t == [n \in 0..N |-> g[1..n]]
<1>6. \A n \in 0..N : t[n] \in A
  BY <1>1, <1>5
<1>7. t[0] = base
  <2>1. 1..0 = {} /\ 1..0 \in SUBSET (1..N) /\ 0 \in 0..N
    BY <1>1
  <2>2. g[1..0] = base
    BY <1>5, <2>1 DEF IsFoldFunction
  <2> QED BY <2>1, <2>2
<1>8. ASSUME NEW n \in 1..N PROVE t[n] = Put(t[n - 1], n)
  <2>1. 1..n # {} /\ Max(1..n) = n /\ (1..n) \ {n} = 1..(n-1)
    BY <1>1, IntervalSteps
  <2>2. 1..n \in SUBSET (1..N) /\ n \in 0..N /\ n - 1 \in 0..N
    BY <1>1
  <2>3. g[1..n] = step[n][g[1..(n-1)]]
    <3> HIDE DEF step, N
    <3> QED BY <1>5, <2>1, <2>2 DEF IsFoldFunction
  <2>4. t[n] = g[1..n] /\ t[n - 1] = g[1..(n-1)] /\ t[n - 1] \in A
    BY <1>6, <2>2
  <2> HIDE DEF t
  <2> QED BY <2>3, <2>4
<1>9. t = Filled(t)
  <2>1. \A n \in 0..N : n # 0 => n \in 1..N
    BY <1>1
  <2>2. t = [n \in 0..N |-> t[n]]
    OBVIOUS
  <2> HIDE DEF t, N
  <2>3. \A n \in 0..N : t[n] = IF n = 0 THEN base ELSE Put(t[n - 1], n)
    BY <1>7, <1>8, <2>1
  <2> QED BY <2>2, <2>3
<1>10. T0 = Filled(T0)
  <2> HIDE DEF Filled, t
  <2> QED BY <1>9, Zenon
<1>11. Transcripts = T0[N]
  BY Zenon DEF Transcripts, Put, base
<1> HIDE DEF T0
<1> DEFINE S == {n \in Nat : n <= N => T0[n] \in A}
<1>12. 0 \in S
  <2>1. 0 \in 0..N
    BY <1>1
  <2>2. T0[0] = base
    BY <1>10, <2>1
  <2> QED BY <1>2, <2>2
<1>13. ASSUME NEW n \in Nat, n \in S PROVE n + 1 \in S
  <2>1. SUFFICES ASSUME n + 1 <= N PROVE T0[n + 1] \in A
    OBVIOUS
  <2>2. n + 1 \in 1..N /\ n + 1 \in 0..N /\ n + 1 # 0 /\ (n + 1) - 1 = n /\ T0[n] \in A
    BY <1>1, <1>13, <2>1
  <2>3. T0[n + 1] = Put(T0[n], n + 1)
    BY <1>10, <2>2
  <2> QED BY <1>3, <2>2, <2>3
<1>14. T0[N] \in A
  <2>1. Nat \subseteq S
    <3> HIDE DEF S
    <3> QED BY <1>12, <1>13, NumbersByInduction
  <2> QED BY <1>1, <2>1
<1> QED BY <1>11, <1>14 DEF A

TurnsTyped == algorithm = "pace" => input \in Seq(TurnOfFile)

LEMMA TurnsAreTyped ==
  /\ NoInput => TurnsTyped
  /\ TurnsTyped /\ [NextInput]_inputVars => TurnsTyped'
<1>1. NoInput => TurnsTyped
  <2>1. <<>> \in Seq(TurnOfFile)
    OBVIOUS
  <2> QED BY <2>1 DEF NoInput, TurnsTyped
<1>2. ASSUME TurnsTyped, [NextInput]_inputVars PROVE TurnsTyped'
  <2>1. CASE NextTurn
    <3>1. PICK log \in 1..FileCount, line \in TurnLines :
             algorithm = "pace" /\ input' = Append(input, [file |-> log, line |-> line])
      BY <2>1 DEF NextTurn, Grow
    <3>2. [file |-> log, line |-> line] \in TurnOfFile
      BY DEF TurnOfFile
    <3>3. input \in Seq(TurnOfFile)
      BY <1>2, <3>1 DEF TurnsTyped
    <3>4. Append(input, [file |-> log, line |-> line]) \in Seq(TurnOfFile)
      BY <3>2, <3>3
    <3> QED BY <3>1, <3>4 DEF TurnsTyped
  <2>2. CASE NextObservation \/ NextLine \/ NextHook
    <3>1. algorithm # "pace" /\ algorithm' = algorithm
      BY <2>2 DEF NextObservation, NextLine, NextHook, Grow
    <3> QED BY <3>1 DEF TurnsTyped
  <2>3. CASE UNCHANGED inputVars
    BY <1>2, <2>3 DEF TurnsTyped, inputVars
  <2> QED BY <1>2, <2>1, <2>2, <2>3 DEF NextInput
<1> QED BY <1>1, <1>2

LEMMA TranscriptsFacts ==
  ASSUME algorithm = "pace", TurnsTyped
  PROVE  Transcripts \in Seq(Seq(AnyLine))
<1>1. Transcripts \in [1..FileCount -> Seq(TurnLines)]
  BY TranscriptsType DEF TurnsTyped
<1> DEFINE files == Transcripts
<1> HIDE DEF files
<1>2. FileCount \in Nat /\ TurnLines \subseteq AnyLine
  BY InputAssumption DEF AnyLine
<1>3. files \in [1..FileCount -> Seq(TurnLines)]
  BY <1>1 DEF files
<1>4. Seq(TurnLines) \subseteq Seq(AnyLine)
  BY <1>2
<1>5. files \in [1..FileCount -> Seq(AnyLine)]
  BY <1>3, <1>4
<1>6. files \in Seq(Seq(AnyLine))
  BY <1>2, <1>5
<1> QED BY <1>6 DEF files

\* However many transcripts a session has, and however they copy each other's
\* messages, _sum_window_spend pays for each message once, for the first of its
\* copies that counts.
THEOREM TurnsAreChargedOnce == Inputs => []EachTurnIsChargedOnce
<1>1. TurnsTyped => EachTurnIsChargedOnce
  <2> SUFFICES ASSUME TurnsTyped, algorithm = "pace" PROVE ChargesOnce(Transcripts)
    BY DEF EachTurnIsChargedOnce
  <2>1. Transcripts \in Seq(Seq(AnyLine))
    BY TranscriptsFacts
  <2> QED BY <2>1, SpendChargesOnce
<1> QED BY <1>1, TurnsAreTyped, PTL DEF Inputs

\* However many they are, _walk_session_hourly puts into each hour of the window
\* the turns stamped in it, each message once: those of the copies that
\* _sum_window_spend pays for, but for the transcripts that fail to be read.
THEOREM HoursHoldTheirTurns == Inputs => []HoursAreFilled
<1>1. TurnsTyped => HoursAreFilled
  <2> SUFFICES ASSUME TurnsTyped, algorithm = "pace" PROVE FillsHours(Transcripts)
    BY DEF HoursAreFilled
  <2>1. Transcripts \in Seq(Seq(AnyLine))
    BY TranscriptsFacts
  <2> QED BY <2>1, HourlyFills
<1> QED BY <1>1, TurnsAreTyped, PTL DEF Inputs

-----------------------------------------------------------------------------
(* Sequences made of the elements of others.                               *)

\* Some numbers have a least.
LEMMA LeastNumber ==
  ASSUME NEW S \in SUBSET Nat, S # {}
  PROVE  \E x \in S : \A y \in S : x <= y
<1> DEFINE R == OpToRel(<, Nat)
<1>1. IsWellFoundedOn(R, Nat)
  BY NatLessThanWellFounded, Zenon
<1>2. PICK x \in S : \A y \in S : ~ (<<y, x>> \in R)
  <2> HIDE DEF R
  <2> QED BY <1>1, WFMin, Zenon
<1>3. \A y \in S : ~(y < x)
  BY <1>2 DEF OpToRel
<1> QED BY <1>3

\* Flattening two sequences one after the other.
LEMMA FlattenConcat ==
  ASSUME NEW L, NEW ss \in Seq(Seq(L)), NEW tt \in Seq(Seq(L))
  PROVE  FlattenSeq(ss \o tt) = FlattenSeq(ss) \o FlattenSeq(tt)
<1> DEFINE M == Len(ss)
           N == Len(tt)
           both == ss \o tt
<1>1. M \in Nat /\ N \in Nat /\ both \in Seq(Seq(L)) /\ Len(both) = M + N
  OBVIOUS
<1>2. PICK f : f \in [0..Len(both) -> Seq(L)] /\ IsFlatOf(f, both)
  BY <1>1, FlattenSteps
<1>3. PICK g : g \in [0..Len(ss) -> Seq(L)] /\ IsFlatOf(g, ss)
  BY FlattenSteps
<1>4. PICK h : h \in [0..Len(tt) -> Seq(L)] /\ IsFlatOf(h, tt)
  BY FlattenSteps
<1>5. /\ \A n \in 1..M : n \in 1..Len(both) /\ both[n] = ss[n]
      /\ \A n \in 1..N : M + n \in 1..Len(both) /\ both[M + n] = tt[n]
  BY <1>1
<1> HIDE DEF both
<1> DEFINE S == {n \in Nat : n <= M => f[n] = g[n]}
           Good(n) == f[M + n] = g[M] \o h[n]
           T == {n \in Nat : n <= N => Good(n)}
<1>6. 0 \in S
  BY <1>2, <1>3 DEF IsFlatOf
<1>7. ASSUME NEW n \in Nat, n \in S PROVE n + 1 \in S
  <2>1. SUFFICES ASSUME n + 1 <= M PROVE f[n + 1] = g[n + 1]
    OBVIOUS
  <2>2. n + 1 \in 1..M /\ (n + 1) - 1 = n /\ f[n] = g[n]
    BY <1>1, <1>7, <2>1
  <2>3. f[n + 1] = f[n] \o both[n + 1] /\ both[n + 1] = ss[n + 1]
    BY <1>2, <1>5, <2>2 DEF IsFlatOf
  <2>4. g[n + 1] = g[n] \o ss[n + 1]
    BY <1>3, <2>2 DEF IsFlatOf
  <2> QED BY <2>2, <2>3, <2>4
<1>8. f[M] = g[M]
  <2>1. Nat \subseteq S
    <3> HIDE DEF S
    <3> QED BY <1>6, <1>7, NumbersByInduction
  <2> QED BY <1>1, <2>1
<1>9. g[M] \in Seq(L) /\ \A n \in 0..N : h[n] \in Seq(L)
  <2>1. M \in 0..M
    BY <1>1
  <2>2. g[M] \in Seq(L)
    BY <1>3, <2>1
  <2>3. \A n \in 0..N : h[n] \in Seq(L)
    BY <1>4
  <2> QED BY <2>2, <2>3
<1> HIDE DEF Good
<1>10. 0 \in T
  <2>1. h[0] = <<>> /\ M + 0 = M
    BY <1>1, <1>4 DEF IsFlatOf
  <2>2. g[M] \o <<>> = g[M]
    BY <1>9, ConcatEmptySeq
  <2> QED BY <1>8, <2>1, <2>2 DEF Good
<1>11. ASSUME NEW n \in Nat, n \in T PROVE n + 1 \in T
  <2>1. SUFFICES ASSUME n + 1 <= N PROVE Good(n + 1)
    OBVIOUS
  <2>2. n + 1 \in 1..N /\ (n + 1) - 1 = n /\ n \in 0..N /\ Good(n)
    BY <1>1, <1>11, <2>1
  <2>3. (M + (n + 1)) - 1 = M + n /\ M + (n + 1) \in 1..Len(both) /\ both[M + (n + 1)] = tt[n + 1]
    BY <1>1, <1>5, <2>2
  <2>4. f[M + (n + 1)] = f[M + n] \o tt[n + 1]
    BY <1>2, <2>3 DEF IsFlatOf
  <2>5. h[n + 1] = h[n] \o tt[n + 1]
    BY <1>4, <2>2 DEF IsFlatOf
  <2>6. h[n] \in Seq(L) /\ tt[n + 1] \in Seq(L) /\ g[M] \in Seq(L)
    BY <1>9, <2>2
  <2>7. (g[M] \o h[n]) \o tt[n + 1] = g[M] \o (h[n] \o tt[n + 1])
    <3> DEFINE x == g[M]
               y == h[n]
               z == tt[n + 1]
    <3>1. x \in Seq(L) /\ y \in Seq(L) /\ z \in Seq(L)
      BY <2>6
    <3> HIDE DEF x, y, z
    <3>2. (x \o y) \o z = x \o (y \o z)
      BY <3>1, ConcatAssociative
    <3> QED BY <3>2 DEF x, y, z
  <2>8. f[M + (n + 1)] = (g[M] \o h[n]) \o tt[n + 1]
    BY <2>2, <2>4 DEF Good
  <2> QED BY <2>5, <2>7, <2>8 DEF Good
<1>12. f[M + N] = g[M] \o h[N]
  <2>1. Nat \subseteq T
    <3> HIDE DEF T
    <3> QED BY <1>10, <1>11, NumbersByInduction
  <2>2. Good(N)
    BY <1>1, <2>1
  <2> QED BY <2>2 DEF Good
<1>13. FlattenSeq(both) = f[Len(both)] /\ FlattenSeq(ss) = g[M] /\ FlattenSeq(tt) = h[N]
  BY <1>2, <1>3, <1>4 DEF IsFlatOf
<1> QED BY <1>1, <1>12, <1>13 DEF both

LEMMA FlattenEmpty == FlattenSeq(<<>>) = <<>>
BY DEF FlattenSeq

LEMMA FlattenOne ==
  ASSUME NEW L, NEW s \in Seq(L)
  PROVE  FlattenSeq(<<s>>) = s
<1> DEFINE ss == <<s>>
<1>1. ss \in Seq(Seq(L)) /\ Len(ss) = 1 /\ ss[1] = s
  OBVIOUS
<1> HIDE DEF ss
<1>2. PICK f : f \in [0..Len(ss) -> Seq(L)] /\ IsFlatOf(f, ss)
  BY <1>1, FlattenSteps
<1>3. f[1] = f[0] \o ss[1] /\ f[0] = <<>> /\ FlattenSeq(ss) = f[1]
  <2>1. 1 \in 1..Len(ss) /\ 1 - 1 = 0
    BY <1>1
  <2> QED BY <1>1, <1>2, <2>1 DEF IsFlatOf
<1>4. <<>> \o s = s
  BY ConcatEmptySeq
<1> QED BY <1>1, <1>3, <1>4 DEF ss

\* What an element of s is replaced by, F says.
FlatMap(F, s) == FlattenSeq([i \in 1..Len(s) |-> F[s[i]]])

LEMMA FlatMapType ==
  ASSUME NEW L, NEW M, NEW F \in [L -> Seq(M)], NEW s \in Seq(L)
  PROVE  FlatMap(F, s) \in Seq(M) /\ [i \in 1..Len(s) |-> F[s[i]]] \in Seq(Seq(M))
<1>1. [i \in 1..Len(s) |-> F[s[i]]] \in Seq(Seq(M))
  OBVIOUS
<1> QED BY <1>1, FlattenHolds DEF FlatMap

LEMMA FlatMapEmpty ==
  ASSUME NEW F
  PROVE  FlatMap(F, <<>>) = <<>>
<1>1. [i \in 1..Len(<<>>) |-> F[<<>>[i]]] = <<>>
  OBVIOUS
<1> HIDE DEF FlatMap
<1> QED BY <1>1, FlattenEmpty DEF FlatMap

LEMMA FlatMapOne ==
  ASSUME NEW L, NEW M, NEW F \in [L -> Seq(M)], NEW x \in L
  PROVE  FlatMap(F, <<x>>) = F[x]
<1>1. [i \in 1..Len(<<x>>) |-> F[<<x>>[i]]] = <<F[x]>>
  <2>1. Len(<<x>>) = 1 /\ 1..1 = {1} /\ <<x>>[1] = x
    OBVIOUS
  <2> QED BY <2>1
<1>2. F[x] \in Seq(M)
  OBVIOUS
<1> QED BY <1>1, <1>2, FlattenOne DEF FlatMap

\* To replace in two sequences, one after the other, is to replace in both.
MapsTo(F, L, M) == F \in [L -> Seq(M)]

LEMMA FlatMapConcat ==
  ASSUME NEW L, NEW M, NEW F, MapsTo(F, L, M), NEW s \in Seq(L), NEW t \in Seq(L)
  PROVE  FlatMap(F, s \o t) = FlatMap(F, s) \o FlatMap(F, t)
<1>0. F \in [L -> Seq(M)]
  BY DEF MapsTo
<1> DEFINE a == [i \in 1..Len(s) |-> F[s[i]]]
           b == [i \in 1..Len(t) |-> F[t[i]]]
           c == [i \in 1..Len(s \o t) |-> F[(s \o t)[i]]]
<1>1. a \in Seq(Seq(M)) /\ b \in Seq(Seq(M))
  BY <1>0, FlatMapType
<1>2. c = a \o b
  OBVIOUS
<1>3. FlattenSeq(a \o b) = FlattenSeq(a) \o FlattenSeq(b)
  <2> HIDE DEF a, b
  <2> QED BY <1>1, FlattenConcat
<1> HIDE DEF a, b, c
<1>4. FlattenSeq(c) = FlattenSeq(a) \o FlattenSeq(b)
  BY <1>2, <1>3
<1> QED BY <1>4 DEF FlatMap, a, b, c

\* To replace in what has been made of parts is to replace in each part.
LEMMA FlatMapOfParts ==
  ASSUME NEW L, NEW M, NEW F \in [L -> Seq(M)], NEW ss \in Seq(Seq(L))
  PROVE  FlatMap(F, FlattenSeq(ss)) = FlattenSeq([i \in 1..Len(ss) |-> FlatMap(F, ss[i])])
<1>0. \A t, u \in Seq(L) : FlatMap(F, t \o u) = FlatMap(F, t) \o FlatMap(F, u)
  BY FlatMapConcat DEF MapsTo
<1> DEFINE N == Len(ss)
           tt == [i \in 1..N |-> FlatMap(F, ss[i])]
<1>1. N \in Nat /\ \A i \in 1..N : ss[i] \in Seq(L)
  OBVIOUS
<1>2. \A i \in 1..N : FlatMap(F, ss[i]) \in Seq(M)
  <2> HIDE DEF N
  <2> QED BY <1>1, FlatMapType
<1>3. tt \in Seq(Seq(M)) /\ Len(tt) = N /\ \A i \in 1..N : tt[i] = FlatMap(F, ss[i])
  BY <1>1, <1>2
<1>4. PICK f : f \in [0..N -> Seq(L)] /\ IsFlatOf(f, ss)
  BY FlattenSteps
<1>5. PICK g : g \in [0..Len(tt) -> Seq(M)] /\ IsFlatOf(g, tt)
  <2> HIDE DEF tt
  <2> QED BY <1>3, FlattenSteps
<1> HIDE DEF tt
<1> DEFINE S == {n \in Nat : n <= N => FlatMap(F, f[n]) = g[n]}
<1>6. 0 \in S
  <2>1. f[0] = <<>> /\ g[0] = <<>>
    BY <1>4, <1>5 DEF IsFlatOf
  <2> QED BY <2>1, FlatMapEmpty
<1>7. ASSUME NEW n \in Nat, n \in S PROVE n + 1 \in S
  <2>1. SUFFICES ASSUME n + 1 <= N PROVE FlatMap(F, f[n + 1]) = g[n + 1]
    OBVIOUS
  <2>2. n + 1 \in 1..N /\ (n + 1) - 1 = n /\ n \in 0..N /\ FlatMap(F, f[n]) = g[n]
    BY <1>1, <1>7, <2>1
  <2>3. f[n + 1] = f[n] \o ss[n + 1] /\ f[n] \in Seq(L) /\ ss[n + 1] \in Seq(L)
    BY <1>1, <1>4, <2>2 DEF IsFlatOf
  <2>4. g[n + 1] = g[n] \o tt[n + 1]
    BY <1>3, <1>5, <2>2 DEF IsFlatOf
  <2>5. FlatMap(F, f[n] \o ss[n + 1]) = FlatMap(F, f[n]) \o FlatMap(F, ss[n + 1])
    <3> DEFINE x == f[n]
               y == ss[n + 1]
    <3>1. x \in Seq(L) /\ y \in Seq(L)
      BY <2>3
    <3> HIDE DEF x, y
    <3>2. FlatMap(F, x \o y) = FlatMap(F, x) \o FlatMap(F, y)
      BY <1>0, <3>1
    <3> QED BY <3>2 DEF x, y
  <2> QED BY <1>3, <2>2, <2>3, <2>4, <2>5
<1>8. FlatMap(F, f[N]) = g[N]
  <2>1. Nat \subseteq S
    <3> HIDE DEF S
    <3> QED BY <1>6, <1>7, NumbersByInduction
  <2> QED BY <1>1, <2>1
<1>9. FlattenSeq(ss) = f[N] /\ FlattenSeq(tt) = g[N]
  BY <1>3, <1>4, <1>5 DEF IsFlatOf
<1>10. FlatMap(F, FlattenSeq(ss)) = FlattenSeq(tt)
  BY <1>8, <1>9
<1> QED BY <1>10 DEF tt

\* Each element by itself.
LEMMA FlattenSingles ==
  ASSUME NEW L, NEW s \in Seq(L)
  PROVE  FlattenSeq([i \in 1..Len(s) |-> <<s[i]>>]) = s
<1> DEFINE N == Len(s)
           ss == [i \in 1..N |-> <<s[i]>>]
<1>1. N \in Nat /\ \A i \in 1..N : s[i] \in L
  OBVIOUS
<1>2. ss \in Seq(Seq(L)) /\ Len(ss) = N /\ \A i \in 1..N : ss[i] = <<s[i]>>
  BY <1>1
<1> HIDE DEF ss
<1>3. PICK f : f \in [0..N -> Seq(L)] /\ IsFlatOf(f, ss)
  BY <1>2, FlattenSteps
<1> DEFINE S == {n \in Nat : n <= N => f[n] = SubSeq(s, 1, n)}
<1>4. 0 \in S
  <2>1. SubSeq(s, 1, 0) = <<>>
    OBVIOUS
  <2> QED BY <1>3, <2>1 DEF IsFlatOf
<1>5. ASSUME NEW n \in Nat, n \in S PROVE n + 1 \in S
  <2>1. SUFFICES ASSUME n + 1 <= N PROVE f[n + 1] = SubSeq(s, 1, n + 1)
    OBVIOUS
  <2>2. n + 1 \in 1..N /\ (n + 1) - 1 = n /\ f[n] = SubSeq(s, 1, n)
    BY <1>1, <1>5, <2>1
  <2>3. f[n + 1] = SubSeq(s, 1, n) \o <<s[n + 1]>>
    BY <1>2, <1>3, <2>2 DEF IsFlatOf
  <2>4. SubSeq(s, 1, n) \o <<s[n + 1]>> = SubSeq(s, 1, n + 1)
    BY <2>2
  <2> QED BY <2>3, <2>4
<1>6. f[N] = SubSeq(s, 1, N)
  <2>1. Nat \subseteq S
    <3> HIDE DEF S
    <3> QED BY <1>4, <1>5, NumbersByInduction
  <2> QED BY <1>1, <2>1
<1>7. SubSeq(s, 1, N) = s
  OBVIOUS
<1>8. FlattenSeq(ss) = s
  BY <1>2, <1>3, <1>6, <1>7 DEF IsFlatOf
<1> QED BY <1>8 DEF ss

LEMMA ConcatGroups ==
  ASSUME NEW L
  PROVE  \A t, u, v \in Seq(L) : (t \o u) \o v = t \o (u \o v)
BY ConcatAssociative

\* All parts but one are made of elements of Q.
PartsIn(ss, k, Q, L) ==
    /\ ss \in Seq(Seq(L)) /\ k \in 1..Len(ss) /\ Q \subseteq L
    /\ \A i \in 1..Len(ss) : i # k => ss[i] \in Seq(Q)

IsAround(x, y, Q) == \E a \in Seq(Q), b \in Seq(Q) : x = (a \o y) \o b

LEMMA FlattenAround ==
  ASSUME NEW L, NEW Q, NEW ss, NEW k, PartsIn(ss, k, Q, L)
  PROVE  IsAround(FlattenSeq(ss), ss[k], Q)
<1>0. \A t, u, v \in Seq(L) : (t \o u) \o v = t \o (u \o v)
  BY ConcatGroups
<1> DEFINE N == Len(ss)
           Around(x) == \E a \in Seq(Q), b \in Seq(Q) : x = (a \o ss[k]) \o b
<1>p. ss \in Seq(Seq(L)) /\ k \in 1..Len(ss)
  BY DEF PartsIn
<1>1. N \in Nat /\ k \in Nat /\ k >= 1 /\ k <= N /\ ss[k] \in Seq(L)
  BY <1>p
<1>2. PICK f : f \in [0..N -> Seq(L)] /\ IsFlatOf(f, ss)
  BY <1>p, FlattenSteps
<1> DEFINE Good(n) == /\ n < k => f[n] \in Seq(Q)
                      /\ n >= k => Around(f[n])
           S == {n \in Nat : n <= N => Good(n)}
<1> HIDE DEF Good, Around
<1>3. 0 \in S
  <2>1. f[0] = <<>> /\ <<>> \in Seq(Q)
    BY <1>2 DEF IsFlatOf
  <2>2. 0 < k /\ ~(0 >= k)
    BY <1>1
  <2>3. Good(0)
    BY <2>1, <2>2 DEF Good
  <2> QED BY <2>3
<1>4. ASSUME NEW n \in Nat, n \in S PROVE n + 1 \in S
  <2>1. SUFFICES ASSUME n + 1 <= N PROVE Good(n + 1)
    OBVIOUS
  <2>2. n + 1 \in 1..N /\ (n + 1) - 1 = n /\ Good(n)
    BY <1>1, <1>4, <2>1
  <2>3. f[n + 1] = f[n] \o ss[n + 1]
    BY <1>2, <2>2 DEF IsFlatOf
  <2>4. CASE n + 1 < k
    <3>1. f[n] \in Seq(Q) /\ ss[n + 1] \in Seq(Q)
      BY <1>1, <2>2, <2>4 DEF Good, PartsIn
    <3>2. f[n + 1] \in Seq(Q)
      BY <2>3, <3>1
    <3> QED BY <1>1, <2>4, <3>2 DEF Good
  <2>5. CASE n + 1 = k
    <3>1. f[n] \in Seq(Q)
      BY <1>1, <2>2, <2>5 DEF Good
    <3>2. f[n] \o ss[k] \in Seq(L)
      <4>1. f[n] \in Seq(L)
        BY <3>1 DEF PartsIn
      <4> QED BY <1>1, <4>1
    <3>3. (f[n] \o ss[k]) \o <<>> = f[n] \o ss[k] /\ <<>> \in Seq(Q)
      BY <3>2, ConcatEmptySeq
    <3>4. Around(f[n + 1])
      BY <2>3, <2>5, <3>1, <3>3 DEF Around
    <3> QED BY <1>1, <2>5, <3>4 DEF Good
  <2>6. CASE n + 1 > k
    <3>1. Around(f[n])
      BY <1>1, <2>2, <2>6 DEF Good
    <3>2. PICK a \in Seq(Q), b \in Seq(Q) : f[n] = (a \o ss[k]) \o b
      BY <3>1 DEF Around
    <3>3. ss[n + 1] \in Seq(Q)
      BY <1>1, <2>2, <2>6 DEF PartsIn
    <3>4. a \o ss[k] \in Seq(L) /\ b \in Seq(L) /\ ss[n + 1] \in Seq(L) /\ b \o ss[n + 1] \in Seq(Q)
      <4>1. a \in Seq(L) /\ b \in Seq(L) /\ ss[n + 1] \in Seq(L)
        BY <3>3 DEF PartsIn
      <4> QED BY <1>1, <3>3, <4>1
    <3>5. ((a \o ss[k]) \o b) \o ss[n + 1] = (a \o ss[k]) \o (b \o ss[n + 1])
      <4> DEFINE x == a \o ss[k]
                 z == ss[n + 1]
      <4>1. x \in Seq(L) /\ b \in Seq(L) /\ z \in Seq(L)
        BY <3>4
      <4> HIDE DEF x, z
      <4>2. (x \o b) \o z = x \o (b \o z)
        BY <1>0, <4>1
      <4> QED BY <4>2 DEF x, z
    <3>6. Around(f[n + 1])
      BY <2>3, <3>2, <3>4, <3>5 DEF Around
    <3> QED BY <1>1, <2>6, <3>6 DEF Good
  <2> QED BY <1>1, <2>4, <2>5, <2>6
<1>5. Good(N)
  <2>1. Nat \subseteq S
    <3> HIDE DEF S
    <3> QED BY <1>3, <1>4, NumbersByInduction
  <2> QED BY <1>1, <2>1
<1>6. Around(f[N])
  BY <1>1, <1>5 DEF Good
<1> QED BY <1>2, <1>6 DEF Around, IsFlatOf, IsAround

-----------------------------------------------------------------------------
(* The hooks of an event.                                                  *)

NotOurs(H) == {h \in H : ~IsOurs(h)}

LEMMA FoundIs ==
  ASSUME NEW H, NEW groups \in Seq(Seq(H))
  PROVE  /\ \A i, j : <<i, j>> \in Found(groups) <=>
                        i \in 1..Len(groups) /\ j \in 1..Len(groups[i]) /\ IsOurs(groups[i][j])
         /\ \A at \in Found(groups) : at = <<at[1], at[2]>>
<1>1. DOMAIN groups = 1..Len(groups) /\ \A i \in 1..Len(groups) : DOMAIN groups[i] = 1..Len(groups[i])
  OBVIOUS
<1>2. \A at : at \in Found(groups) <=>
        \E i \in 1..Len(groups) : at \in {i} \X {j \in 1..Len(groups[i]) : IsOurs(groups[i][j])}
  BY <1>1 DEF Found
<1> QED BY <1>2

LEMMA FirstExists ==
  ASSUME NEW H, NEW groups \in Seq(Seq(H)), Found(groups) # {}
  PROVE  \E first \in Found(groups) : IsFirst(groups, first)
<1>1. \A i, j : <<i, j>> \in Found(groups) <=>
                  i \in 1..Len(groups) /\ j \in 1..Len(groups[i]) /\ IsOurs(groups[i][j])
  BY FoundIs
<1>2. \A at \in Found(groups) : at = <<at[1], at[2]>>
  BY FoundIs
<1> DEFINE I == {i \in Nat : \E j \in Nat : <<i, j>> \in Found(groups)}
<1>3. \A i, j : <<i, j>> \in Found(groups) => i \in Nat /\ j \in Nat
  <2>1. \A i \in 1..Len(groups) : Len(groups[i]) \in Nat
    OBVIOUS
  <2> QED BY <1>1, <2>1
<1>4. PICK i \in I : \A k \in I : i <= k
  <2>1. I # {} /\ I \subseteq Nat
    <3>1. PICK at \in Found(groups) : TRUE
      OBVIOUS
    <3>2. <<at[1], at[2]>> \in Found(groups) /\ at[1] \in Nat /\ at[2] \in Nat
      BY <1>2, <1>3, <3>1
    <3>3. at[1] \in I
      BY <3>2
    <3> QED BY <3>3
  <2> HIDE DEF I
  <2> QED BY <2>1, LeastNumber
<1> DEFINE J == {j \in Nat : <<i, j>> \in Found(groups)}
<1>5. PICK j \in J : \A k \in J : j <= k
  <2>1. J # {} /\ J \subseteq Nat
    OBVIOUS
  <2> HIDE DEF J
  <2> QED BY <2>1, LeastNumber
<1>6. \A other \in Found(groups) : i < other[1] \/ (i = other[1] /\ j <= other[2])
  <2> SUFFICES ASSUME NEW other \in Found(groups)
               PROVE  i < other[1] \/ (i = other[1] /\ j <= other[2])
    OBVIOUS
  <2>1. other[1] \in Nat /\ other[2] \in Nat /\ <<other[1], other[2]>> \in Found(groups)
    BY <1>2, <1>3
  <2>2. i <= other[1]
    BY <1>4, <2>1
  <2>3. i = other[1] => j <= other[2]
    BY <1>5, <2>1
  <2> QED BY <1>4, <2>1, <2>2, <2>3
<1>7. <<i, j>>[1] = i /\ <<i, j>>[2] = j /\ <<i, j>> \in Found(groups)
  BY <1>5
<1> HIDE DEF I, J
<1>8. IsFirst(groups, <<i, j>>)
  BY <1>6, <1>7 DEF IsFirst
<1> QED BY <1>7, <1>8

\* The part of group i that a hook of it makes.
KeptPart(groups, i, j) ==
    IF ~IsOurs(groups[i][j]) THEN <<groups[i][j]>>
    ELSE IF Stays(groups, <<i, j>>) THEN <<CurrentHook>> ELSE <<>>

KeptParts(groups, i) == [j \in 1..Len(groups[i]) |-> KeptPart(groups, i, j)]

LEMMA KeptIs ==
  ASSUME NEW H, CurrentHook \in H, NEW groups \in Seq(Seq(H)), NEW i \in 1..Len(groups)
  PROVE  /\ Kept(groups, i) = FlattenSeq(KeptParts(groups, i))
         /\ KeptParts(groups, i) \in Seq(Seq(H)) /\ Len(KeptParts(groups, i)) = Len(groups[i])
         /\ \A j \in 1..Len(groups[i]) : KeptParts(groups, i)[j] = KeptPart(groups, i, j)
<1> DEFINE g == groups[i]
           parts == KeptParts(groups, i)
<1>1. g \in Seq(H) /\ DOMAIN g = 1..Len(g) /\ Len(g) \in Nat
  OBVIOUS
<1>2. \A j \in 1..Len(g) : KeptPart(groups, i, j) \in Seq(H)
  BY <1>1 DEF KeptPart
<1>3. parts \in Seq(Seq(H)) /\ Len(parts) = Len(g) /\ \A j \in 1..Len(g) : parts[j] = KeptPart(groups, i, j)
  BY <1>1, <1>2 DEF KeptParts
<1>4. Kept(groups, i) = FlattenSeq([j \in DOMAIN groups[i] |-> KeptPart(groups, i, j)])
  BY Zenon DEF Kept, KeptPart
<1>5. [j \in DOMAIN groups[i] |-> KeptPart(groups, i, j)] = parts
  BY <1>1 DEF KeptParts
<1> QED BY <1>3, <1>4, <1>5

\* What a user's hooks are left as, hook by hook and group by group.
Left(H) == [h \in H |-> IF IsOurs(h) THEN <<>> ELSE <<h>>]
LeftIn(H) == [g \in Seq(H) |-> TheirsIn(g)]

LEMMA TheirsIs ==
  ASSUME NEW H
  PROVE  /\ Left(H) \in [H -> Seq(H)]
         /\ \A g \in Seq(H) : TheirsIn(g) = FlatMap(Left(H), g) /\ TheirsIn(g) \in Seq(H)
         /\ LeftIn(H) \in [Seq(H) -> Seq(H)]
         /\ \A groups \in Seq(Seq(H)) : TheirsOf(groups) = FlatMap(LeftIn(H), groups)
<1>1. Left(H) \in [H -> Seq(H)]
  BY DEF Left
<1>2. ASSUME NEW g \in Seq(H) PROVE TheirsIn(g) = FlatMap(Left(H), g)
  <2>1. DOMAIN g = 1..Len(g) /\ \A j \in 1..Len(g) : g[j] \in H
    OBVIOUS
  <2>2. \A j \in 1..Len(g) : Left(H)[g[j]] = IF IsOurs(g[j]) THEN <<>> ELSE <<g[j]>>
    BY <2>1 DEF Left
  <2>3. [j \in DOMAIN g |-> IF IsOurs(g[j]) THEN <<>> ELSE <<g[j]>>] = [j \in 1..Len(g) |-> Left(H)[g[j]]]
    BY <2>1, <2>2
  <2> QED BY <2>3 DEF TheirsIn, FlatMap
<1>3. ASSUME NEW g \in Seq(H) PROVE FlatMap(Left(H), g) \in Seq(H)
  BY <1>1, FlatMapType
<1>4. \A g \in Seq(H) : TheirsIn(g) \in Seq(H)
  BY <1>2, <1>3
<1>5. LeftIn(H) \in [Seq(H) -> Seq(H)]
  BY <1>4 DEF LeftIn
<1>6. ASSUME NEW groups \in Seq(Seq(H)) PROVE TheirsOf(groups) = FlatMap(LeftIn(H), groups)
  <2>1. DOMAIN groups = 1..Len(groups) /\ \A i \in 1..Len(groups) : groups[i] \in Seq(H)
    OBVIOUS
  <2>2. \A i \in 1..Len(groups) : LeftIn(H)[groups[i]] = TheirsIn(groups[i])
    BY <2>1 DEF LeftIn
  <2>3. [i \in DOMAIN groups |-> TheirsIn(groups[i])] = [i \in 1..Len(groups) |-> LeftIn(H)[groups[i]]]
    BY <2>1, <2>2
  <2> QED BY <2>3 DEF TheirsOf, FlatMap
<1> QED BY <1>1, <1>2, <1>4, <1>5, <1>6

\* An install takes none of the user's hooks of a group and adds none.
LEMMA KeptLeavesTheirs ==
  ASSUME NEW H, CurrentHook \in H, NEW groups \in Seq(Seq(H)), NEW i \in 1..Len(groups)
  PROVE  /\ Kept(groups, i) \in Seq(H)
         /\ TheirsIn(Kept(groups, i)) = TheirsIn(groups[i])
<1> DEFINE g == groups[i]
           parts == KeptParts(groups, i)
<1>1. g \in Seq(H) /\ \A j \in 1..Len(g) : g[j] \in H
  OBVIOUS
<1>2. /\ Kept(groups, i) = FlattenSeq(parts)
      /\ parts \in Seq(Seq(H)) /\ Len(parts) = Len(g)
      /\ \A j \in 1..Len(g) : parts[j] = KeptPart(groups, i, j)
  BY KeptIs
<1> HIDE DEF parts, g
<1>3. Kept(groups, i) \in Seq(H)
  BY <1>2, FlattenHolds
<1>4. ASSUME NEW j \in 1..Len(g) PROVE FlatMap(Left(H), parts[j]) = Left(H)[g[j]]
  <2>1. Left(H) \in [H -> Seq(H)]
    BY TheirsIs
  <2>2. parts[j] = KeptPart(groups, i, j)
    BY <1>2
  <2>3. CASE ~IsOurs(g[j])
    <3>1. parts[j] = <<g[j]>>
      BY <2>2, <2>3 DEF KeptPart, g
    <3> QED BY <1>1, <2>1, <3>1, FlatMapOne
  <2>4. CASE IsOurs(g[j])
    <3>1. Left(H)[g[j]] = <<>>
      BY <1>1, <2>4 DEF Left
    <3>2. Left(H)[CurrentHook] = <<>>
      BY DEF Left, IsOurs
    <3>3. parts[j] = <<CurrentHook>> \/ parts[j] = <<>>
      BY <2>2, <2>4 DEF KeptPart, g
    <3>4. FlatMap(Left(H), <<CurrentHook>>) = <<>>
      BY <2>1, <3>2, FlatMapOne
    <3>5. FlatMap(Left(H), <<>>) = <<>>
      BY FlatMapEmpty
    <3> QED BY <3>1, <3>3, <3>4, <3>5
  <2> QED BY <2>3, <2>4
<1>5. FlatMap(Left(H), FlattenSeq(parts)) = FlattenSeq([j \in 1..Len(parts) |-> FlatMap(Left(H), parts[j])])
  <2>1. Left(H) \in [H -> Seq(H)]
    BY TheirsIs
  <2> QED BY <1>2, <2>1, FlatMapOfParts
<1>6. [j \in 1..Len(parts) |-> FlatMap(Left(H), parts[j])] = [j \in 1..Len(g) |-> Left(H)[g[j]]]
  BY <1>2, <1>4
<1>7. FlatMap(Left(H), Kept(groups, i)) = FlatMap(Left(H), g)
  BY <1>2, <1>5, <1>6 DEF FlatMap
<1>8. TheirsIn(Kept(groups, i)) = FlatMap(Left(H), Kept(groups, i)) /\ TheirsIn(g) = FlatMap(Left(H), g)
  BY <1>1, <1>3, TheirsIs
<1> QED BY <1>3, <1>7, <1>8 DEF g

\* Where there is nothing to keep but what is there.
LEMMA KeptWhole ==
  ASSUME NEW H, CurrentHook \in H, NEW groups \in Seq(Seq(H)), NEW i \in 1..Len(groups),
         \A j \in 1..Len(groups[i]) : KeptPart(groups, i, j) = <<groups[i][j]>>
  PROVE  Kept(groups, i) = groups[i]
<1> DEFINE g == groups[i]
           parts == KeptParts(groups, i)
<1>1. g \in Seq(H)
  OBVIOUS
<1>2. Kept(groups, i) = FlattenSeq(parts)
  BY KeptIs
<1>3. parts = [j \in 1..Len(g) |-> <<g[j]>>]
  BY DEF KeptParts
<1> HIDE DEF parts, g
<1>4. FlattenSeq([j \in 1..Len(g) |-> <<g[j]>>]) = g
  BY <1>1, FlattenSingles
<1> QED BY <1>2, <1>3, <1>4 DEF g

\* The part of the merged groups that a group makes.
MergePart(groups, i) ==
    IF Kept(groups, i) = <<>> /\ groups[i] # <<>> THEN <<>> ELSE <<Kept(groups, i)>>

MergeParts(groups) == [i \in 1..Len(groups) |-> MergePart(groups, i)]

LEMMA MergeIs ==
  ASSUME NEW H, CurrentHook \in H, NEW groups \in Seq(Seq(H)), Found(groups) # {}
  PROVE  /\ Merge(groups) = FlattenSeq(MergeParts(groups))
         /\ MergeParts(groups) \in Seq(Seq(Seq(H))) /\ Len(MergeParts(groups)) = Len(groups)
         /\ \A i \in 1..Len(groups) : MergeParts(groups)[i] = MergePart(groups, i)
<1> DEFINE parts == MergeParts(groups)
<1>1. DOMAIN groups = 1..Len(groups) /\ Len(groups) \in Nat
  OBVIOUS
<1>2. \A i \in 1..Len(groups) : Kept(groups, i) \in Seq(H)
  BY KeptLeavesTheirs
<1>3. \A i \in 1..Len(groups) : MergePart(groups, i) \in Seq(Seq(H))
  BY <1>2 DEF MergePart
<1>4. parts \in Seq(Seq(Seq(H))) /\ Len(parts) = Len(groups)
      /\ \A i \in 1..Len(groups) : parts[i] = MergePart(groups, i)
  BY <1>1, <1>3 DEF MergeParts
<1>5. Merge(groups) = FlattenSeq([i \in DOMAIN groups |-> MergePart(groups, i)])
  BY Zenon DEF Merge, MergePart
<1>6. [i \in DOMAIN groups |-> MergePart(groups, i)] = parts
  BY <1>1 DEF MergeParts
<1> QED BY <1>4, <1>5, <1>6

\* One entry of ours, the current one: a second install has nothing to do.
LEMMA NothingToDo ==
  ASSUME NEW H, CurrentHook \in H, NEW m \in Seq(Seq(H)), NEW p \in Nat, NEW q \in Nat,
         Found(m) = {<<p, q>>}, m[p][q] = CurrentHook
  PROVE  IsCurrent(m) /\ Merge(m) = m
<1> DEFINE at == <<p, q>>
<1>1. at[1] = p /\ at[2] = q /\ at \in Found(m) /\ Found(m) = {at} /\ m[at[1]][at[2]] = CurrentHook
  OBVIOUS
<1>2. IsCurrent(m)
  BY <1>1 DEF IsCurrent
<1>3. \A i, j : <<i, j>> \in Found(m) <=> i \in 1..Len(m) /\ j \in 1..Len(m[i]) /\ IsOurs(m[i][j])
  BY FoundIs
<1>4. p \in 1..Len(m) /\ q \in 1..Len(m[p]) /\ m[p] \in Seq(H)
  BY <1>1, <1>3
<1>5. \A i \in 1..Len(m) : \A j \in 1..Len(m[i]) : IsOurs(m[i][j]) => i = p /\ j = q
  BY <1>1, <1>3
<1>6. Stays(m, at)
  <2>1. IsFirst(m, at)
    BY <1>1 DEF IsFirst
  <2>2. DOMAIN m[p] = 1..Len(m[p])
    BY <1>4
  <2>3. {q} \cup {j \in DOMAIN m[p] : m[p][j] = CurrentHook} = {q}
    BY <1>4, <1>5, <2>2 DEF IsOurs
  <2>4. Max({q}) = q
    <3>1. {q} \in SUBSET (1..q) /\ q \in {q}
      BY <1>4
    <3> QED BY <3>1, MaxOfInterval
  <2>5. at[2] = Max({at[2]} \cup {j \in DOMAIN m[at[1]] : m[at[1]][j] = CurrentHook})
    BY <1>1, <2>3, <2>4
  <2> HIDE DEF at
  <2> QED BY <1>1, <2>1, <2>5 DEF Stays
<1>7. ASSUME NEW i \in 1..Len(m) PROVE Kept(m, i) = m[i]
  <2>1. ASSUME NEW j \in 1..Len(m[i]) PROVE KeptPart(m, i, j) = <<m[i][j]>>
    <3>1. CASE ~IsOurs(m[i][j])
      BY <3>1 DEF KeptPart
    <3>2. CASE IsOurs(m[i][j])
      <4>1. i = p /\ j = q
        BY <1>5, <3>2
      <4>2. Stays(m, <<i, j>>) /\ m[i][j] = CurrentHook
        BY <1>6, <4>1
      <4> QED BY <3>2, <4>2 DEF KeptPart
    <3> QED BY <3>1, <3>2
  <2> QED BY <2>1, KeptWhole
<1> DEFINE parts == MergeParts(m)
<1>8. Merge(m) = FlattenSeq(parts)
  <2>1. Found(m) # {}
    BY <1>1
  <2> HIDE DEF at
  <2> QED BY <2>1, MergeIs
<1>9. parts = [i \in 1..Len(m) |-> <<m[i]>>]
  BY <1>7 DEF MergePart, MergeParts
<1> HIDE DEF parts
<1>10. FlattenSeq([i \in 1..Len(m) |-> <<m[i]>>]) = m
  BY FlattenSingles
<1> QED BY <1>2, <1>8, <1>9, <1>10

\* x between the elements of a and of b.
LEMMA Between ==
  ASSUME NEW L, NEW Q, Q \subseteq L, NEW a \in Seq(Q), NEW b \in Seq(Q), NEW x \in L,
         NEW m, m = (a \o <<x>>) \o b
  PROVE  /\ m \in Seq(L) /\ Len(a) + 1 \in 1..Len(m) /\ m[Len(a) + 1] = x
         /\ \A i \in 1..Len(m) : i # Len(a) + 1 => m[i] \in Q
<1>1. a \in Seq(L) /\ b \in Seq(L) /\ <<x>> \in Seq(L) /\ Len(a) \in Nat /\ Len(b) \in Nat
  OBVIOUS
<1>2. m \in Seq(L) /\ Len(m) = Len(a) + 1 + Len(b)
  BY <1>1
<1>3. m[Len(a) + 1] = x
  BY <1>1
<1>4. ASSUME NEW i \in 1..Len(m), i # Len(a) + 1 PROVE m[i] \in Q
  <2>1. CASE i < Len(a) + 1
    BY <1>1, <1>2, <2>1
  <2>2. CASE i > Len(a) + 1
    <3>1. i - (Len(a) + 1) \in 1..Len(b) /\ m[i] = b[i - (Len(a) + 1)]
      BY <1>1, <1>2, <2>2
    <3> QED BY <3>1
  <2> QED BY <1>1, <1>4, <2>1, <2>2
<1> QED BY <1>1, <1>2, <1>3, <1>4

\* A hook of ours among the user's, in a group among groups of the user's.
OneAmong(H, a, b, c, d, k, m) ==
    /\ CurrentHook \in H
    /\ a \in Seq(Seq(NotOurs(H))) /\ b \in Seq(Seq(NotOurs(H)))
    /\ c \in Seq(NotOurs(H)) /\ d \in Seq(NotOurs(H))
    /\ k = (c \o <<CurrentHook>>) \o d /\ m = (a \o <<k>>) \o b

LEMMA FoundInOne ==
  ASSUME NEW H, NEW a, NEW b, NEW c, NEW d, NEW k, NEW m, OneAmong(H, a, b, c, d, k, m)
  PROVE  /\ m \in Seq(Seq(H)) /\ Found(m) = {<<Len(a) + 1, Len(c) + 1>>}
         /\ m[Len(a) + 1][Len(c) + 1] = CurrentHook
<1>0. /\ CurrentHook \in H
      /\ a \in Seq(Seq(NotOurs(H))) /\ b \in Seq(Seq(NotOurs(H)))
      /\ c \in Seq(NotOurs(H)) /\ d \in Seq(NotOurs(H))
      /\ k = (c \o <<CurrentHook>>) \o d /\ m = (a \o <<k>>) \o b
  BY DEF OneAmong
<1> DEFINE p == Len(a) + 1
           q == Len(c) + 1
<1>1. NotOurs(H) \subseteq H /\ Seq(NotOurs(H)) \subseteq Seq(H)
  BY DEF NotOurs
<1>2. /\ k \in Seq(H) /\ q \in 1..Len(k) /\ k[q] = CurrentHook
      /\ \A j \in 1..Len(k) : j # q => k[j] \in NotOurs(H)
  BY <1>0, <1>1, Between
<1>3. /\ m \in Seq(Seq(H)) /\ p \in 1..Len(m) /\ m[p] = k
      /\ \A i \in 1..Len(m) : i # p => m[i] \in Seq(NotOurs(H))
  <2> DEFINE L == Seq(H)
             Q == Seq(NotOurs(H))
  <2>1. Q \subseteq L /\ a \in Seq(Q) /\ b \in Seq(Q) /\ k \in L /\ m = (a \o <<k>>) \o b
    BY <1>0, <1>1, <1>2
  <2> HIDE DEF L, Q
  <2>2. /\ m \in Seq(L) /\ Len(a) + 1 \in 1..Len(m) /\ m[Len(a) + 1] = k
        /\ \A i \in 1..Len(m) : i # Len(a) + 1 => m[i] \in Q
    BY <2>1, Between
  <2> QED BY <2>2 DEF L, Q
<1> HIDE DEF p, q
<1>4. \A i, j : <<i, j>> \in Found(m) <=> i \in 1..Len(m) /\ j \in 1..Len(m[i]) /\ IsOurs(m[i][j])
  BY <1>3, FoundIs
<1>5. \A at \in Found(m) : at = <<at[1], at[2]>>
  BY <1>3, FoundIs
<1>6. <<p, q>> \in Found(m)
  BY <1>2, <1>3, <1>4 DEF IsOurs
<1>7. ASSUME NEW i, NEW j, <<i, j>> \in Found(m) PROVE i = p /\ j = q
  <2>1. i \in 1..Len(m) /\ j \in 1..Len(m[i]) /\ IsOurs(m[i][j])
    BY <1>4, <1>7
  <2>2. i = p
    <3> SUFFICES ASSUME i # p PROVE FALSE
      OBVIOUS
    <3>1. m[i] \in Seq(NotOurs(H))
      BY <1>3, <2>1
    <3>2. m[i][j] \in NotOurs(H)
      BY <2>1, <3>1
    <3> QED BY <2>1, <3>2 DEF NotOurs
  <2>3. j = q
    BY <1>2, <1>3, <2>1, <2>2 DEF NotOurs
  <2> QED BY <2>2, <2>3
<1>8. Found(m) = {<<p, q>>}
  <2>1. ASSUME NEW at \in Found(m) PROVE at = <<p, q>>
    <3>1. at = <<at[1], at[2]>>
      BY <1>5
    <3>2. <<at[1], at[2]>> \in Found(m)
      BY <3>1
    <3>3. at[1] = p /\ at[2] = q
      BY <1>7, <3>2
    <3> QED BY <3>1, <3>3
  <2> QED BY <1>6, <2>1
<1> QED BY <1>2, <1>3, <1>8 DEF p, q

\* The groups the user left empty are counted by what stays of them.
Empties(H) == [g \in Seq(H) |-> IF g = <<>> THEN <<g>> ELSE <<>>]

LEMMA EmptiesAreCounted ==
  ASSUME NEW H, NEW groups \in Seq(Seq(H))
  PROVE  /\ Empties(H) \in [Seq(H) -> Seq(Seq(H))]
         /\ Len(FlatMap(Empties(H), groups)) = Cardinality({i \in DOMAIN groups : groups[i] = <<>>})
<1> DEFINE E == Empties(H)
           N == Len(groups)
           ss == [i \in 1..N |-> E[groups[i]]]
<1>1. N \in Nat /\ DOMAIN groups = 1..N /\ \A i \in 1..N : groups[i] \in Seq(H)
  OBVIOUS
<1>2. E \in [Seq(H) -> Seq(Seq(H))]
  BY DEF Empties
<1>3. \A i \in 1..N : E[groups[i]] = IF groups[i] = <<>> THEN <<groups[i]>> ELSE <<>>
  BY <1>1 DEF Empties
<1> HIDE DEF E
<1>4. ss \in Seq(Seq(Seq(H))) /\ Len(ss) = N /\ \A i \in 1..N : ss[i] = E[groups[i]]
  BY <1>1, <1>2
<1> HIDE DEF ss
<1>5. PICK f : f \in [0..Len(ss) -> Seq(Seq(H))] /\ IsFlatOf(f, ss)
  BY <1>4, FlattenSteps
<1> DEFINE C(n) == {i \in 1..n : groups[i] = <<>>}
           Good(n) == IsFiniteSet(C(n)) /\ Len(f[n]) = Cardinality(C(n))
           S == {n \in Nat : n <= N => Good(n)}
<1>6. 0 \in S
  <2>1. f[0] = <<>> /\ Len(<<>>) = 0
    BY <1>5 DEF IsFlatOf
  <2>2. C(0) = {}
    OBVIOUS
  <2> HIDE DEF C
  <2> QED BY <2>1, <2>2, FS_EmptySet
<1>7. ASSUME NEW n \in Nat, n \in S PROVE n + 1 \in S
  <2> HIDE DEF Good
  <2>1. SUFFICES ASSUME n + 1 <= N PROVE Good(n + 1)
    OBVIOUS
  <2>2. n + 1 \in 1..N /\ (n + 1) - 1 = n /\ n \in 0..N /\ Good(n)
    BY <1>1, <1>7, <2>1
  <2>3. f[n + 1] = f[n] \o ss[n + 1] /\ f[n] \in Seq(Seq(H))
    BY <1>4, <1>5, <2>2 DEF IsFlatOf
  <2>4. CASE groups[n + 1] = <<>>
    <3>1. ss[n + 1] = <<groups[n + 1]>>
      BY <1>3, <1>4, <2>2, <2>4
    <3>2. Len(f[n + 1]) = Len(f[n]) + 1
      BY <2>3, <3>1
    <3>3. C(n + 1) = C(n) \cup {n + 1} /\ n + 1 \notin C(n)
      BY <2>4
    <3> HIDE DEF C
    <3> QED BY <2>2, <3>2, <3>3, FS_AddElement DEF Good
  <2>5. CASE groups[n + 1] # <<>>
    <3>1. ss[n + 1] = <<>>
      BY <1>3, <1>4, <2>2, <2>5
    <3>2. f[n + 1] = f[n]
      BY <2>3, <3>1, ConcatEmptySeq
    <3>3. C(n + 1) = C(n)
      BY <2>5
    <3> HIDE DEF C
    <3> QED BY <2>2, <3>2, <3>3 DEF Good
  <2> QED BY <2>4, <2>5
<1>8. Good(N)
  <2> HIDE DEF Good
  <2>1. Nat \subseteq S
    <3> HIDE DEF S
    <3> QED BY <1>6, <1>7, NumbersByInduction
  <2> QED BY <1>1, <2>1
<1>9. FlatMap(E, groups) = f[N]
  BY <1>4, <1>5 DEF FlatMap, IsFlatOf, ss
<1> QED BY <1>1, <1>2, <1>8, <1>9 DEF E

\* A sequence is one over any set that has its elements.
LEMMA Among ==
  ASSUME NEW L, NEW Q, NEW s \in Seq(L), \A i \in 1..Len(s) : s[i] \in Q
  PROVE  s \in Seq(Q)
<1>1. s = [i \in 1..Len(s) |-> s[i]] /\ Len(s) \in Nat
  OBVIOUS
<1>2. [i \in 1..Len(s) |-> s[i]] \in Seq(Q)
  BY <1>1
<1> QED BY <1>1, <1>2

\* Flattening and mapping at once, the other way round.
SameMade(F, L, M, ss, tt) ==
    /\ F \in [L -> Seq(M)] /\ ss \in Seq(Seq(L)) /\ tt \in Seq(L) /\ Len(tt) = Len(ss)
    /\ \A i \in 1..Len(ss) : FlatMap(F, ss[i]) = F[tt[i]]

LEMMA FlatMapThroughParts ==
  ASSUME NEW L, NEW M, NEW F, NEW ss, NEW tt, SameMade(F, L, M, ss, tt)
  PROVE  FlatMap(F, FlattenSeq(ss)) = FlatMap(F, tt)
<1>1. FlatMap(F, FlattenSeq(ss)) = FlattenSeq([i \in 1..Len(ss) |-> FlatMap(F, ss[i])])
  <2>1. F \in [L -> Seq(M)] /\ ss \in Seq(Seq(L))
    BY DEF SameMade
  <2> QED BY <2>1, FlatMapOfParts
<1>2. [i \in 1..Len(ss) |-> FlatMap(F, ss[i])] = [i \in 1..Len(tt) |-> F[tt[i]]]
  BY DEF SameMade
<1> QED BY <1>1, <1>2, Zenon DEF FlatMap

\* An install where there is nothing of ours yet.
LEMMA FirstInstall ==
  ASSUME NEW H, CurrentHook \in H, NEW groups \in Seq(Seq(H)), Found(groups) = {}
  PROVE  CleansUp(groups)
<1> DEFINE k == <<CurrentHook>>
           m == groups \o <<k>>
<1>1. Merge(groups) = m
  BY DEF Merge
<1>2. k \in Seq(H) /\ m \in Seq(Seq(H)) /\ Len(m) = Len(groups) + 1 /\ Len(groups) \in Nat
      /\ m[Len(groups) + 1] = k /\ \A i \in 1..Len(groups) : m[i] = groups[i]
  OBVIOUS
<1>3. groups \in Seq(Seq(NotOurs(H)))
  <2>1. \A i, j : <<i, j>> \in Found(groups) <=>
                    i \in 1..Len(groups) /\ j \in 1..Len(groups[i]) /\ IsOurs(groups[i][j])
    BY FoundIs
  <2>2. ASSUME NEW i \in 1..Len(groups) PROVE groups[i] \in Seq(NotOurs(H))
    <3> DEFINE g == groups[i]
    <3>1. g \in Seq(H)
      OBVIOUS
    <3>2. \A j \in 1..Len(g) : ~IsOurs(g[j])
      BY <2>1
    <3> HIDE DEF g
    <3>3. \A j \in 1..Len(g) : g[j] \in NotOurs(H)
      BY <3>1, <3>2 DEF NotOurs
    <3>4. g \in Seq(NotOurs(H))
      BY <3>1, <3>3
    <3> QED BY <3>4 DEF g
  <2> DEFINE N == Seq(NotOurs(H))
  <2>3. \A i \in 1..Len(groups) : groups[i] \in N
    BY <2>2
  <2> HIDE DEF N
  <2>4. groups \in Seq(N)
    BY <2>3, Among
  <2> QED BY <2>4 DEF N
<1>4. Found(m) = {<<Len(groups) + 1, 1>>} /\ m[Len(groups) + 1][1] = CurrentHook
  <2> DEFINE c == <<>>
             b == <<>>
  <2>1. c \in Seq(NotOurs(H)) /\ b \in Seq(Seq(NotOurs(H))) /\ Len(c) = 0
    OBVIOUS
  <2>2. k = (c \o <<CurrentHook>>) \o c
    OBVIOUS
  <2>3. m = (groups \o <<k>>) \o b
    BY <1>2, ConcatEmptySeq
  <2> HIDE DEF b, c, k, m
  <2>4. Found(m) = {<<Len(groups) + 1, Len(c) + 1>>} /\ m[Len(groups) + 1][Len(c) + 1] = CurrentHook
    <3>1. OneAmong(H, groups, b, c, c, k, m)
      BY <1>3, <2>1, <2>2, <2>3 DEF OneAmong
    <3> QED BY <3>1, FoundInOne
  <2> QED BY <2>1, <2>4
<1>5. IsCurrent(m) /\ Merge(m) = m
  <2>1. Len(groups) + 1 \in Nat /\ 1 \in Nat
    BY <1>2
  <2> HIDE DEF m
  <2> QED BY <1>2, <1>4, <2>1, NothingToDo
<1>6. TheirsOf(m) = TheirsOf(groups)
  <2>1. LeftIn(H) \in [Seq(H) -> Seq(H)] /\ TheirsOf(m) = FlatMap(LeftIn(H), m)
        /\ TheirsOf(groups) = FlatMap(LeftIn(H), groups)
    BY <1>2, TheirsIs
  <2>2. LeftIn(H)[k] = <<>>
    <3>1. TheirsIn(k) = FlatMap(Left(H), k) /\ Left(H) \in [H -> Seq(H)]
      BY <1>2, TheirsIs
    <3>2. FlatMap(Left(H), k) = Left(H)[CurrentHook]
      BY <3>1, FlatMapOne
    <3>3. Left(H)[CurrentHook] = <<>>
      BY DEF Left, IsOurs
    <3> QED BY <1>2, <3>1, <3>2, <3>3 DEF LeftIn
  <2> HIDE DEF k
  <2>3. <<k>> \in Seq(Seq(H)) /\ k \in Seq(H)
    BY <1>2
  <2>4. FlatMap(LeftIn(H), m) = FlatMap(LeftIn(H), groups) \o FlatMap(LeftIn(H), <<k>>)
    <3> DEFINE L == Seq(H)
               F == LeftIn(H)
               s == <<k>>
    <3>1. F \in [L -> Seq(H)] /\ groups \in Seq(L) /\ s \in Seq(L)
      BY <2>1, <2>3
    <3>0. MapsTo(F, L, H)
      BY <3>1 DEF MapsTo
    <3> HIDE DEF F, L, s
    <3>2. FlatMap(F, groups \o s) = FlatMap(F, groups) \o FlatMap(F, s)
      BY <3>0, <3>1, FlatMapConcat
    <3> QED BY <3>2 DEF F, s
  <2>5. FlatMap(LeftIn(H), <<k>>) = <<>>
    BY <2>1, <2>2, <2>3, FlatMapOne
  <2>6. FlatMap(LeftIn(H), groups) \in Seq(H)
    BY <2>1, FlatMapType
  <2> QED BY <2>1, <2>4, <2>5, <2>6, ConcatEmptySeq
<1>7. {i \in DOMAIN m : m[i] = <<>>} = {i \in DOMAIN groups : groups[i] = <<>>}
  <2>1. k # <<>>
    OBVIOUS
  <2>2. DOMAIN m = 1..(Len(groups) + 1) /\ DOMAIN groups = 1..Len(groups)
    BY <1>2
  <2> HIDE DEF k, m
  <2> QED BY <1>2, <2>1, <2>2
<1> HIDE DEF m
<1> QED BY <1>1, <1>5, <1>6, <1>7 DEF CleansUp

\* One of ours stays, and no other.
OneStays(groups) ==
    \E g \in 1..Len(groups) : \E p \in 1..Len(groups[g]) :
        /\ IsOurs(groups[g][p])
        /\ \A i, j : Stays(groups, <<i, j>>) <=> i = g /\ j = p

\* Where ours ends up when there was something.
LEMMA StaysAtOnePlace ==
  ASSUME NEW H, NEW groups \in Seq(Seq(H)), Found(groups) # {}
  PROVE  OneStays(groups)
<1>1. PICK first \in Found(groups) : IsFirst(groups, first)
  BY FirstExists
<1>2. first = <<first[1], first[2]>>
  BY FoundIs
<1>3. \A i, j : <<i, j>> \in Found(groups) <=>
                  i \in 1..Len(groups) /\ j \in 1..Len(groups[i]) /\ IsOurs(groups[i][j])
  BY FoundIs
<1> DEFINE g == first[1]
           ps == {first[2]} \cup {j \in DOMAIN groups[g] : groups[g][j] = CurrentHook}
           p == Max(ps)
<1>4. g \in 1..Len(groups) /\ first[2] \in 1..Len(groups[g]) /\ IsOurs(groups[g][first[2]])
  BY <1>2, <1>3
<1>5. groups[g] \in Seq(H) /\ DOMAIN groups[g] = 1..Len(groups[g]) /\ Len(groups[g]) \in Nat
  BY <1>4
<1>6. p \in ps
  <2>1. ps \in SUBSET (1..Len(groups[g])) /\ ps # {}
    BY <1>4, <1>5
  <2> HIDE DEF ps
  <2> QED BY <1>5, <2>1, MaxIsMember
<1>7. p \in 1..Len(groups[g]) /\ IsOurs(groups[g][p])
  <2> HIDE DEF p
  <2> QED BY <1>4, <1>5, <1>6 DEF IsOurs
<1>8. ASSUME NEW other \in Found(groups), IsFirst(groups, other) PROVE other = first
  <2>1. other = <<other[1], other[2]>>
    BY FoundIs
  <2>2. /\ other[1] \in Nat /\ other[2] \in Nat /\ first[1] \in Nat /\ first[2] \in Nat
    <3>1. \A i \in 1..Len(groups) : Len(groups[i]) \in Nat
      OBVIOUS
    <3>2. <<other[1], other[2]>> \in Found(groups)
      BY <2>1
    <3> QED BY <1>3, <1>4, <3>1, <3>2
  <2>3. first[1] < other[1] \/ (first[1] = other[1] /\ first[2] <= other[2])
    BY <1>1 DEF IsFirst
  <2>4. other[1] < first[1] \/ (other[1] = first[1] /\ other[2] <= first[2])
    BY <1>8 DEF IsFirst
  <2>5. first[1] = other[1] /\ first[2] = other[2]
    BY <2>2, <2>3, <2>4
  <2> QED BY <1>2, <2>1, <2>5
<1>9. ASSUME NEW i, NEW j PROVE Stays(groups, <<i, j>>) <=> i = g /\ j = p
  <2>1. <<i, j>>[1] = i /\ <<i, j>>[2] = j
    OBVIOUS
  <2>2. Stays(groups, <<i, j>>) <=>
          \E f \in Found(groups) :
             /\ IsFirst(groups, f) /\ i = f[1]
             /\ j = Max({f[2]} \cup {l \in DOMAIN groups[i] : groups[i][l] = CurrentHook})
    BY <2>1, Zenon DEF Stays
  <2> HIDE DEF p, ps
  <2>3. (i = g /\ j = p) <=> (i = g /\ j = Max({first[2]} \cup {l \in DOMAIN groups[i] : groups[i][l] = CurrentHook}))
    BY DEF p, ps
  <2> QED BY <1>1, <1>8, <2>2, <2>3
<1> HIDE DEF p
<1> QED BY <1>4, <1>7, <1>9 DEF OneStays

\* An install where there was.
LEMMA LaterInstall ==
  ASSUME NEW H, CurrentHook \in H, NEW groups \in Seq(Seq(H)), Found(groups) # {}
  PROVE  CleansUp(groups)
<1>s. OneStays(groups)
  BY StaysAtOnePlace
<1> DEFINE m == Merge(groups)
           K(i) == Kept(groups, i)
           parts == MergeParts(groups)
<1>0. PICK g \in 1..Len(groups) : \E p \in 1..Len(groups[g]) :
            /\ IsOurs(groups[g][p])
            /\ \A i, j : Stays(groups, <<i, j>>) <=> i = g /\ j = p
  BY <1>s, Zenon DEF OneStays
<1>1. PICK p \in 1..Len(groups[g]) :
            /\ IsOurs(groups[g][p])
            /\ \A i, j : Stays(groups, <<i, j>>) <=> i = g /\ j = p
  BY <1>0, Zenon
<1>2. NotOurs(H) \subseteq H /\ CurrentHook \notin NotOurs(H)
  BY DEF NotOurs, IsOurs
<1>3. DOMAIN groups = 1..Len(groups) /\ Len(groups) \in Nat /\ \A i \in 1..Len(groups) : groups[i] \in Seq(H)
  OBVIOUS
<1>4. ASSUME NEW i \in 1..Len(groups), i # g PROVE K(i) \in Seq(NotOurs(H))
  <2> DEFINE s == groups[i]
             ps == KeptParts(groups, i)
  <2>1. /\ Kept(groups, i) = FlattenSeq(ps)
        /\ ps \in Seq(Seq(H)) /\ Len(ps) = Len(s)
        /\ \A j \in 1..Len(s) : ps[j] = KeptPart(groups, i, j)
    BY KeptIs
  <2>2. s \in Seq(H) /\ \A j \in 1..Len(s) : s[j] \in H
    BY <1>3
  <2>3. ASSUME NEW j \in 1..Len(s) PROVE KeptPart(groups, i, j) \in Seq(NotOurs(H))
    <3>1. CASE ~IsOurs(s[j])
      <4>1. s[j] \in NotOurs(H)
        BY <2>2, <3>1 DEF NotOurs
      <4>2. KeptPart(groups, i, j) = <<s[j]>>
        BY <3>1 DEF KeptPart
      <4> HIDE DEF s
      <4> QED BY <4>1, <4>2
    <3>2. CASE IsOurs(s[j])
      <4>1. ~Stays(groups, <<i, j>>)
        BY <1>1, <1>4
      <4>2. KeptPart(groups, i, j) = <<>>
        BY <3>2, <4>1 DEF KeptPart
      <4> QED BY <4>2
    <3> QED BY <3>1, <3>2
  <2> HIDE DEF ps, s
  <2>4. ps \in Seq(Seq(NotOurs(H)))
    <3> DEFINE Q == Seq(NotOurs(H))
    <3>1. Len(ps) \in Nat /\ DOMAIN ps = 1..Len(ps) /\ \A j \in 1..Len(ps) : ps[j] \in Q
      BY <2>1, <2>3
    <3>4. ps \in Seq(Seq(H))
      BY <2>1
    <3> HIDE DEF Q
    <3>3. ps \in Seq(Q)
      BY <3>1, <3>4, Among
    <3> QED BY <3>3 DEF Q
  <2> QED BY <2>1, <2>4, FlattenHolds
<1>5. \E c \in Seq(NotOurs(H)), d \in Seq(NotOurs(H)) : K(g) = (c \o <<CurrentHook>>) \o d
  <2> DEFINE s == groups[g]
             ps == KeptParts(groups, g)
  <2>1. /\ Kept(groups, g) = FlattenSeq(ps)
        /\ ps \in Seq(Seq(H)) /\ Len(ps) = Len(s)
        /\ \A j \in 1..Len(s) : ps[j] = KeptPart(groups, g, j)
    BY KeptIs
  <2>2. s \in Seq(H) /\ \A j \in 1..Len(s) : s[j] \in H
    BY <1>3
  <2>3. ASSUME NEW j \in 1..Len(s), j # p PROVE KeptPart(groups, g, j) \in Seq(NotOurs(H))
    <3>1. CASE ~IsOurs(s[j])
      <4>1. s[j] \in NotOurs(H)
        BY <2>2, <3>1 DEF NotOurs
      <4>2. KeptPart(groups, g, j) = <<s[j]>>
        BY <3>1 DEF KeptPart
      <4> HIDE DEF s
      <4> QED BY <4>1, <4>2
    <3>2. CASE IsOurs(s[j])
      <4>1. ~Stays(groups, <<g, j>>)
        BY <1>1, <2>3
      <4>2. KeptPart(groups, g, j) = <<>>
        BY <3>2, <4>1 DEF KeptPart
      <4> QED BY <4>2
    <3> QED BY <3>1, <3>2
  <2>4. KeptPart(groups, g, p) = <<CurrentHook>>
    <3>1. Stays(groups, <<g, p>>)
      BY <1>1
    <3> QED BY <1>1, <3>1 DEF KeptPart
  <2>5. p \in 1..Len(ps) /\ ps[p] = <<CurrentHook>>
    BY <1>1, <2>1, <2>4
  <2> HIDE DEF ps, s
  <2>6. PartsIn(ps, p, NotOurs(H), H)
    BY <1>2, <2>1, <2>3, <2>5 DEF PartsIn
  <2>7. IsAround(FlattenSeq(ps), ps[p], NotOurs(H))
    BY <2>6, FlattenAround
  <2> QED BY <2>1, <2>5, <2>7 DEF IsAround
<1>6. PICK c \in Seq(NotOurs(H)), d \in Seq(NotOurs(H)) : K(g) = (c \o <<CurrentHook>>) \o d
  BY <1>5
<1>7. \A i \in 1..Len(groups) : K(i) \in Seq(H) /\ TheirsIn(K(i)) = TheirsIn(groups[i])
  BY KeptLeavesTheirs
<1>8. K(g) # <<>>
  <2>1. Len((c \o <<CurrentHook>>) \o d) = Len(c) + 1 + Len(d) /\ Len(c) \in Nat /\ Len(d) \in Nat
    OBVIOUS
  <2>2. Len(<<>>) = 0
    OBVIOUS
  <2> HIDE DEF K
  <2> QED BY <1>6, <2>1, <2>2
<1>9. /\ m = FlattenSeq(parts)
      /\ parts \in Seq(Seq(Seq(H))) /\ Len(parts) = Len(groups)
      /\ \A i \in 1..Len(groups) : parts[i] = MergePart(groups, i)
  BY MergeIs
<1>10. \A i \in 1..Len(groups) : parts[i] = IF K(i) = <<>> /\ groups[i] # <<>> THEN <<>> ELSE <<K(i)>>
  BY <1>9 DEF MergePart
<1> HIDE DEF m, K, parts
<1>11. m \in Seq(Seq(H))
  BY <1>9, FlattenHolds
<1>12. \E a \in Seq(Seq(NotOurs(H))), b \in Seq(Seq(NotOurs(H))) : m = (a \o <<K(g)>>) \o b
  <2> DEFINE Q == Seq(NotOurs(H))
             L == Seq(H)
  <2>1. Q \subseteq L
    BY <1>2
  <2>2. parts[g] = <<K(g)>> /\ g \in 1..Len(parts)
    BY <1>8, <1>9, <1>10
  <2>3. \A i \in 1..Len(groups) : i # g => K(i) \in Q
    BY <1>4
  <2> HIDE DEF Q, L
  <2>4. ASSUME NEW i \in 1..Len(parts), i # g PROVE parts[i] \in Seq(Q)
    <3>1. i \in 1..Len(groups) /\ K(i) \in Q
      BY <1>9, <2>3, <2>4
    <3>2. parts[i] = <<>> \/ parts[i] = <<K(i)>>
      BY <1>10, <3>1
    <3>3. <<>> \in Seq(Q)
      OBVIOUS
    <3>4. <<K(i)>> \in Seq(Q)
      BY <3>1
    <3> QED BY <3>2, <3>3, <3>4
  <2>6. parts \in Seq(Seq(L))
    BY <1>9 DEF L
  <2>5. PartsIn(parts, g, Q, L)
    BY <2>1, <2>2, <2>4, <2>6 DEF PartsIn
  <2>7. IsAround(FlattenSeq(parts), parts[g], Q)
    BY <2>5, FlattenAround
  <2> QED BY <1>9, <2>2, <2>7 DEF Q, IsAround
<1>13. PICK a \in Seq(Seq(NotOurs(H))), b \in Seq(Seq(NotOurs(H))) : m = (a \o <<K(g)>>) \o b
  BY <1>12
<1>14. IsCurrent(m) /\ Merge(m) = m
  <2>1. Found(m) = {<<Len(a) + 1, Len(c) + 1>>} /\ m[Len(a) + 1][Len(c) + 1] = CurrentHook
    <3>1. OneAmong(H, a, b, c, d, K(g), m)
      BY <1>6, <1>13 DEF OneAmong
    <3> QED BY <3>1, FoundInOne
  <2>2. Len(a) + 1 \in Nat /\ Len(c) + 1 \in Nat
    OBVIOUS
  <2> QED BY <1>11, <2>1, <2>2, NothingToDo
<1>15. TheirsOf(m) = TheirsOf(groups)
  <2> DEFINE F == LeftIn(H)
             L == Seq(H)
  <2>1. F \in [L -> Seq(H)] /\ TheirsOf(m) = FlatMap(F, m) /\ TheirsOf(groups) = FlatMap(F, groups)
    BY <1>11, TheirsIs
  <2>2. \A x \in L : F[x] = TheirsIn(x)
    BY DEF LeftIn
  <2>3. parts \in Seq(Seq(L)) /\ \A i \in 1..Len(groups) : groups[i] \in L /\ K(i) \in L
    BY <1>3, <1>7, <1>9
  <2> HIDE DEF F, L
  <2>4. ASSUME NEW i \in 1..Len(groups) PROVE FlatMap(F, parts[i]) = F[groups[i]]
    <3>1. F[K(i)] = F[groups[i]]
      BY <1>7, <2>2, <2>3
    <3>2. CASE K(i) = <<>> /\ groups[i] # <<>>
      <4>1. FlatMap(F, parts[i]) = <<>>
        BY <1>10, <3>2, FlatMapEmpty
      <4>2. TheirsIn(<<>>) = <<>>
        <5>1. <<>> \in Seq(H)
          OBVIOUS
        <5>2. TheirsIn(<<>>) = FlatMap(Left(H), <<>>)
          BY <5>1, TheirsIs
        <5> QED BY <5>2, FlatMapEmpty
      <4>3. F[K(i)] = TheirsIn(K(i))
        BY <2>2, <2>3
      <4> QED BY <3>1, <3>2, <4>1, <4>2, <4>3
    <3>3. CASE ~(K(i) = <<>> /\ groups[i] # <<>>)
      <4>1. parts[i] = <<K(i)>>
        BY <1>10, <3>3
      <4>2. FlatMap(F, <<K(i)>>) = F[K(i)]
        BY <2>1, <2>3, FlatMapOne
      <4> QED BY <3>1, <4>1, <4>2
    <3> QED BY <3>2, <3>3
  <2>5. F \in [L -> Seq(H)] /\ parts \in Seq(Seq(L)) /\ groups \in Seq(L) /\ Len(groups) = Len(parts)
    BY <1>9, <2>1, <2>3 DEF L
  <2>6. \A i \in 1..Len(parts) : FlatMap(F, parts[i]) = F[groups[i]]
    BY <2>4, <2>5
  <2>7. FlatMap(F, FlattenSeq(parts)) = FlatMap(F, groups)
    <3>1. SameMade(F, L, H, parts, groups)
      BY <2>5, <2>6 DEF SameMade
    <3> QED BY <3>1, FlatMapThroughParts
  <2> QED BY <1>9, <2>1, <2>7
<1>16. Cardinality({i \in DOMAIN m : m[i] = <<>>}) = Cardinality({i \in DOMAIN groups : groups[i] = <<>>})
  <2> DEFINE F == Empties(H)
             L == Seq(H)
  <2>1. F \in [L -> Seq(L)] /\ Len(FlatMap(F, m)) = Cardinality({i \in DOMAIN m : m[i] = <<>>})
        /\ Len(FlatMap(F, groups)) = Cardinality({i \in DOMAIN groups : groups[i] = <<>>})
    BY <1>11, EmptiesAreCounted
  <2>2. \A x \in L : F[x] = IF x = <<>> THEN <<x>> ELSE <<>>
    BY DEF Empties
  <2>3. parts \in Seq(Seq(L)) /\ \A i \in 1..Len(groups) : groups[i] \in L /\ K(i) \in L
    BY <1>3, <1>7, <1>9
  <2>4. ASSUME NEW i \in 1..Len(groups), groups[i] = <<>> PROVE K(i) = <<>>
    <3>1. 1..Len(groups[i]) = {} /\ Len(groups[i]) = 0
      BY <2>4
    <3> DEFINE ps == KeptParts(groups, i)
    <3>2. K(i) = FlattenSeq(ps)
      BY KeptIs DEF K
    <3>3. ps = <<>>
      BY <3>1 DEF KeptParts
    <3> QED BY <3>2, <3>3, FlattenEmpty
  <2> HIDE DEF F, L
  <2>5. ASSUME NEW i \in 1..Len(groups) PROVE FlatMap(F, parts[i]) = F[groups[i]]
    <3>1. CASE K(i) = <<>> /\ groups[i] # <<>>
      <4>1. FlatMap(F, parts[i]) = <<>>
        BY <1>10, <3>1, FlatMapEmpty
      <4> QED BY <2>2, <2>3, <3>1, <4>1
    <3>2. CASE ~(K(i) = <<>> /\ groups[i] # <<>>)
      <4>1. parts[i] = <<K(i)>>
        BY <1>10, <3>2
      <4>2. FlatMap(F, <<K(i)>>) = F[K(i)]
        BY <2>1, <2>3, FlatMapOne
      <4>3. F[K(i)] = F[groups[i]]
        BY <2>2, <2>3, <2>4, <3>2
      <4> QED BY <4>1, <4>2, <4>3
    <3> QED BY <3>1, <3>2
  <2>6. F \in [L -> Seq(L)] /\ parts \in Seq(Seq(L)) /\ groups \in Seq(L) /\ Len(groups) = Len(parts)
    BY <1>9, <2>1, <2>3 DEF L
  <2>7. \A i \in 1..Len(parts) : FlatMap(F, parts[i]) = F[groups[i]]
    BY <2>5, <2>6
  <2>8. FlatMap(F, FlattenSeq(parts)) = FlatMap(F, groups)
    <3>1. SameMade(F, L, L, parts, groups)
      BY <2>6, <2>7 DEF SameMade
    <3> QED BY <3>1, FlatMapThroughParts
  <2> QED BY <1>9, <2>1, <2>8
<1> QED BY <1>14, <1>15, <1>16 DEF CleansUp, m

\* An install, whatever there was.
LEMMA InstallCleansUp ==
  ASSUME NEW H, CurrentHook \in H, NEW groups \in Seq(Seq(H))
  PROVE  CleansUp(groups)
<1>1. CASE Found(groups) = {}
  BY <1>1, FirstInstall
<1>2. CASE Found(groups) # {}
  BY <1>2, LaterInstall
<1> QED BY <1>1, <1>2

AnyHook == {CurrentHook} \cup Leftovers \cup Theirs
HookOfGroup == [hook : AnyHook, group : {"same", "new", "empty"}]

LEMMA AddToType ==
  ASSUME NEW groups \in Seq(Seq(AnyHook)), NEW x \in HookOfGroup
  PROVE  AddTo(groups, x) \in Seq(Seq(AnyHook))
<1> DEFINE h == x.hook
           N == Len(groups)
<1>1. h \in AnyHook /\ N \in Nat
  BY DEF HookOfGroup
<1> HIDE DEF h, AnyHook
<1>2. CASE x.group = "empty"
  <2>1. AddTo(groups, x) = Append(groups, <<>>)
    BY <1>2 DEF AddTo
  <2>2. <<>> \in Seq(AnyHook)
    OBVIOUS
  <2> QED BY <2>1, <2>2
<1>3. CASE x.group # "empty" /\ (x.group = "new" \/ groups = <<>>)
  <2>1. AddTo(groups, x) = Append(groups, <<h>>)
    BY <1>3 DEF AddTo, h
  <2>2. <<h>> \in Seq(AnyHook)
    BY <1>1
  <2> QED BY <2>1, <2>2
<1>4. CASE x.group # "empty" /\ ~(x.group = "new" \/ groups = <<>>)
  <2>1. AddTo(groups, x) = [groups EXCEPT ![N] = Append(@, h)]
    BY <1>4 DEF AddTo, h
  <2>2. N \in 1..N /\ groups[N] \in Seq(AnyHook)
    BY <1>1, <1>4
  <2>3. Append(groups[N], h) \in Seq(AnyHook)
    BY <1>1, <2>2
  <2> DEFINE L == Seq(AnyHook)
             y == Append(groups[N], h)
  <2>4. [groups EXCEPT ![N] = y] \in Seq(L)
    <3>1. groups \in Seq(L) /\ y \in L
      BY <2>3
    <3> HIDE DEF L, y
    <3> QED BY <2>2, <3>1
  <2> QED BY <2>1, <2>4
<1> QED BY <1>2, <1>3, <1>4

LEMMA GroupsType ==
  ASSUME input \in Seq(HookOfGroup)
  PROVE  Groups \in Seq(Seq(AnyHook))
<1> DEFINE N == Len(input)
           A == Seq(Seq(AnyHook))
           base == <<>>
           Put(x, n) == AddTo(x, input[n])
           step == [n \in 1..N |-> [x \in A |-> Put(x, n)]]
           Filled(T) == [n \in 0..N |-> IF n = 0 THEN base ELSE Put(T[n - 1], n)]
           T0 == CHOOSE T : T = Filled(T)
<1>1. N \in Nat /\ \A n \in 1..N : input[n] \in HookOfGroup
  OBVIOUS
<1>2. base \in A
  OBVIOUS
<1>3. \A n \in 1..N : \A x \in A : Put(x, n) \in A
  BY <1>1, AddToType
<1> HIDE DEF base, A, Put
<1>4. step \in [1..N -> [A -> A]]
  <2> HIDE DEF N
  <2> QED BY <1>3
<1>5. PICK g \in [SUBSET (1..N) -> A] : IsFoldFunction(g, N, base, step)
  <2>1. N \in Nat
    BY <1>1
  <2> HIDE DEF step, N, T0, Filled
  <2> QED BY <2>1, <1>2, <1>4, FoldFunctionExists
<1> DEFINE t == [n \in 0..N |-> g[1..n]]
<1>6. \A n \in 0..N : t[n] \in A
  BY <1>1, <1>5
<1>7. t[0] = base
  <2>1. 1..0 = {} /\ 1..0 \in SUBSET (1..N) /\ 0 \in 0..N
    BY <1>1
  <2>2. g[1..0] = base
    BY <1>5, <2>1 DEF IsFoldFunction
  <2> QED BY <2>1, <2>2
<1>8. ASSUME NEW n \in 1..N PROVE t[n] = Put(t[n - 1], n)
  <2>1. 1..n # {} /\ Max(1..n) = n /\ (1..n) \ {n} = 1..(n-1)
    BY <1>1, IntervalSteps
  <2>2. 1..n \in SUBSET (1..N) /\ n \in 0..N /\ n - 1 \in 0..N
    BY <1>1
  <2>3. g[1..n] = step[n][g[1..(n-1)]]
    <3> HIDE DEF step, N
    <3> QED BY <1>5, <2>1, <2>2 DEF IsFoldFunction
  <2>4. t[n] = g[1..n] /\ t[n - 1] = g[1..(n-1)] /\ t[n - 1] \in A
    BY <1>6, <2>2
  <2> HIDE DEF t
  <2> QED BY <2>3, <2>4
<1>9. t = Filled(t)
  <2>1. \A n \in 0..N : n # 0 => n \in 1..N
    BY <1>1
  <2>2. t = [n \in 0..N |-> t[n]]
    OBVIOUS
  <2> HIDE DEF t, N
  <2>3. \A n \in 0..N : t[n] = IF n = 0 THEN base ELSE Put(t[n - 1], n)
    BY <1>7, <1>8, <2>1
  <2> QED BY <2>2, <2>3
<1>10. T0 = Filled(T0)
  <2> HIDE DEF Filled, t
  <2> QED BY <1>9, Zenon
<1>11. Groups = T0[N]
  BY Zenon DEF Groups, Put, base
<1> HIDE DEF T0
<1> DEFINE S == {n \in Nat : n <= N => T0[n] \in A}
<1>12. 0 \in S
  <2>1. 0 \in 0..N
    BY <1>1
  <2>2. T0[0] = base
    BY <1>10, <2>1
  <2> QED BY <1>2, <2>2
<1>13. ASSUME NEW n \in Nat, n \in S PROVE n + 1 \in S
  <2>1. SUFFICES ASSUME n + 1 <= N PROVE T0[n + 1] \in A
    OBVIOUS
  <2>2. n + 1 \in 1..N /\ n + 1 \in 0..N /\ n + 1 # 0 /\ (n + 1) - 1 = n /\ T0[n] \in A
    BY <1>1, <1>13, <2>1
  <2>3. T0[n + 1] = Put(T0[n], n + 1)
    BY <1>10, <2>2
  <2> QED BY <1>3, <2>2, <2>3
<1>14. T0[N] \in A
  <2>1. Nat \subseteq S
    <3> HIDE DEF S
    <3> QED BY <1>12, <1>13, NumbersByInduction
  <2> QED BY <1>1, <2>1
<1> QED BY <1>11, <1>14 DEF A

HooksTyped == algorithm = "hooks" => input \in Seq(HookOfGroup)

LEMMA HooksAreTyped ==
  /\ NoInput => HooksTyped
  /\ HooksTyped /\ [NextInput]_inputVars => HooksTyped'
<1>1. NoInput => HooksTyped
  <2>1. <<>> \in Seq(HookOfGroup)
    OBVIOUS
  <2> QED BY <2>1 DEF NoInput, HooksTyped
<1>2. ASSUME HooksTyped, [NextInput]_inputVars PROVE HooksTyped'
  <2>1. CASE NextHook
    <3>1. PICK hook \in AnyHook, group \in {"same", "new", "empty"} :
             algorithm = "hooks" /\ input' = Append(input, [hook |-> hook, group |-> group])
      BY <2>1 DEF NextHook, Grow, AnyHook
    <3>2. [hook |-> hook, group |-> group] \in HookOfGroup
      BY DEF HookOfGroup
    <3>3. input \in Seq(HookOfGroup)
      BY <1>2, <3>1 DEF HooksTyped
    <3>4. Append(input, [hook |-> hook, group |-> group]) \in Seq(HookOfGroup)
      BY <3>2, <3>3
    <3> QED BY <3>1, <3>4 DEF HooksTyped
  <2>2. CASE NextObservation \/ NextLine \/ NextTurn
    <3>1. algorithm # "hooks" /\ algorithm' = algorithm
      BY <2>2 DEF NextObservation, NextLine, NextTurn, Grow
    <3> QED BY <3>1 DEF HooksTyped
  <2>3. CASE UNCHANGED inputVars
    BY <1>2, <2>3 DEF HooksTyped, inputVars
  <2> QED BY <1>2, <2>1, <2>2, <2>3 DEF NextInput
<1> QED BY <1>1, <1>2

\* Whatever hooks an event has, an install leaves one entry of ours, the current
\* one, and all of the user's in their order; a second install changes nothing,
\* and no group that the user left empty goes (_merge_nudge_hook,
\* _merge_server_hook).
THEOREM InstallsAreClean == Inputs => []MergeIsClean
<1>1. HooksTyped => MergeIsClean
  <2> SUFFICES ASSUME HooksTyped, algorithm = "hooks" PROVE CleansUp(Groups)
    BY DEF MergeIsClean
  <2>1. Groups \in Seq(Seq(AnyHook))
    BY GroupsType DEF HooksTyped
  <2>2. CurrentHook \in AnyHook
    BY DEF AnyHook
  <2> QED BY <2>1, <2>2, InstallCleansUp
<1> QED BY <1>1, HooksAreTyped, PTL DEF Inputs

-----------------------------------------------------------------------------
(* KeyedCache: what an update of a file of entries does to them.           *)

\* No key twice.
KeysApart(entries) ==
    \A i, j \in 1..Len(entries) : entries[i].key = entries[j].key => i = j

\* A file of entries without a key twice has as many keys as entries.
LEMMA KeysAreCounted ==
  ASSUME NEW entries \in Seq(KeyedEntry), KeysApart(entries)
  PROVE  Cardinality(KeysOf(entries)) = Len(entries)
<1> DEFINE n == Len(entries)
           K == KeysOf(entries)
           f == [i \in 1..n |-> entries[i].key]
<1>1. n \in Nat /\ DOMAIN entries = 1..n
  OBVIOUS
<1>2. K = {entries[i].key : i \in 1..n}
  BY <1>1 DEF KeysOf
<1>3. f \in [1..n -> K] /\ \A i \in 1..n : f[i] = entries[i].key
  BY <1>2
<1>4. \A i, j \in 1..n : f[i] = f[j] => i = j
  BY <1>3 DEF KeysApart
<1>5. \A k \in K : \E i \in 1..n : f[i] = k
  BY <1>2, <1>3
<1> HIDE DEF f, K, n
<1>6. f \in Bijection(1..n, K)
  BY <1>3, <1>4, <1>5 DEF Bijection, Injection, Surjection, IsInjective
<1>7. ExistsBijection(1..n, K)
  BY <1>6 DEF ExistsBijection
<1>8. IsFiniteSet(1..n) /\ Cardinality(1..n) = n
  BY <1>1, FS_Interval
<1>9. Cardinality(K) = Cardinality(1..n)
  BY <1>7, <1>8, FS_Bijection
<1> QED BY <1>8, <1>9 DEF K, n

\* The part of what remains that an entry makes.
RemainingPart(gone) == [e \in KeyedEntry |-> IF e \in gone THEN <<>> ELSE <<e>>]

\* What remains of entries of which some go, one by one.
LEMMA RemainingAre ==
  ASSUME NEW gone, NEW entries \in Seq(KeyedEntry)
  PROVE  /\ MapsTo(RemainingPart(gone), KeyedEntry, KeyedEntry)
         /\ Remaining(entries, gone) = FlatMap(RemainingPart(gone), entries)
         /\ Remaining(entries, gone) \in Seq(KeyedEntry)
<1>1. RemainingPart(gone) \in [KeyedEntry -> Seq(KeyedEntry)]
  BY DEF RemainingPart
<1>2. DOMAIN entries = 1..Len(entries) /\ \A i \in 1..Len(entries) : entries[i] \in KeyedEntry
  OBVIOUS
<1> DEFINE ss == [i \in 1..Len(entries) |-> RemainingPart(gone)[entries[i]]]
           tt == [i \in DOMAIN entries |-> IF entries[i] \in gone THEN <<>> ELSE <<entries[i]>>]
<1>3. ss = tt
  BY <1>2 DEF RemainingPart
<1>4. Remaining(entries, gone) = FlattenSeq(tt)
  BY Zenon DEF Remaining
<1>5. FlatMap(RemainingPart(gone), entries) = FlattenSeq(ss)
  BY Zenon DEF FlatMap
<1>6. FlatMap(RemainingPart(gone), entries) \in Seq(KeyedEntry)
  BY <1>1, FlatMapType
<1> HIDE DEF ss, tt
<1> QED BY <1>1, <1>3, <1>4, <1>5, <1>6 DEF MapsTo

\* What remains of two sequences, one after the other.
LEMMA RemainingOfBoth ==
  ASSUME NEW gone, NEW s \in Seq(KeyedEntry), NEW t \in Seq(KeyedEntry)
  PROVE  Remaining(s \o t, gone) = Remaining(s, gone) \o Remaining(t, gone)
<1> DEFINE F == RemainingPart(gone)
           E == KeyedEntry
<1>1. s \o t \in Seq(E)
  OBVIOUS
<1>2. MapsTo(F, E, E) /\ Remaining(s, gone) = FlatMap(F, s) /\ Remaining(t, gone) = FlatMap(F, t)
      /\ Remaining(s \o t, gone) = FlatMap(F, s \o t)
  BY <1>1, RemainingAre
<1>3. s \in Seq(E) /\ t \in Seq(E)
  OBVIOUS
<1> HIDE DEF F, E
<1>4. FlatMap(F, s \o t) = FlatMap(F, s) \o FlatMap(F, t)
  BY <1>2, <1>3, FlatMapConcat
<1> QED BY <1>2, <1>4

\* Where none goes, all remain.
LEMMA RemainingAll ==
  ASSUME NEW gone, NEW s \in Seq(KeyedEntry), \A i \in 1..Len(s) : s[i] \notin gone
  PROVE  Remaining(s, gone) = s
<1>1. DOMAIN s = 1..Len(s)
  OBVIOUS
<1>2. [i \in DOMAIN s |-> IF s[i] \in gone THEN <<>> ELSE <<s[i]>>] = [i \in 1..Len(s) |-> <<s[i]>>]
  BY <1>1
<1>3. FlattenSeq([i \in 1..Len(s) |-> <<s[i]>>]) = s
  BY FlattenSingles
<1> QED BY <1>2, <1>3 DEF Remaining

\* Where all go, none remains.
LEMMA RemainingNone ==
  ASSUME NEW gone, NEW s \in Seq(KeyedEntry), \A i \in 1..Len(s) : s[i] \in gone
  PROVE  Remaining(s, gone) = <<>>
<1> DEFINE ss == [i \in 1..Len(s) |-> <<>>]
<1>1. DOMAIN s = 1..Len(s) /\ Len(s) \in Nat
  OBVIOUS
<1>2. [i \in DOMAIN s |-> IF s[i] \in gone THEN <<>> ELSE <<s[i]>>] = ss
  BY <1>1
<1>3. Remaining(s, gone) = FlattenSeq(ss)
  BY <1>2 DEF Remaining
<1>4. ss \in Seq(Seq(KeyedEntry)) /\ \A i \in 1..Len(ss) : Range(ss[i]) = {}
  <2>1. <<>> \in Seq(KeyedEntry) /\ Range(<<>>) = {}
    BY DEF Range
  <2>2. ss \in Seq(Seq(KeyedEntry)) /\ \A i \in 1..Len(ss) : ss[i] = <<>>
    BY <1>1, <2>1
  <2> QED BY <2>1, <2>2
<1> HIDE DEF ss
<1>5. /\ FlattenSeq(ss) \in Seq(KeyedEntry)
      /\ Range(FlattenSeq(ss)) = UNION {Range(ss[i]) : i \in 1..Len(ss)}
  BY <1>4, FlattenHolds
<1>6. Range(FlattenSeq(ss)) = {}
  BY <1>4, <1>5
<1> DEFINE x == FlattenSeq(ss)
<1>7. x \in Seq(KeyedEntry) /\ Range(x) = {}
  BY <1>5, <1>6
<1> HIDE DEF x
<1>8. x = <<>>
  <2>1. Len(x) \in Nat /\ DOMAIN x = 1..Len(x)
    BY <1>7
  <2>2. Len(x) = 0
    <3> SUFFICES ASSUME Len(x) # 0 PROVE FALSE
      OBVIOUS
    <3>1. 1 \in DOMAIN x
      BY <2>1
    <3>2. x[1] \in Range(x)
      BY <3>1 DEF Range
    <3> QED BY <1>7, <3>2
  <2> QED BY <1>7, <2>2
<1> QED BY <1>3, <1>8 DEF x

\* The entries that remain are those that do not go.
LEMMA RemainingHolds ==
  ASSUME NEW gone, NEW s \in Seq(KeyedEntry)
  PROVE  Range(Remaining(s, gone)) = Range(s) \ gone
<1> DEFINE ss == [j \in 1..Len(s) |-> IF s[j] \in gone THEN <<>> ELSE <<s[j]>>]
           o == Remaining(s, gone)
<1>1. DOMAIN s = 1..Len(s) /\ Len(s) \in Nat /\ \A j \in 1..Len(s) : s[j] \in KeyedEntry
  OBVIOUS
<1>2. o = FlattenSeq(ss)
  BY <1>1 DEF Remaining
<1>3. ss \in Seq(Seq(KeyedEntry)) /\ Len(ss) = Len(s)
      /\ \A j \in 1..Len(s) : ss[j] = IF s[j] \in gone THEN <<>> ELSE <<s[j]>>
  BY <1>1
<1> HIDE DEF ss, o
<1>4. Range(o) = UNION {Range(ss[j]) : j \in 1..Len(ss)}
  BY <1>2, <1>3, FlattenHolds
<1>5. ASSUME NEW j \in 1..Len(s) PROVE Range(ss[j]) = {s[j]} \ gone
  <2>1. CASE s[j] \in gone
    <3>1. ss[j] = <<>>
      BY <1>3, <2>1
    <3>2. Range(<<>>) = {}
      BY DEF Range
    <3> QED BY <2>1, <3>1, <3>2
  <2>2. CASE s[j] \notin gone
    <3> DEFINE x == s[j]
    <3>1. ss[j] = <<x>> /\ {x} \ gone = {x}
      BY <1>3, <2>2
    <3> HIDE DEF x
    <3>2. Range(<<x>>) = {x}
      BY DEF Range
    <3> QED BY <3>1, <3>2 DEF x
  <2> QED BY <2>1, <2>2
<1>6. Range(s) = {s[j] : j \in 1..Len(s)}
  BY <1>1 DEF Range
<1>7. Range(o) = Range(s) \ gone
  BY <1>3, <1>4, <1>5, <1>6
<1> QED BY <1>7 DEF o

\* An entry that remains is one of the entries, and does not go.
LEMMA RemainingAreAmong ==
  ASSUME NEW gone, NEW s \in Seq(KeyedEntry), NEW i \in 1..Len(Remaining(s, gone))
  PROVE  /\ Remaining(s, gone)[i] \notin gone
         /\ \E j \in 1..Len(s) : Remaining(s, gone)[i] = s[j]
<1> DEFINE o == Remaining(s, gone)
<1>1. o \in Seq(KeyedEntry) /\ Range(o) = Range(s) \ gone
  BY RemainingAre, RemainingHolds
<1> HIDE DEF o
<1>2. o[i] \in Range(o)
  BY <1>1 DEF Range, o
<1>3. DOMAIN s = 1..Len(s)
  OBVIOUS
<1> QED BY <1>1, <1>2, <1>3 DEF Range, o

\* Where no key is twice, none is in what remains.
LEMMA RemainingApart ==
  ASSUME NEW gone, NEW s \in Seq(KeyedEntry), KeysApart(s)
  PROVE  KeysApart(Remaining(s, gone))
<1> DEFINE N == Len(s)
           ss == [j \in 1..N |-> IF s[j] \in gone THEN <<>> ELSE <<s[j]>>]
<1>1. DOMAIN s = 1..N /\ N \in Nat /\ \A j \in 1..N : s[j] \in KeyedEntry
  OBVIOUS
<1>2. Remaining(s, gone) = FlattenSeq(ss)
  BY <1>1 DEF Remaining
<1>3. ss \in Seq(Seq(KeyedEntry)) /\ Len(ss) = N
      /\ \A j \in 1..N : ss[j] = IF s[j] \in gone THEN <<>> ELSE <<s[j]>>
  BY <1>1
<1> HIDE DEF ss
<1>4. PICK f : f \in [0..Len(ss) -> Seq(KeyedEntry)] /\ IsFlatOf(f, ss)
  BY <1>3, FlattenSteps
<1> DEFINE Good(n) == /\ KeysApart(f[n])
                      /\ \A i \in 1..Len(f[n]) : \E j \in 1..n : f[n][i].key = s[j].key
           S == {n \in Nat : n <= N => Good(n)}
<1>5. 0 \in S
  <2>1. f[0] = <<>> /\ Len(f[0]) = 0
    BY <1>4 DEF IsFlatOf
  <2> QED BY <2>1 DEF KeysApart
<1>6. ASSUME NEW n \in Nat, n \in S PROVE n + 1 \in S
  <2>1. SUFFICES ASSUME n + 1 <= N PROVE Good(n + 1)
    OBVIOUS
  <2>2. n + 1 \in 1..N /\ (n + 1) - 1 = n /\ n \in 0..N /\ Good(n)
    BY <1>1, <1>6, <2>1
  <2>3. f[n + 1] = f[n] \o ss[n + 1] /\ f[n] \in Seq(KeyedEntry)
    BY <1>3, <1>4, <2>2 DEF IsFlatOf
  <2>4. CASE s[n + 1] \in gone
    <3>1. ss[n + 1] = <<>>
      BY <1>3, <2>2, <2>4
    <3>2. f[n + 1] = f[n]
      BY <2>3, <3>1, ConcatEmptySeq
    <3>3. \A j \in 1..n : j \in 1..(n + 1)
      OBVIOUS
    <3> QED BY <2>2, <3>2, <3>3
  <2>5. CASE s[n + 1] \notin gone
    <3> DEFINE e == s[n + 1]
               a == f[n]
               b == f[n + 1]
    <3>1. b = a \o <<e>> /\ e \in KeyedEntry /\ a \in Seq(KeyedEntry)
      BY <1>1, <1>3, <2>2, <2>3, <2>5
    <3> HIDE DEF e, a, b
    <3>2. Len(b) = Len(a) + 1 /\ b[Len(a) + 1] = e /\ Len(a) \in Nat
          /\ \A i \in 1..Len(a) : b[i] = a[i]
      BY <3>1
    <3>3. \A i \in 1..Len(a) : a[i].key # e.key
      <4> SUFFICES ASSUME NEW i \in 1..Len(a), a[i].key = e.key PROVE FALSE
        OBVIOUS
      <4>1. PICK j \in 1..n : a[i].key = s[j].key
        BY <2>2 DEF a
      <4>2. s[j].key = s[n + 1].key /\ j \in 1..N /\ n + 1 \in 1..N
        BY <1>1, <2>2, <4>1 DEF e
      <4>3. j = n + 1
        BY <4>2 DEF KeysApart
      <4> QED BY <4>3
    <3>4. KeysApart(b)
      <4>1. KeysApart(a)
        BY <2>2 DEF a
      <4> SUFFICES ASSUME NEW i \in 1..Len(b), NEW j \in 1..Len(b), b[i].key = b[j].key PROVE i = j
        BY DEF KeysApart
      <4>2. (i \in 1..Len(a) \/ i = Len(a) + 1) /\ (j \in 1..Len(a) \/ j = Len(a) + 1)
        BY <3>2
      <4> QED BY <3>2, <3>3, <4>1, <4>2 DEF KeysApart
    <3>5. ASSUME NEW i \in 1..Len(b) PROVE \E j \in 1..(n + 1) : b[i].key = s[j].key
      <4>1. CASE i = Len(a) + 1
        BY <3>2, <4>1 DEF e
      <4>2. CASE i \in 1..Len(a)
        <5>1. PICK j \in 1..n : a[i].key = s[j].key
          BY <2>2, <4>2 DEF a
        <5> QED BY <3>2, <4>2, <5>1
      <4> QED BY <3>2, <4>1, <4>2
    <3> QED BY <3>4, <3>5 DEF b
  <2> QED BY <2>4, <2>5
<1>7. Good(N)
  <2> HIDE DEF Good
  <2>1. Nat \subseteq S
    <3> HIDE DEF S
    <3> QED BY <1>5, <1>6, NumbersByInduction
  <2> QED BY <1>1, <2>1
<1>8. FlattenSeq(ss) = f[N]
  BY <1>3, <1>4 DEF IsFlatOf
<1> QED BY <1>2, <1>7, <1>8

\* The entries a job makes, in some order, each once.
LEMMA MadeInOrder ==
  ASSUME NEW job \in SUBSET Keys, NEW value \in 0..MaxSpend, NEW now \in 0..MaxSpend
  PROVE  /\ SetToSeq(Made(job, value, now)) \in Seq(KeyedEntry)
         /\ KeysApart(SetToSeq(Made(job, value, now)))
         /\ \A i \in 1..Len(SetToSeq(Made(job, value, now))) : SetToSeq(Made(job, value, now))[i].key \in job
<1> DEFINE M == Made(job, value, now)
           n == Cardinality(M)
           s == SetToSeq(M)
<1>1. IsFiniteSet(job)
  BY KeyedAssumption, FS_Subset
<1>2. IsFiniteSet(M) /\ n \in Nat /\ ExistsBijection(1..n, M)
  <2>1. [k \in job |-> [key |-> k, value |-> value, at |-> now]] \in Bijection(job, M)
    BY DEF Bijection, Injection, Surjection, IsInjective, Made
  <2>2. ExistsBijection(job, M)
    BY <2>1 DEF ExistsBijection
  <2>3. IsFiniteSet(M)
    <3> HIDE DEF M
    <3> QED BY <1>1, <2>2, FS_Bijection
  <2> HIDE DEF M
  <2> QED BY <2>3, FS_CardinalityType
<1> HIDE DEF M, n
<1>3. \E f \in [1..n -> M] : IsInjective(f)
  BY <1>2 DEF ExistsBijection, Bijection, Injection
<1>4. s \in [1..n -> M] /\ IsInjective(s)
  BY <1>3 DEF SetToSeq, n
<1> HIDE DEF s
<1>5. \A e \in M : e \in KeyedEntry /\ e.key \in job /\ e = [key |-> e.key, value |-> value, at |-> now]
  BY DEF M, Made, KeyedEntry
<1>6. s \in Seq(KeyedEntry) /\ Len(s) = n /\ DOMAIN s = 1..n
  BY <1>2, <1>4, <1>5
<1>7. KeysApart(s)
  BY <1>4, <1>5, <1>6 DEF KeysApart, IsInjective
<1> QED BY <1>4, <1>5, <1>6, <1>7 DEF s, M

\* Apart, and apart from each other.
LEMMA JoinedApart ==
  ASSUME NEW s \in Seq(KeyedEntry), NEW t \in Seq(KeyedEntry), KeysApart(s), KeysApart(t),
         \A i \in 1..Len(s) : \A j \in 1..Len(t) : s[i].key # t[j].key
  PROVE  KeysApart(s \o t)
<1> DEFINE u == s \o t
<1>1. Len(s) \in Nat /\ Len(t) \in Nat /\ Len(u) = Len(s) + Len(t)
  OBVIOUS
<1>2. \A i \in 1..Len(u) : \/ i \in 1..Len(s) /\ u[i] = s[i]
                           \/ i - Len(s) \in 1..Len(t) /\ u[i] = t[i - Len(s)]
  BY <1>1
<1> HIDE DEF u
<1> SUFFICES ASSUME NEW i \in 1..Len(u), NEW j \in 1..Len(u), u[i].key = u[j].key PROVE i = j
  BY DEF KeysApart, u
<1>3. CASE i \in 1..Len(s) /\ u[i] = s[i]
  <2>1. j \in 1..Len(s) /\ u[j] = s[j]
    BY <1>2, <1>3
  <2> QED BY <1>3, <2>1 DEF KeysApart
<1>4. CASE i - Len(s) \in 1..Len(t) /\ u[i] = t[i - Len(s)]
  <2>1. j - Len(s) \in 1..Len(t) /\ u[j] = t[j - Len(s)]
    BY <1>2, <1>4
  <2>2. i - Len(s) = j - Len(s)
    BY <1>4, <2>1 DEF KeysApart
  <2> QED BY <1>1, <2>2
<1> QED BY <1>2, <1>3, <1>4

\* The entries of a copy that an update writes again.
Unchanged(copy, job, now) == Remaining(copy, Remade(job) \cup Outdated(now))

\* What goes into the file before the windows shed any.
Unshed(copy, job, value, now) == Unchanged(copy, job, now) \o SetToSeq(Made(job, value, now))

\* They are the others, but for session counts that are outdated.
LEMMA UnchangedAre ==
  ASSUME NEW copy \in Seq(KeyedEntry), NEW job, NEW now \in 0..MaxSpend
  PROVE  /\ kind # "sessions" => Unchanged(copy, job, now) = Others(copy, job)
         /\ kind = "sessions" => Range(Unchanged(copy, job, now))
                                    = {e \in Range(Others(copy, job)) : e.at >= now}
<1>1. ASSUME kind # "sessions" PROVE Remade(job) \cup Outdated(now) = Remade(job)
  BY <1>1 DEF Outdated
<1>2. ASSUME kind = "sessions"
      PROVE  Range(Unchanged(copy, job, now)) = {e \in Range(Others(copy, job)) : e.at >= now}
  <2>1. Range(Unchanged(copy, job, now)) = Range(copy) \ (Remade(job) \cup Outdated(now))
    BY RemainingHolds DEF Unchanged
  <2>2. Range(Others(copy, job)) = Range(copy) \ Remade(job)
    BY RemainingHolds DEF Others
  <2>3. \A e \in Range(copy) : e \in KeyedEntry
    <3>1. DOMAIN copy = 1..Len(copy) /\ \A i \in 1..Len(copy) : copy[i] \in KeyedEntry
      OBVIOUS
    <3> QED BY <3>1 DEF Range
  <2>4. \A e \in KeyedEntry : e \in Outdated(now) <=> ~(e.at >= now)
    <3>1. \A e \in KeyedEntry : e.at \in Nat
      BY KeyedAssumption DEF KeyedEntry
    <3>2. now \in Nat
      BY KeyedAssumption
    <3>3. \A e \in KeyedEntry : e.at < now <=> ~(e.at >= now)
      BY <3>1, <3>2
    <3> QED BY <1>2, <3>3 DEF Outdated
  <2> QED BY <2>1, <2>2, <2>3, <2>4
<1> QED BY <1>1, <1>2 DEF Unchanged, Others

\* What an update comes to before the windows shed any.
LEMMA UnshedIs ==
  ASSUME NEW copy \in Seq(KeyedEntry), NEW job \in SUBSET Keys, NEW value \in 0..MaxSpend,
         NEW now \in 0..MaxSpend
  PROVE  /\ Unshed(copy, job, value, now) \in Seq(KeyedEntry)
         /\ KeysApart(copy) => KeysApart(Unshed(copy, job, value, now))
         /\ Others(Unshed(copy, job, value, now), job) = Unchanged(copy, job, now)
<1> DEFINE o == Unchanged(copy, job, now)
           m == SetToSeq(Made(job, value, now))
           G == Remade(job)
<1>1. o \in Seq(KeyedEntry)
  BY RemainingAre DEF Unchanged
<1>2. m \in Seq(KeyedEntry) /\ KeysApart(m) /\ \A i \in 1..Len(m) : m[i].key \in job
  BY MadeInOrder
<1>3. \A i \in 1..Len(o) : o[i] \notin G
  BY RemainingAreAmong DEF Unchanged
<1>4. KeysApart(copy) => KeysApart(o)
  BY RemainingApart DEF Unchanged
<1>5. \A e \in KeyedEntry : e \in G <=> e.key \in job
  BY DEF Remade
<1> HIDE DEF o, m, G
<1>6. o \o m \in Seq(KeyedEntry)
  BY <1>1, <1>2
<1>7. (\A i \in 1..Len(o) : o[i].key \notin job) /\ (\A i \in 1..Len(m) : m[i] \in G)
  <2>1. (\A i \in 1..Len(o) : o[i] \in KeyedEntry) /\ (\A i \in 1..Len(m) : m[i] \in KeyedEntry)
    BY <1>1, <1>2
  <2> QED BY <1>2, <1>3, <1>5, <2>1
<1>8. KeysApart(copy) => KeysApart(o \o m)
  BY <1>1, <1>2, <1>4, <1>7, JoinedApart
<1>9. Remaining(o \o m, G) = o
  <2>1. Remaining(o \o m, G) = Remaining(o, G) \o Remaining(m, G)
    BY <1>1, <1>2, RemainingOfBoth
  <2>2. Remaining(o, G) = o
    BY <1>1, <1>3, RemainingAll
  <2>3. Remaining(m, G) = <<>>
    BY <1>2, <1>7, RemainingNone
  <2> QED BY <1>1, <2>1, <2>2, <2>3, ConcatEmptySeq
<1> QED BY <1>6, <1>8, <1>9 DEF o, m, G, Unshed, Others

\* The end of a sequence.
IsEnd(t, s, n, L) ==
    /\ t \in Seq(L) /\ Len(t) = n
    /\ \A i \in 1..n : Len(s) - n + i \in 1..Len(s) /\ t[i] = s[Len(s) - n + i]
    /\ \E u \in Seq(L) : s = u \o t

\* What SubSeq leaves of a sequence is an end of it.
LEMMA EndOf ==
  ASSUME NEW L, NEW s \in Seq(L), NEW n \in Nat, n < Len(s)
  PROVE  IsEnd(SubSeq(s, Len(s) - n + 1, Len(s)), s, n, L)
<1> DEFINE d == Len(s) - n
           u == SubSeq(s, 1, d)
           t == SubSeq(s, Len(s) - n + 1, Len(s))
<1>1. d \in Nat /\ d >= 1 /\ Len(s) \in Nat /\ d <= Len(s)
  OBVIOUS
<1>2. t \in Seq(L) /\ Len(t) = n /\ \A i \in 1..n : d + i \in 1..Len(s) /\ t[i] = s[d + i]
  BY <1>1
<1>3. u \in Seq(L) /\ Len(u) = d /\ \A i \in 1..d : u[i] = s[i]
  BY <1>1
<1> HIDE DEF u, t
<1>4. s = u \o t
  <2>0. d + n = Len(s) /\ Len(u) = d /\ Len(t) = n /\ d \in Nat /\ n \in Nat
    BY <1>1, <1>2, <1>3
  <2>t. u \in Seq(L) /\ t \in Seq(L)
    BY <1>2, <1>3
  <2>1. u \o t \in Seq(L) /\ Len(u \o t) = Len(s)
    <3> HIDE DEF d
    <3> QED BY <2>0, <2>t
  <2>2. ASSUME NEW i \in 1..Len(s) PROVE (u \o t)[i] = s[i]
    <3>1. CASE i <= d
      <4> HIDE DEF d
      <4>1. i \in 1..d
        BY <2>0, <3>1
      <4>2. (u \o t)[i] = u[i]
        BY <2>0, <2>t, <4>1
      <4> QED BY <1>3, <4>1, <4>2
    <3>2. CASE i > d
      <4>1. i - d \in 1..n /\ d + (i - d) = i
        BY <1>1, <3>2
      <4>2. (u \o t)[i] = t[i - d]
        <5> HIDE DEF d
        <5> QED BY <2>0, <2>t, <3>2
      <4> DEFINE k == i - d
      <4>3. k \in 1..n /\ d + k = i /\ (u \o t)[i] = t[k]
        BY <4>1, <4>2
      <4> HIDE DEF k, d
      <4>4. t[k] = s[d + k]
        BY <1>2, <4>3
      <4> QED BY <4>3, <4>4
    <3>3. i <= d \/ i > d
      <4> HIDE DEF d
      <4> QED BY <2>0
    <3> QED BY <3>1, <3>2, <3>3
  <2> DEFINE w == u \o t
  <2>3. w \in Seq(L) /\ Len(w) = Len(s) /\ \A i \in 1..Len(s) : w[i] = s[i]
    BY <2>1, <2>2
  <2> HIDE DEF w
  <2>4. w = s
    BY <2>3
  <2> QED BY <2>4 DEF w
<1> QED BY <1>1, <1>2, <1>3, <1>4 DEF IsEnd, t

\* What follows a beginning is a suffix.
LEMMA IsSuffixOf ==
  ASSUME NEW L, NEW u \in Seq(L), NEW t \in Seq(L)
  PROVE  IsSuffix(t, u \o t)
<1> DEFINE s == u \o t
           r == Reverse(s)
           q == Reverse(t)
<1>1. s \in Seq(L) /\ Len(s) = Len(u) + Len(t) /\ Len(u) \in Nat /\ Len(t) \in Nat
      /\ \A i \in 1..Len(t) : s[Len(u) + i] = t[i]
  OBVIOUS
<1> HIDE DEF s
<1>2. r \in Seq(L) /\ Len(r) = Len(s) /\ \A i \in 1..Len(s) : r[i] = s[(Len(s) - i) + 1]
  BY <1>1 DEF Reverse
<1>3. q \in Seq(L) /\ Len(q) = Len(t) /\ \A i \in 1..Len(t) : q[i] = t[(Len(t) - i) + 1]
  BY DEF Reverse
<1> HIDE DEF r, q
<1>4. \A i \in 1..Len(t) : q[i] = r[i]
  <2> SUFFICES ASSUME NEW i \in 1..Len(t) PROVE q[i] = r[i]
    OBVIOUS
  <2>1. (Len(t) - i) + 1 \in 1..Len(t) /\ Len(u) + ((Len(t) - i) + 1) = (Len(s) - i) + 1 /\ i \in 1..Len(s)
    BY <1>1
  <2> QED BY <1>1, <1>2, <1>3, <2>1
<1>5. SubSeq(q, 1, Len(q)) = SubSeq(r, 1, Len(q))
  BY <1>1, <1>2, <1>3, <1>4
<1>6. IsPrefix(q, r)
  BY <1>1, <1>2, <1>3, <1>5 DEF IsPrefix
<1> QED BY <1>6 DEF IsSuffix, q, r, s

\* What an update does to a copy: how the entries it did not make, `is`, come
\* from those that were there, `was`.
LosesOnly(is, was, n, now) ==
    /\ kind = "bias" => is = was
    /\ kind = "windows" => IsSuffix(is, was) /\ (is = was \/ n = MaxEntries)
    /\ kind = "sessions" => Range(is) = {e \in Range(was) : e.at >= now}

LEMMA UpdatedIs ==
  ASSUME NEW copy \in Seq(KeyedEntry), KeysApart(copy), NEW job \in SUBSET Keys, NEW value \in 0..MaxSpend,
         NEW now \in 0..MaxSpend, NEW new, new = Updated(copy, job, value, now)
  PROVE  /\ new \in Seq(KeyedEntry) /\ KeysApart(new)
         /\ kind = "windows" => Len(new) <= MaxEntries
         /\ LosesOnly(Others(new, job), Others(copy, job), Len(new), now)
<1> DEFINE all == Unshed(copy, job, value, now)
           kept == Unchanged(copy, job, now)
           was == Others(copy, job)
<1>1. all \in Seq(KeyedEntry) /\ KeysApart(all) /\ Others(all, job) = kept
  BY UnshedIs
<1>2. new = IF kind = "windows" /\ Len(all) > MaxEntries
            THEN SubSeq(all, Len(all) - MaxEntries + 1, Len(all)) ELSE all
  BY Zenon DEF Updated, Unshed, Unchanged
<1>3. MaxEntries \in Nat /\ Len(all) \in Nat
  BY <1>1, KeyedAssumption
<1>4. was \in Seq(KeyedEntry)
  BY RemainingAre DEF Others
<1>5. /\ kind # "sessions" => kept = was
      /\ kind = "sessions" => Range(kept) = {e \in Range(was) : e.at >= now}
  BY UnchangedAre
<1> HIDE DEF all, kept, was
<1>6. CASE ~(kind = "windows" /\ Len(all) > MaxEntries)
  <2>1. new = all
    BY <1>2, <1>6
  <2>2. IsSuffix(was, <<>> \o was)
    <3>1. <<>> \in Seq(KeyedEntry)
      OBVIOUS
    <3> QED BY <1>4, <3>1, IsSuffixOf
  <2>3. <<>> \o was = was
    BY <1>4, ConcatEmptySeq
  <2>4. LosesOnly(kept, was, Len(new), now)
    BY <1>5, <2>2, <2>3 DEF LosesOnly
  <2> QED BY <1>1, <1>3, <1>6, <2>1, <2>4 DEF was
<1>7. CASE kind = "windows" /\ Len(all) > MaxEntries
  <2>1. new = SubSeq(all, Len(all) - MaxEntries + 1, Len(all)) /\ MaxEntries < Len(all)
    BY <1>2, <1>3, <1>7
  <2>2. /\ new \in Seq(KeyedEntry) /\ Len(new) = MaxEntries
        /\ \A i \in 1..MaxEntries : Len(all) - MaxEntries + i \in 1..Len(all) /\ new[i] = all[Len(all) - MaxEntries + i]
        /\ \E u \in Seq(KeyedEntry) : all = u \o new
    <3>1. IsEnd(new, all, MaxEntries, KeyedEntry)
      BY <1>1, <1>3, <2>1, EndOf
    <3> QED BY <3>1 DEF IsEnd
  <2>3. PICK u \in Seq(KeyedEntry) : all = u \o new
    BY <2>2
  <2>4. KeysApart(new)
    <3> SUFFICES ASSUME NEW i \in 1..Len(new), NEW j \in 1..Len(new), new[i].key = new[j].key PROVE i = j
      BY DEF KeysApart
    <3> DEFINE x == Len(all) - MaxEntries + i
               y == Len(all) - MaxEntries + j
    <3>2. x \in 1..Len(all) /\ y \in 1..Len(all) /\ new[i] = all[x] /\ new[j] = all[y]
      BY <2>2
    <3> HIDE DEF x, y
    <3>3. x = y
      BY <1>1, <3>2 DEF KeysApart
    <3>1. Len(all) - MaxEntries + i = Len(all) - MaxEntries + j
      BY <3>3 DEF x, y
    <3> QED BY <1>3, <3>1
  <2>5. Others(all, job) = Others(u, job) \o Others(new, job)
    BY <2>2, <2>3, RemainingOfBoth DEF Others
  <2>6. Others(u, job) \in Seq(KeyedEntry) /\ Others(new, job) \in Seq(KeyedEntry)
    BY <2>2, RemainingAre DEF Others
  <2>7. IsSuffix(Others(new, job), Others(u, job) \o Others(new, job))
    BY <2>6, IsSuffixOf
  <2>8. IsSuffix(Others(new, job), was)
    BY <1>1, <1>5, <1>7, <2>5, <2>7
  <2>9. LosesOnly(Others(new, job), was, Len(new), now)
    BY <1>7, <2>2, <2>8 DEF LosesOnly
  <2> QED BY <1>3, <1>7, <2>2, <2>4, <2>9 DEF was
<1> QED BY <1>6, <1>7

-----------------------------------------------------------------------------
(* KeyedCache: the invariant.                                              *)

Steps == {"idle", "compute", "read", "open", "write"}
Copies == {s \in Seq(KeyedEntry) : KeysApart(s)}
Slot == [step : Steps, job : (SUBSET Keys) \cup {Nothing}, now : 0..MaxSpend, value : 0..MaxSpend,
         copy : Copies, mixed : BOOLEAN, alone : BOOLEAN]

Contents == IF file = Unreadable THEN <<>> ELSE file

FileTyped ==
    file # Unreadable => /\ file \in Copies
                         /\ kind = "windows" => Len(file) <= MaxEntries

ThreadsTyped ==
    /\ thread \in [Threads -> Slot]
    /\ \A t \in Threads : thread[t].step # "idle" => thread[t].job \in SUBSET Keys

NumbersTyped ==
    /\ kind \in {"windows", "bias", "sessions"}
    /\ spend \in 0..MaxSpend /\ today \in 0..MaxSpend /\ faults \in 0..MaxFaults

\* A thread that had the file to itself so far holds what is in it.
CopiesAreTheFile ==
    \A t \in Threads : thread[t].alone = TRUE /\ HoldsCopy(t) /\ ~Writing(t) => thread[t].copy = Contents

\* One that has it open found and left it empty.
OpenFilesAreEmpty ==
    \A t \in Threads : thread[t].alone = TRUE /\ Writing(t) => file = Unreadable

KeyedInv == FileTyped /\ ThreadsTyped /\ NumbersTyped /\ CopiesAreTheFile /\ OpenFilesAreEmpty

LEMMA NoCopy == <<>> \in Copies
<1>1. <<>> \in Seq(KeyedEntry) /\ Len(<<>>) = 0
  OBVIOUS
<1> QED BY <1>1 DEF Copies, KeysApart

LEMMA IdleTyped == Idle \in Slot /\ Idle.step = "idle"
<1>1. MaxSpend \in Nat
  BY KeyedAssumption
<1> QED BY <1>1, NoCopy DEF Idle, Slot, Steps

LEMMA SlotIs ==
  ASSUME NEW x \in Slot
  PROVE  /\ x.step \in Steps /\ x.job \in (SUBSET Keys) \cup {Nothing} /\ x.now \in 0..MaxSpend /\ x.value \in 0..MaxSpend
         /\ x.copy \in Copies /\ x.mixed \in BOOLEAN /\ x.alone \in BOOLEAN
BY DEF Slot

IsDisturbed(after, t, new) ==
    /\ after \in [Threads -> Slot] /\ after[t] = new
    /\ \A u \in Threads : after[u].step # "idle" => after[u].job \in SUBSET Keys
    /\ \A u \in Threads : u # t => /\ after[u].step = thread[u].step
                                   /\ after[u].copy = thread[u].copy
                                   /\ after[u].alone = TRUE => ~HoldsCopy(u)

LEMMA DisturbedIs ==
  ASSUME ThreadsTyped, NEW t \in Threads, NEW new \in Slot,
         new.step # "idle" => new.job \in SUBSET Keys
  PROVE  IsDisturbed(Disturbed(t, new), t, new)
<1>1. \A u \in Threads : thread[u] \in Slot /\ (thread[u].step # "idle" => thread[u].job \in SUBSET Keys)
  BY DEF ThreadsTyped
<1> DEFINE after == Disturbed(t, new)
           other(u) == [thread[u] EXCEPT !.alone = ~HoldsCopy(u), !.mixed = Writing(u)]
<1>2. ASSUME NEW u \in Threads
      PROVE  /\ other(u) \in Slot /\ other(u).step = thread[u].step /\ other(u).copy = thread[u].copy
             /\ other(u).job = thread[u].job /\ other(u).alone = ~HoldsCopy(u)
  <2>1. (~HoldsCopy(u)) \in BOOLEAN /\ Writing(u) \in BOOLEAN
    BY DEF HoldsCopy, Writing
  <2> DEFINE a == ~HoldsCopy(u)
             b == Writing(u)
             x == thread[u]
  <2>2. a \in BOOLEAN /\ b \in BOOLEAN /\ x \in Slot
    BY <1>1, <2>1
  <2> HIDE DEF a, b, x
  <2>3. LET y == [x EXCEPT !.alone = a, !.mixed = b]
        IN  y \in Slot /\ y.step = x.step /\ y.copy = x.copy /\ y.job = x.job /\ y.alone = a
    BY <2>2 DEF Slot
  <2> QED BY <2>3 DEF a, b, x
<1>3. after = [u \in Threads |-> IF u = t THEN new ELSE other(u)]
  BY Zenon DEF Disturbed
<1> HIDE DEF other, after
<1>4. IsDisturbed(after, t, new)
  BY <1>1, <1>2, <1>3 DEF IsDisturbed
<1> QED BY <1>4 DEF after

\* What a step has to show when it moves a thread and leaves the file.
MovesTo(t, new) ==
    /\ new \in Slot
    /\ new.step # "idle" => new.job \in SUBSET Keys
    /\ new.alone = TRUE /\ (new.step = "open" \/ (new.step = "compute" /\ kind = "sessions"))
          => new.copy = Contents

\* What a step of one thread that leaves the file alone must establish.
LEMMA KeptByMoving ==
  ASSUME KeyedInv, NEW t \in Threads, NEW new, MovesTo(t, new), new.step # "write",
         thread' = [thread EXCEPT ![t] = new], kind' = kind, file' = file, NumbersTyped'
  PROVE  KeyedInv'
<1>1. new \in Slot /\ (new.step # "idle" => new.job \in SUBSET Keys)
  BY DEF MovesTo
<1>2. thread \in [Threads -> Slot] /\ \A u \in Threads : thread[u].step # "idle" => thread[u].job \in SUBSET Keys
  BY DEF KeyedInv, ThreadsTyped
<1>3. thread' \in [Threads -> Slot] /\ thread'[t] = new /\ \A u \in Threads : u # t => thread'[u] = thread[u]
  BY <1>1, <1>2
<1>4. ThreadsTyped'
  BY <1>1, <1>2, <1>3 DEF ThreadsTyped
<1>5. FileTyped' /\ Contents' = Contents
  BY DEF KeyedInv, FileTyped, Contents
<1>6. CopiesAreTheFile'
  <2> SUFFICES ASSUME NEW u \in Threads, thread'[u].alone = TRUE, HoldsCopy(u)', ~Writing(u)'
               PROVE  thread'[u].copy = Contents
    BY <1>5 DEF CopiesAreTheFile
  <2>1. CASE u = t
    <3>1. new.step = "open" \/ (new.step = "compute" /\ kind = "sessions")
      BY <1>3, <2>1 DEF HoldsCopy, Writing
    <3> QED BY <1>3, <2>1, <3>1 DEF MovesTo
  <2>2. CASE u # t
    <3>1. HoldsCopy(u) /\ ~Writing(u) /\ thread[u].alone = TRUE
      BY <1>3, <2>2 DEF HoldsCopy, Writing
    <3> QED BY <1>3, <2>2, <3>1 DEF KeyedInv, CopiesAreTheFile
  <2> QED BY <2>1, <2>2
<1>7. OpenFilesAreEmpty'
  <2> SUFFICES ASSUME NEW u \in Threads, thread'[u].alone = TRUE, Writing(u)' PROVE file = Unreadable
    BY DEF OpenFilesAreEmpty
  <2>1. u # t
    BY <1>3 DEF Writing
  <2>2. Writing(u) /\ thread[u].alone = TRUE
    BY <1>3, <2>1 DEF Writing
  <2> QED BY <2>2 DEF KeyedInv, OpenFilesAreEmpty
<1> QED BY <1>4, <1>5, <1>6, <1>7 DEF KeyedInv

\* And when it opens the file or writes it.
LEMMA KeptByDisturbing ==
  ASSUME KeyedInv, NEW t \in Threads, NEW new \in Slot,
         new.step = "idle" \/ (new.step = "write" /\ new.job \in SUBSET Keys /\ file' = Unreadable),
         thread' = Disturbed(t, new), kind' = kind, FileTyped', NumbersTyped'
  PROVE  KeyedInv'
<1>0. ThreadsTyped
  BY DEF KeyedInv
<1>1. /\ thread' \in [Threads -> Slot] /\ thread'[t] = new
      /\ \A u \in Threads : thread'[u].step # "idle" => thread'[u].job \in SUBSET Keys
      /\ \A u \in Threads : u # t => /\ thread'[u].step = thread[u].step
                                     /\ thread'[u].copy = thread[u].copy
                                     /\ thread'[u].alone = TRUE => ~HoldsCopy(u)
  <2>1. new.step # "idle" => new.job \in SUBSET Keys
    OBVIOUS
  <2>2. IsDisturbed(thread', t, new)
    BY <1>0, <2>1, DisturbedIs
  <2> QED BY <2>2 DEF IsDisturbed
<1>2. ThreadsTyped'
  BY <1>1 DEF ThreadsTyped
<1>3. ASSUME NEW u \in Threads, u # t, thread'[u].alone = TRUE PROVE ~HoldsCopy(u)' /\ ~Writing(u)'
  BY <1>1, <1>3 DEF HoldsCopy, Writing
<1>4. CopiesAreTheFile'
  <2> SUFFICES ASSUME NEW u \in Threads, thread'[u].alone = TRUE, HoldsCopy(u)', ~Writing(u)'
               PROVE  FALSE
    BY DEF CopiesAreTheFile
  <2> QED BY <1>1, <1>3 DEF HoldsCopy, Writing
<1>5. OpenFilesAreEmpty'
  <2> SUFFICES ASSUME NEW u \in Threads, thread'[u].alone = TRUE, Writing(u)' PROVE file' = Unreadable
    BY DEF OpenFilesAreEmpty
  <2>1. u = t
    BY <1>3
  <2> QED BY <1>1, <2>1 DEF Writing
<1> QED BY <1>2, <1>4, <1>5 DEF KeyedInv

LEMMA TakeKeeps ==
  ASSUME KeyedInv, NEW t \in Threads, NEW job \in Jobs, Take(t, job)
  PROVE  KeyedInv'
<1> DEFINE s == IF kind = "sessions" THEN "read" ELSE "compute"
           new == [Idle EXCEPT !.step = s, !.job = job, !.now = today]
<1>1. job \in SUBSET Keys
  BY DEF Jobs
<1>2. s \in Steps /\ s # "write" /\ s # "open" /\ ~(s = "compute" /\ kind = "sessions")
  BY DEF Steps
<1>3. thread' = [thread EXCEPT ![t] = new] /\ kind' = kind /\ file' = file /\ spend' = spend /\ today' = today /\ faults' = faults
  BY DEF Take
<1> HIDE DEF s
<1>4. new \in Slot /\ new.step = s /\ new.job = job
  BY <1>1, <1>2, IdleTyped DEF Slot, KeyedInv, NumbersTyped
<1> HIDE DEF new
<1>5. MovesTo(t, new)
  BY <1>1, <1>2, <1>4 DEF MovesTo
<1>6. NumbersTyped'
  BY <1>3 DEF KeyedInv, NumbersTyped
<1> QED BY <1>2, <1>3, <1>4, <1>5, <1>6, KeptByMoving

LEMMA ComputeKeeps ==
  ASSUME KeyedInv, NEW t \in Threads, Compute(t)
  PROVE  KeyedInv'
<1> DEFINE s == IF kind = "sessions" THEN "open" ELSE "read"
           old == thread[t]
           new == [old EXCEPT !.value = spend, !.step = s]
<1>1. old \in Slot /\ old.step = "compute" /\ old.job \in SUBSET Keys /\ spend \in 0..MaxSpend
  BY DEF KeyedInv, ThreadsTyped, NumbersTyped, Compute
<1>2. s \in Steps /\ s # "write" /\ s # "compute" /\ (s = "open" => kind = "sessions")
  BY DEF Steps
<1>3. thread' = [thread EXCEPT ![t] = new] /\ kind' = kind /\ file' = file /\ spend' = spend /\ today' = today /\ faults' = faults
  <2>1. thread \in [Threads -> Slot]
    BY DEF KeyedInv, ThreadsTyped
  <2> QED BY <2>1 DEF Compute
<1>4. old.alone = TRUE /\ kind = "sessions" => old.copy = Contents
  BY <1>1 DEF KeyedInv, CopiesAreTheFile, HoldsCopy, Writing
<1> HIDE DEF s, old
<1>5. new \in Slot /\ new.step = s /\ new.job = old.job /\ new.copy = old.copy /\ new.alone = old.alone
  BY <1>1, <1>2 DEF Slot
<1> HIDE DEF new
<1>6. MovesTo(t, new)
  BY <1>1, <1>2, <1>4, <1>5 DEF MovesTo
<1>7. NumbersTyped'
  BY <1>3 DEF KeyedInv, NumbersTyped
<1> QED BY <1>2, <1>3, <1>5, <1>6, <1>7, KeptByMoving

LEMMA ReadKeeps ==
  ASSUME KeyedInv, NEW t \in Threads, ReadEntries(t)
  PROVE  KeyedInv'
<1> DEFINE s == IF kind = "sessions" THEN "compute" ELSE "open"
           old == thread[t]
           a == ~\E u \in Threads \ {t} : Writing(u)
           c == Contents
           new == [old EXCEPT !.copy = c, !.alone = a, !.step = s]
<1>1. old \in Slot /\ old.step = "read" /\ old.job \in SUBSET Keys
  BY DEF KeyedInv, ThreadsTyped, ReadEntries
<1>2. s \in Steps /\ s # "write" /\ s # "idle"
  BY DEF Steps
<1>3. thread' = [thread EXCEPT ![t] = new] /\ kind' = kind /\ file' = file /\ spend' = spend /\ today' = today /\ faults' = faults
  <2>1. thread \in [Threads -> Slot]
    BY DEF KeyedInv, ThreadsTyped
  <2> QED BY <2>1 DEF ReadEntries, Contents
<1>4. a \in BOOLEAN /\ c \in Copies /\ c = Contents
  BY NoCopy DEF KeyedInv, FileTyped, Contents
<1> HIDE DEF s, old, a, c
<1>5. new \in Slot /\ new.step = s /\ new.job = old.job /\ new.copy = c
  BY <1>1, <1>2, <1>4 DEF Slot
<1> HIDE DEF new
<1>6. MovesTo(t, new)
  BY <1>1, <1>2, <1>4, <1>5 DEF MovesTo
<1>7. NumbersTyped'
  BY <1>3 DEF KeyedInv, NumbersTyped
<1> QED BY <1>2, <1>3, <1>5, <1>6, <1>7, KeptByMoving

LEMMA OpenKeeps ==
  ASSUME KeyedInv, NEW t \in Threads, Open(t)
  PROVE  KeyedInv'
<1> DEFINE old == thread[t]
           new == [old EXCEPT !.step = "write"]
<1>1. old \in Slot /\ old.step = "open" /\ old.job \in SUBSET Keys
  BY DEF KeyedInv, ThreadsTyped, Open
<1>2. thread' = Disturbed(t, new) /\ file' = Unreadable /\ kind' = kind /\ spend' = spend /\ today' = today /\ faults' = faults
  BY DEF Open
<1> HIDE DEF old
<1>3. new \in Slot /\ new.step = "write" /\ new.job \in SUBSET Keys
  BY <1>1 DEF Slot, Steps
<1> HIDE DEF new
<1>4. FileTyped' /\ NumbersTyped'
  BY <1>2 DEF KeyedInv, FileTyped, NumbersTyped
<1> QED BY <1>2, <1>3, <1>4, KeptByDisturbing

LEMMA WriteKeeps ==
  ASSUME KeyedInv, NEW t \in Threads, Write(t)
  PROVE  KeyedInv'
<1> DEFINE old == thread[t]
           new == Updated(old.copy, old.job, old.value, old.now)
<1>1. old \in Slot /\ old.step = "write" /\ old.job \in SUBSET Keys
  BY DEF KeyedInv, ThreadsTyped, Write, Writing
<1>2. thread' = Disturbed(t, Idle) /\ kind' = kind /\ spend' = spend /\ today' = today /\ faults' = faults
      /\ (file' = new \/ file' = Unreadable)
  BY DEF Write, Release
<1>3. old.copy \in Seq(KeyedEntry) /\ KeysApart(old.copy) /\ old.value \in 0..MaxSpend
      /\ old.now \in 0..MaxSpend
  BY <1>1 DEF Slot, Copies
<1> HIDE DEF old
<1>4. /\ new \in Seq(KeyedEntry) /\ KeysApart(new)
      /\ kind = "windows" => Len(new) <= MaxEntries
  BY <1>1, <1>3, UpdatedIs
<1> HIDE DEF new
<1>5. FileTyped'
  BY <1>2, <1>4 DEF FileTyped, Copies
<1>6. NumbersTyped'
  BY <1>2 DEF KeyedInv, NumbersTyped
<1> QED BY <1>2, <1>5, <1>6, IdleTyped, KeptByDisturbing

LEMMA FailKeeps ==
  ASSUME KeyedInv, NEW t \in Threads, FailToWrite(t)
  PROVE  KeyedInv'
<1>1. NumbersTyped' /\ kind' = kind /\ file' = file
  BY KeyedAssumption DEF KeyedInv, NumbersTyped, FailToWrite
<1>2. CASE Writing(t)
  <2>1. thread' = Disturbed(t, Idle)
    BY <1>2 DEF FailToWrite, Release
  <2>2. FileTyped'
    BY <1>1 DEF KeyedInv, FileTyped
  <2> QED BY <1>1, <2>1, <2>2, IdleTyped, KeptByDisturbing
<1>3. CASE ~Writing(t)
  <2>1. thread' = [thread EXCEPT ![t] = Idle]
    BY <1>3 DEF FailToWrite
  <2>2. MovesTo(t, Idle) /\ Idle.step # "write"
    BY IdleTyped DEF MovesTo
  <2> QED BY <1>1, <2>1, <2>2, KeptByMoving
<1> QED BY <1>2, <1>3

LEMMA DieKeeps ==
  ASSUME KeyedInv, NEW s \in Servers, Die(s)
  PROVE  KeyedInv'
<1>1. NumbersTyped' /\ FileTyped' /\ kind' = kind /\ file' = file /\ Contents' = Contents
  BY KeyedAssumption DEF KeyedInv, NumbersTyped, FileTyped, Die, Contents
<1>2. thread \in [Threads -> Slot] /\ \A u \in Threads : thread[u].step # "idle" => thread[u].job \in SUBSET Keys
  BY DEF KeyedInv, ThreadsTyped
<1>3. thread' \in [Threads -> Slot] /\ \A u \in Threads : thread'[u] = Idle \/ thread'[u] = thread[u]
  BY <1>2, IdleTyped DEF Die
<1>4. ThreadsTyped'
  BY <1>2, <1>3, IdleTyped DEF ThreadsTyped
<1>5. ASSUME NEW u \in Threads, HoldsCopy(u)' \/ Writing(u)'
      PROVE  thread'[u] = thread[u] /\ (HoldsCopy(u)' <=> HoldsCopy(u)) /\ (Writing(u)' <=> Writing(u))
  <2>1. thread'[u].step # "idle"
    BY <1>5 DEF HoldsCopy, Writing
  <2>2. thread'[u] = thread[u]
    BY <1>3, <2>1, IdleTyped
  <2> QED BY <1>1, <2>2 DEF HoldsCopy, Writing
<1>6. CopiesAreTheFile'
  BY <1>1, <1>5 DEF KeyedInv, CopiesAreTheFile
<1>7. OpenFilesAreEmpty'
  BY <1>1, <1>5 DEF KeyedInv, OpenFilesAreEmpty
<1> QED BY <1>1, <1>4, <1>6, <1>7 DEF KeyedInv

\* The invariant holds at the start and is kept by every step.
LEMMA KeyedInvHolds ==
  /\ KeyedInit => KeyedInv
  /\ KeyedInv /\ [KeyedNext]_keyedVars => KeyedInv'
<1>1. ASSUME KeyedInit PROVE KeyedInv
  <2>1. FileTyped /\ NumbersTyped
    BY <1>1, KeyedAssumption DEF KeyedInit, FileTyped, NumbersTyped
  <2>2. \A t \in Threads : thread[t] = Idle
    BY <1>1 DEF KeyedInit
  <2>3. ThreadsTyped
    BY <1>1, <2>2, IdleTyped DEF KeyedInit, ThreadsTyped
  <2>4. \A t \in Threads : ~HoldsCopy(t) /\ ~Writing(t)
    BY <2>2, IdleTyped DEF HoldsCopy, Writing
  <2> QED BY <2>1, <2>3, <2>4 DEF KeyedInv, CopiesAreTheFile, OpenFilesAreEmpty
<1>2. ASSUME KeyedInv, [KeyedNext]_keyedVars PROVE KeyedInv'
  <2>1. CASE UseSessions \/ DayPasses
    <3>1. /\ kind' = kind /\ file' = file /\ thread' = thread /\ faults' = faults
          /\ spend' \in 0..MaxSpend /\ today' \in 0..MaxSpend
      <4>1. spend \in 0..MaxSpend /\ today \in 0..MaxSpend
        BY <1>2 DEF KeyedInv, NumbersTyped
      <4> QED BY <2>1, <4>1, KeyedAssumption DEF UseSessions, DayPasses
    <3>2. NumbersTyped' /\ FileTyped' /\ ThreadsTyped'
      BY <1>2, <3>1 DEF KeyedInv, NumbersTyped, FileTyped, ThreadsTyped
    <3> QED BY <1>2, <3>1, <3>2 DEF KeyedInv, CopiesAreTheFile, OpenFilesAreEmpty, HoldsCopy, Writing, Contents
  <2>2. CASE \E t \in Threads : Work(t) \/ FailToWrite(t)
    <3>1. PICK t \in Threads : Work(t) \/ FailToWrite(t)
      BY <2>2
    <3>2. CASE \E job \in Jobs : Take(t, job)
      BY <1>2, <3>2, TakeKeeps
    <3>3. CASE Compute(t)
      BY <1>2, <3>3, ComputeKeeps
    <3>4. CASE ReadEntries(t)
      BY <1>2, <3>4, ReadKeeps
    <3>5. CASE Open(t)
      BY <1>2, <3>5, OpenKeeps
    <3>6. CASE Write(t)
      BY <1>2, <3>6, WriteKeeps
    <3>7. CASE FailToWrite(t)
      BY <1>2, <3>7, FailKeeps
    <3> QED BY <3>1, <3>2, <3>3, <3>4, <3>5, <3>6, <3>7 DEF Work
  <2>3. CASE \E s \in Servers : Die(s)
    BY <1>2, <2>3, DieKeeps
  <2>4. CASE UNCHANGED keyedVars
    <3>1. kind' = kind /\ spend' = spend /\ today' = today /\ file' = file /\ thread' = thread /\ faults' = faults
      BY <2>4 DEF keyedVars
    <3> QED BY <1>2, <3>1 DEF KeyedInv, FileTyped, ThreadsTyped, NumbersTyped, CopiesAreTheFile,
              OpenFilesAreEmpty, HoldsCopy, Writing, Contents
  <2> QED BY <1>2, <2>1, <2>2, <2>3, <2>4 DEF KeyedNext
<1> QED BY <1>1, <1>2

\* The invariant of the keyed caches holds in every behaviour: a thread that had
\* the file to itself knows what is in it.
THEOREM KeyedInvariance == KeyedSpec => []KeyedInv
BY KeyedInvHolds, PTL DEF KeyedSpec

\* For any keys, servers, threads and limits, whatever refreshers of one cache do
\* to each other, its file holds no key twice and no more windows than
\* _SPEND_CACHE_MAX_ENTRIES.
THEOREM KeyedTypeCorrect == KeyedSpec => []KeyedTypeOK
<1>1. KeyedInv => KeyedTypeOK
  <2> SUFFICES ASSUME KeyedInv PROVE KeyedTypeOK
    OBVIOUS
  <2>1. ASSUME file # Unreadable
        PROVE  /\ \A i \in DOMAIN file : file[i] \in KeyedEntry
               /\ Cardinality(KeysOf(file)) = Len(file)
               /\ kind = "windows" => Len(file) <= MaxEntries
    <3>1. file \in Seq(KeyedEntry) /\ KeysApart(file) /\ (kind = "windows" => Len(file) <= MaxEntries)
      BY <2>1 DEF KeyedInv, FileTyped, Copies
    <3>2. Cardinality(KeysOf(file)) = Len(file)
      BY <3>1, KeysAreCounted
    <3>3. \A i \in DOMAIN file : file[i] \in KeyedEntry
      BY <3>1
    <3> QED BY <3>1, <3>2, <3>3
  <2>2. \A t \in Threads : thread[t].step \in Steps
    BY DEF KeyedInv, ThreadsTyped, Slot
  <2> QED BY <2>1, <2>2 DEF KeyedInv, NumbersTyped, KeyedTypeOK, Steps
<1> QED BY <1>1, KeyedInvariance, PTL

\* An update that has the file to itself from its read to its write loses
\* nothing but what the windows shed and the session counts of more than a day
\* ago; whatever else it loses, it loses to another one that overlaps it.
THEOREM UpdatesLoseOnlyToOthers == KeyedSpec => LossesAreOverlaps
<1> DEFINE Loses(t) ==
        /\ thread[t].step = "open" /\ thread[t].alone /\ thread'[t].step = "write"
              => thread[t].copy = IF file = Unreadable THEN <<>> ELSE file
        /\ Writing(t) /\ thread[t].alone /\ thread'[t] = Idle /\ file' # Unreadable
              => LET was == Others(thread[t].copy, thread[t].job)
                     is == Others(file', thread[t].job)
                 IN  /\ kind = "bias" => is = was
                     /\ kind = "windows" => /\ IsSuffix(is, was)
                                            /\ is = was \/ Len(file') = MaxEntries
                     /\ kind = "sessions" =>
                           Range(is) = {e \in Range(was) : e.at >= thread[t].now}
<1>1. ASSUME KeyedInv, KeyedNext PROVE \A t \in Threads : Loses(t)
  <2> SUFFICES ASSUME NEW t \in Threads PROVE Loses(t)
    OBVIOUS
  <2>1. thread[t] \in Slot /\ thread[t].alone \in BOOLEAN
    BY <1>1 DEF KeyedInv, ThreadsTyped, Slot
  <2>2. ASSUME thread[t].step = "open", thread[t].alone = TRUE
        PROVE  thread[t].copy = IF file = Unreadable THEN <<>> ELSE file
    BY <1>1, <2>2 DEF KeyedInv, CopiesAreTheFile, HoldsCopy, Writing, Contents
  <2>3. ASSUME Writing(t), thread[t].alone = TRUE, thread'[t] = Idle, file' # Unreadable
        PROVE  file' = Updated(thread[t].copy, thread[t].job, thread[t].value, thread[t].now)
    <3>1. file' # file
      BY <1>1, <2>3 DEF KeyedInv, OpenFilesAreEmpty
    <3>2. PICK u \in Threads : Open(u) \/ Write(u)
      BY <1>1, <3>1 DEF KeyedNext, Work, UseSessions, DayPasses, Take, Compute, ReadEntries, FailToWrite, Die
    <3>3. Write(u)
      BY <2>3, <3>2 DEF Open
    <3>4. u = t
      <4> SUFFICES ASSUME u # t PROVE FALSE
        OBVIOUS
      <4>1. IsDisturbed(thread', u, Idle)
        BY <1>1, <3>3, IdleTyped, DisturbedIs DEF KeyedInv, Write, Release
      <4>2. thread'[t].step = thread[t].step
        BY <4>1 DEF IsDisturbed
      <4> QED BY <2>3, <4>2, IdleTyped DEF Writing
    <3> QED BY <2>3, <3>3, <3>4 DEF Write
  <2>4. ASSUME Writing(t), thread[t].alone = TRUE, thread'[t] = Idle, file' # Unreadable
        PROVE  LosesOnly(Others(file', thread[t].job), Others(thread[t].copy, thread[t].job),
                         Len(file'), thread[t].now)
    <3> DEFINE old == thread[t]
    <3>1. old.job \in SUBSET Keys /\ old.copy \in Copies /\ old.value \in 0..MaxSpend
          /\ old.now \in 0..MaxSpend
      BY <1>1, <2>1, <2>4 DEF KeyedInv, ThreadsTyped, Writing, Slot
    <3>2. old.copy \in Seq(KeyedEntry) /\ KeysApart(old.copy)
      BY <3>1 DEF Copies
    <3>3. file' = Updated(old.copy, old.job, old.value, old.now)
      BY <2>3, <2>4
    <3> HIDE DEF old
    <3>4. LosesOnly(Others(file', old.job), Others(old.copy, old.job), Len(file'), old.now)
      BY <3>1, <3>2, <3>3, UpdatedIs
    <3> QED BY <3>4 DEF old
  <2> QED BY <2>1, <2>2, <2>4 DEF LosesOnly
<1> QED BY <1>1, KeyedInvariance, PTL DEF KeyedSpec, LossesAreOverlaps
=============================================================================

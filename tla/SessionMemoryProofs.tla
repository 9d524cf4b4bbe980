------------------------- MODULE SessionMemoryProofs -------------------------
(***************************************************************************)
(* What a summary tells, for any objects, any number of turns and results  *)
(* and any number of compactions.                                          *)
(***************************************************************************)
EXTENDS SessionMemory, SequenceTheorems, WellFoundedInduction, TLAPS

-----------------------------------------------------------------------------
(* Counting up *)

LEMMA Smallest ==
  ASSUME NEW T, T \subseteq Nat, T # {}
  PROVE  \E x \in T : \A y \in T : ~(y < x)
<1>1. IsWellFoundedOn(OpToRel(<, Nat), Nat)
  BY NatLessThanWellFounded
<1>2. \E x \in T : \A y \in T : ~(<<y, x>> \in OpToRel(<, Nat))
  BY <1>1, WFMin
<1>3. \A x, y \in Nat : y < x => <<y, x>> \in OpToRel(<, Nat)
  BY DEF OpToRel
<1> QED
  BY <1>2, <1>3

LEMMA CountUp ==
  ASSUME NEW n \in Nat, NEW T, 0 \in T, \A i \in 1..n : i - 1 \in T => i \in T
  PROVE  0..n \subseteq T
<1> SUFFICES ASSUME (0..n) \ T # {} PROVE FALSE
  OBVIOUS
<1>0. (0..n) \ T \subseteq Nat
  OBVIOUS
<1>1. PICK x \in (0..n) \ T : \A y \in (0..n) \ T : ~(y < x)
  BY <1>0, Smallest
<1>2. x \in 1..n /\ x - 1 \in 0..n
  BY <1>1
<1>3. x - 1 \in T
  BY <1>1, <1>2
<1> QED
  BY <1>1, <1>2, <1>3

\* g applies f[1] to start, f[2] to the result of that, and so on.
Folds(g, n, S, start, f) ==
  /\ g \in [0..n -> S] /\ g[0] = start
  /\ \A i \in 1..n : g[i] = f[i][g[i - 1]]

LEMMA FoldExists ==
  ASSUME NEW n \in Nat, NEW S, NEW start \in S, NEW f \in [1..n -> [S -> S]]
  PROVE  \E g : Folds(g, n, S, start, f)
<1> DEFINE Steps(g, k) == Folds(g, k, S, start, f)
           T == {k \in 0..n : \E g \in [0..k -> S] : Steps(g, k)}
<1>1. 0 \in T
  <2> DEFINE h == [i \in 0..0 |-> start]
  <2>1. h \in [0..0 -> S] /\ Steps(h, 0) /\ 0 \in 0..n
    BY DEF Folds
  <2> HIDE DEF h
  <2> QED
    BY <2>1
<1>2. ASSUME NEW k \in 1..n, k - 1 \in T PROVE k \in T
  <2>1. PICK g \in [0..(k - 1) -> S] : Steps(g, k - 1)
    BY <1>2
  <2> DEFINE h == [i \in 0..k |-> IF i = k THEN f[k][g[k - 1]] ELSE g[i]]
  <2>2. k - 1 \in 0..(k - 1) /\ g[k - 1] \in S /\ f[k] \in [S -> S]
    BY <2>1 DEF Folds
  <2>3. h \in [0..k -> S]
    BY <2>1, <2>2
  <2>4. h[0] = start
    BY <2>1 DEF Folds
  <2>5. ASSUME NEW i \in 1..k PROVE h[i] = f[i][h[i - 1]]
    <3>1. i \in 0..k /\ i - 1 \in 0..k /\ i - 1 # k /\ h[i - 1] = g[i - 1]
      OBVIOUS
    <3>2. CASE i = k
      BY <3>1, <3>2
    <3>3. CASE i # k
      <4>1. i \in 1..(k - 1)
        BY <3>3
      <4> QED
        BY <4>1, <3>1, <3>3, <2>1 DEF Folds
    <3> QED
      BY <3>2, <3>3
  <2>6. Steps(h, k)
    BY <2>3, <2>4, <2>5 DEF Folds
  <2>7. k \in 0..n
    OBVIOUS
  <2> HIDE DEF h
  <2> QED
    BY <2>3, <2>6, <2>7
<1>3. n \in T
  <2> HIDE DEF T
  <2>1. 0..n \subseteq T
    BY <1>1, <1>2, CountUp
  <2> QED
    BY <2>1
<1> QED
  BY <1>3

-----------------------------------------------------------------------------
(* Types *)

History == [last : [Objects -> {"none", "changed", "deleted"}], fresh : SUBSET Objects]

TypeOK ==
  /\ summary \in Memory \cup {None}
  /\ turns \in Seq(Seq(Results))
  /\ payload \in [memory : Memory \cup {None}, absorbed : History]
  /\ absorbed \in History

\* m with other lists, which may be any sets of names.
Relisted(m, l, d) == [m EXCEPT !.living = l, !.deleted = d]

LEMMA RelistedFacts ==
  ASSUME NEW m \in Memory, NEW l \in SUBSET Names, NEW d \in SUBSET Names
  PROVE  Relisted(m, l, d) \in Memory /\ Relisted(m, l, d).living = l /\ Relisted(m, l, d).deleted = d
BY DEF Memory, Relisted

\* What one result does to a memory.
LEMMA ExtractedFacts ==
  ASSUME NEW m \in Memory, NEW r \in Results
  PROVE  /\ Extracted(m, r) \in Memory
         /\ \A o \in Objects :
              IF r.kind \in {"changed", "deleted"} /\ r.obj = o
                THEN /\ o \in Extracted(m, r).living <=> r.kind = "changed"
                     /\ o \in Extracted(m, r).deleted <=> r.kind = "deleted"
                ELSE /\ o \in Extracted(m, r).living <=> o \in m.living
                     /\ o \in Extracted(m, r).deleted <=> o \in m.deleted
<1>1. CASE r.kind = "changed"
  <2>1. r.obj \in Objects /\ r.obj \in Names
    BY <1>1, MemoryAssumption DEF Results
  <2>2. Extracted(m, r) = Relisted(m, m.living \cup {r.obj}, m.deleted \ {r.obj})
    BY <1>1 DEF Extracted, Errors, Relisted
  <2>3. m.living \cup {r.obj} \in SUBSET Names /\ m.deleted \ {r.obj} \in SUBSET Names
    BY <2>1 DEF Memory
  <2>4. /\ Extracted(m, r) \in Memory
        /\ Extracted(m, r).living = m.living \cup {r.obj}
        /\ Extracted(m, r).deleted = m.deleted \ {r.obj}
    BY <2>2, <2>3, RelistedFacts
  <2> QED
    BY <1>1, <2>1, <2>4
<1>2. CASE r.kind = "deleted"
  <2>1. r.obj \in Objects /\ r.obj \in Names
    BY <1>2, MemoryAssumption DEF Results
  <2>2. Extracted(m, r) = Relisted(m, m.living \ {r.obj}, m.deleted \cup {r.obj})
    BY <1>2 DEF Extracted, Errors, Relisted
  <2>3. m.living \ {r.obj} \in SUBSET Names /\ m.deleted \cup {r.obj} \in SUBSET Names
    BY <2>1 DEF Memory
  <2>4. /\ Extracted(m, r) \in Memory
        /\ Extracted(m, r).living = m.living \ {r.obj}
        /\ Extracted(m, r).deleted = m.deleted \cup {r.obj}
    BY <2>2, <2>3, RelistedFacts
  <2> QED
    BY <1>2, <2>1, <2>4
<1>3. CASE r.kind \in Errors
  <2>1. Extracted(m, r) = [m EXCEPT !.errors = TRUE]
    BY <1>3 DEF Extracted, Errors
  <2> QED
    BY <1>3, <2>1 DEF Memory, Errors
<1>4. CASE r.kind \in {"looked", "judged"}
  <2>1. Extracted(m, r) = [m EXCEPT !.inspected = TRUE, !.visual = @ \/ r.kind = "judged"]
    BY <1>4 DEF Extracted, Errors
  <2>2. (m.visual \/ r.kind = "judged") \in BOOLEAN
    OBVIOUS
  <2> QED
    BY <1>4, <2>1, <2>2 DEF Memory
<1>5. CASE r.kind = "quiet"
  <2>1. Extracted(m, r) = m
    BY <1>5 DEF Extracted, Errors
  <2> QED
    BY <1>5, <2>1
<1>6. r.kind \in {"changed", "deleted", "looked", "judged", "quiet"} \cup Errors
  BY DEF Results, Errors
<1> QED
  BY <1>1, <1>2, <1>3, <1>4, <1>5, <1>6

\* Of a summary, the parser finds no living object, no deleted one that is
\* mistaken for another, and again every deleted one whose name lasts.
LEMMA RecalledFacts ==
  ASSUME NEW s \in Memory \cup {None}
  PROVE  /\ Recalled(s) \in Memory /\ Recalled(s).living = {}
         /\ \A o \in Unmistakable : o \in Recalled(s).deleted => s # None /\ o \in s.deleted
         /\ \A o \in Lasting : s # None /\ o \in s.deleted => o \in Recalled(s).deleted
<1>1. CASE s = None
  BY <1>1 DEF Recalled, NoMemory, Memory
<1>2. CASE s # None
  <2>1. Recalled(s) = [tasks |-> s.tasks, living |-> {}, deleted |-> DeletedLines(s),
                       inspected |-> s.inspected, visual |-> s.visual, errors |-> FALSE]
    BY <1>2 DEF Recalled, Merged, NoMemory, Memory
  <2>2. Misfiled(s) \subseteq {NotAnObject}
    BY DEF Misfiled
  <2>3. s.deleted \subseteq Names
    BY <1>2 DEF Memory
  <2>4. DeletedLines(s) \subseteq Names
    BY <2>2, <2>3, MemoryAssumption DEF DeletedLines
  <2>5. ASSUME NEW o \in Unmistakable, o \in DeletedLines(s) PROVE o \in s.deleted
    <3>1. o \in Objects /\ o # NotAnObject
      BY MemoryAssumption DEF Unmistakable
    <3>2. PICK n \in s.deleted : o = Reread[n]
      BY <2>2, <2>5, <3>1 DEF DeletedLines
    <3>3. n \in Names /\ (o # n => o \in Remainders)
      BY <2>3, <3>2 DEF Remainders
    <3> QED
      BY <3>2, <3>3 DEF Unmistakable
  <2>6. ASSUME NEW o \in Lasting, o \in s.deleted PROVE o \in DeletedLines(s)
    BY <2>6, MemoryAssumption DEF Lasting, DeletedLines
  <2>7. Recalled(s) \in Memory /\ Recalled(s).living = {} /\ Recalled(s).deleted = DeletedLines(s)
    BY <1>2, <2>1, <2>4 DEF Memory
  <2> QED
    BY <1>2, <2>5, <2>6, <2>7
<1> QED
  BY <1>1, <1>2

\* What a save or an opened file makes of a memory.
LEMMA SanitizedFacts ==
  ASSUME NEW m \in Memory
  PROVE  /\ Sanitized(m) \in Memory
         /\ \A o \in Unmistakable : /\ o \in Sanitized(m).living => o \in m.living
                                    /\ o \in Sanitized(m).deleted => o \in m.deleted
         /\ \A o \in Lasting : /\ o \in m.living => o \in Sanitized(m).living
                               /\ o \in m.deleted => o \in Sanitized(m).deleted
<1> DEFINE Image(ns) == {Redacted[n] : n \in ns}
<1>1. m.living \subseteq Names /\ m.deleted \subseteq Names
  BY DEF Memory
<1>2. ASSUME NEW ns \in SUBSET Names
      PROVE  /\ Image(ns) \subseteq Names
             /\ \A o \in Unmistakable : o \in Image(ns) => o \in ns
             /\ \A o \in Lasting : o \in ns => o \in Image(ns)
  <2>1. Image(ns) \subseteq Names
    BY MemoryAssumption
  <2>2. ASSUME NEW o \in Unmistakable, o \in Image(ns) PROVE o \in ns
    <3>1. PICK n \in ns : o = Redacted[n]
      BY <2>2
    <3>2. o # n => o \in Remainders
      BY <3>1 DEF Remainders
    <3> QED
      BY <3>1, <3>2 DEF Unmistakable
  <2>3. ASSUME NEW o \in Lasting, o \in ns PROVE o \in Image(ns)
    BY <2>3 DEF Lasting
  <2> QED
    BY <2>1, <2>2, <2>3
<1>3. Sanitized(m) = Relisted(m, Image(m.living), Image(m.deleted))
  BY DEF Sanitized, Relisted
<1>4. /\ Sanitized(m) \in Memory
      /\ Sanitized(m).living = Image(m.living) /\ Sanitized(m).deleted = Image(m.deleted)
  <2> HIDE DEF Image
  <2>1. Image(m.living) \in SUBSET Names /\ Image(m.deleted) \in SUBSET Names
    BY <1>1, <1>2
  <2> QED
    BY <1>3, <2>1, RelistedFacts
<1> HIDE DEF Image
<1> QED
  BY <1>1, <1>2, <1>4

\* The steps behind Absorbed.
LEMMA AbsorbedRun ==
  ASSUME NEW m \in Memory, NEW turn \in Seq(Results)
  PROVE  \E g \in [0..Len(turn) -> Memory] :
           /\ g[0] = [m EXCEPT !.tasks = TRUE]
           /\ \A j \in 1..Len(turn) : g[j] = Extracted(g[j - 1], turn[j])
           /\ Absorbed(m, turn) = g[Len(turn)]
<1> DEFINE n == Len(turn)
           start == [m EXCEPT !.tasks = TRUE]
           f == [j \in 1..n |-> [x \in Memory |-> Extracted(x, turn[j])]]
           Steps(g) == g = [j \in 0..n |-> IF j = 0 THEN start ELSE Extracted(g[j - 1], turn[j])]
           g0 == CHOOSE g : Steps(g)
<1>1. n \in Nat /\ \A j \in 1..n : turn[j] \in Results
  OBVIOUS
<1>2. start \in Memory
  BY DEF Memory
<1>3. f \in [1..n -> [Memory -> Memory]]
  BY <1>1, ExtractedFacts
<1>4. PICK h : Folds(h, n, Memory, start, f)
  <2> HIDE DEF start, f
  <2> QED
    BY <1>1, <1>2, <1>3, FoldExists
<1>5. ASSUME NEW j \in 1..n PROVE h[j] = Extracted(h[j - 1], turn[j])
  <2>1. j - 1 \in 0..n
    BY <1>1
  <2>2. h[j - 1] \in Memory /\ h[j] = f[j][h[j - 1]]
    BY <1>4, <2>1 DEF Folds
  <2> QED
    BY <2>2
<1>6. \A j \in 0..n : h[j] = IF j = 0 THEN start ELSE Extracted(h[j - 1], turn[j])
  <2> HIDE DEF start, f, n
  <2> QED
    BY <1>1, <1>4, <1>5 DEF Folds
<1>7. Steps(h)
  <2> HIDE DEF start, n
  <2> QED
    BY <1>4, <1>6 DEF Folds
<1>8. Steps(g0)
  BY <1>7
<1>9. g0[0] = start /\ \A j \in 1..n : g0[j] = Extracted(g0[j - 1], turn[j])
  <2> HIDE DEF g0, start
  <2> QED
    BY <1>1, <1>8
<1>10. \A j \in 0..n : g0[j] \in Memory
  <2> HIDE DEF g0, start
  <2> DEFINE T == {j \in 0..n : g0[j] \in Memory}
  <2>1. 0 \in T
    BY <1>1, <1>2, <1>9
  <2>2. ASSUME NEW j \in 1..n, j - 1 \in T PROVE j \in T
    BY <1>1, <1>9, <2>2, ExtractedFacts
  <2> HIDE DEF T
  <2>3. 0..n \subseteq T
    BY <1>1, <2>1, <2>2, CountUp
  <2> QED
    BY <2>3 DEF T
<1>11. g0 \in [0..n -> Memory]
  <2> HIDE DEF g0, start
  <2> QED
    BY <1>8, <1>10
<1>12. Absorbed(m, turn) = g0[n]
  BY DEF Absorbed
<1> HIDE DEF g0
<1> QED
  BY <1>9, <1>11, <1>12

LEMMA AbsorbedTyped ==
  ASSUME NEW m \in Memory, NEW turn \in Seq(Results)
  PROVE  Absorbed(m, turn) \in Memory
<1>1. PICK g \in [0..Len(turn) -> Memory] : Absorbed(m, turn) = g[Len(turn)]
  BY AbsorbedRun
<1>2. Len(turn) \in 0..Len(turn)
  OBVIOUS
<1> QED
  BY <1>1, <1>2

\* The steps behind MemoryOf.
LEMMA MemoryRun ==
  ASSUME NEW s \in Memory \cup {None}, NEW ts \in Seq(Seq(Results))
  PROVE  \E g \in [0..Len(ts) -> Memory] :
           /\ g[0] = Recalled(s)
           /\ \A j \in 1..Len(ts) : g[j] = Absorbed(g[j - 1], ts[j])
           /\ MemoryOf(s, ts) = g[Len(ts)]
<1> DEFINE n == Len(ts)
           start == Recalled(s)
           f == [j \in 1..n |-> [x \in Memory |-> Absorbed(x, ts[j])]]
           Steps(g) == g = [j \in 0..n |-> IF j = 0 THEN start ELSE Absorbed(g[j - 1], ts[j])]
           g0 == CHOOSE g : Steps(g)
<1>1. n \in Nat /\ \A j \in 1..n : ts[j] \in Seq(Results)
  OBVIOUS
<1>2. start \in Memory
  BY RecalledFacts
<1>3. f \in [1..n -> [Memory -> Memory]]
  BY <1>1, AbsorbedTyped
<1>4. PICK h : Folds(h, n, Memory, start, f)
  <2> HIDE DEF start, f
  <2> QED
    BY <1>1, <1>2, <1>3, FoldExists
<1>5. ASSUME NEW j \in 1..n PROVE h[j] = Absorbed(h[j - 1], ts[j])
  <2>1. j - 1 \in 0..n
    BY <1>1
  <2>2. h[j - 1] \in Memory /\ h[j] = f[j][h[j - 1]]
    BY <1>4, <2>1 DEF Folds
  <2> QED
    BY <2>2
<1>6. \A j \in 0..n : h[j] = IF j = 0 THEN start ELSE Absorbed(h[j - 1], ts[j])
  <2> HIDE DEF start, f, n
  <2> QED
    BY <1>1, <1>4, <1>5 DEF Folds
<1>7. Steps(h)
  <2> HIDE DEF start, n
  <2> QED
    BY <1>4, <1>6 DEF Folds
<1>8. Steps(g0)
  BY <1>7
<1>9. g0[0] = start /\ \A j \in 1..n : g0[j] = Absorbed(g0[j - 1], ts[j])
  <2> HIDE DEF g0, start
  <2> QED
    BY <1>1, <1>8
<1>10. \A j \in 0..n : g0[j] \in Memory
  <2> HIDE DEF g0, start
  <2> DEFINE T == {j \in 0..n : g0[j] \in Memory}
  <2>1. 0 \in T
    BY <1>1, <1>2, <1>9
  <2>2. ASSUME NEW j \in 1..n, j - 1 \in T PROVE j \in T
    BY <1>1, <1>9, <2>2, AbsorbedTyped
  <2> HIDE DEF T
  <2>3. 0..n \subseteq T
    BY <1>1, <2>1, <2>2, CountUp
  <2> QED
    BY <2>3 DEF T
<1>11. g0 \in [0..n -> Memory]
  <2> HIDE DEF g0, start
  <2> QED
    BY <1>8, <1>10
<1>12. MemoryOf(s, ts) = g0[n]
  BY DEF MemoryOf
<1> HIDE DEF g0
<1> QED
  BY <1>9, <1>11, <1>12

-----------------------------------------------------------------------------
(* What a memory tells of an object *)

\* The results of the first i - 1 turns and the first j of the next.
Upto(ts, i, j) == {p \in Places(ts) : p[1] < i \/ (p[1] = i /\ p[2] <= j)}

Latest(p, C) == p \in C /\ \A q \in C : ~Before(p, q)

\* Memory m tells what the changes of o among W came to, and d without any.
TellsOf(m, d, ts, W, o) ==
  LET C == Changes(ts, o) \cap W
  IN  IF C = {} THEN o \notin m.living /\ (o \in m.deleted <=> o \in d)
      ELSE \E p \in C : /\ Latest(p, C)
                        /\ o \in m.living <=> At(ts, p).kind = "changed"
                        /\ o \in m.deleted <=> At(ts, p).kind = "deleted"

Tells(m, d, ts, W) == \A o \in Objects : TellsOf(m, d, ts, W, o)

LEMMA PlacesFacts ==
  ASSUME NEW ts \in Seq(Seq(Results)), NEW p \in Places(ts)
  PROVE  /\ p = <<p[1], p[2]>> /\ p[1] \in 1..Len(ts) /\ p[2] \in 1..Len(ts[p[1]])
         /\ At(ts, p) \in Results
<1>1. PICK i \in DOMAIN ts : p \in {i} \X DOMAIN ts[i]
  BY DEF Places
<1>2. ts[i] \in Seq(Results) /\ i \in 1..Len(ts)
  OBVIOUS
<1>3. p = <<p[1], p[2]>> /\ p[1] = i /\ p[2] \in DOMAIN ts[i]
  BY <1>1
<1>4. DOMAIN ts[i] = 1..Len(ts[i])
  BY <1>2
<1> QED
  BY <1>2, <1>3, <1>4 DEF At

LEMMA OneMore ==
  ASSUME NEW ts \in Seq(Seq(Results)), NEW i \in 1..Len(ts), NEW j \in 1..Len(ts[i]),
         NEW m \in Memory, NEW d, Tells(m, d, ts, Upto(ts, i, j - 1))
  PROVE  Tells(Extracted(m, ts[i][j]), d, ts, Upto(ts, i, j))
<1> DEFINE here == <<i, j>>
           r == ts[i][j]
           V == Upto(ts, i, j - 1)
           W == Upto(ts, i, j)
<1>1. ts[i] \in Seq(Results) /\ r \in Results
  OBVIOUS
<1>2. here \in Places(ts) /\ At(ts, here) = r
  BY <1>1 DEF Places, At
<1>3. W = V \cup {here}
  <2>1. ASSUME NEW p \in Places(ts)
        PROVE  p \in W <=> p \in V \/ p = here
    <3>1. p = <<p[1], p[2]>> /\ p[1] \in Nat /\ p[2] \in Nat
      BY PlacesFacts
    <3>2. p = here <=> p[1] = i /\ p[2] = j
      BY <3>1
    <3> QED
      BY <3>1, <3>2 DEF Upto
  <2> QED
    BY <2>1, <1>2 DEF Upto
<1>4. ASSUME NEW q \in V PROVE Before(q, here) /\ ~Before(here, q)
  <2>1. q[1] \in Nat /\ q[2] \in Nat
    BY PlacesFacts DEF Upto
  <2> QED
    BY <2>1 DEF Before, Upto
<1>5. ~Before(here, here)
  BY DEF Before
<1> HIDE DEF here, V, W
<1> SUFFICES ASSUME NEW o \in Objects PROVE TellsOf(Extracted(m, r), d, ts, W, o)
  BY DEF Tells, W, r
<1>6. TellsOf(m, d, ts, V, o)
  BY DEF Tells, V
<1>7. CASE here \in Changes(ts, o)
  <2>1. r.kind \in {"changed", "deleted"} /\ r.obj = o
    BY <1>2, <1>7 DEF Changes
  <2>2. Latest(here, Changes(ts, o) \cap W)
    BY <1>3, <1>4, <1>5, <1>7 DEF Latest
  <2>3. /\ o \in Extracted(m, r).living <=> r.kind = "changed"
        /\ o \in Extracted(m, r).deleted <=> r.kind = "deleted"
    BY <1>1, <2>1, ExtractedFacts
  <2>4. Changes(ts, o) \cap W # {} /\ here \in Changes(ts, o) \cap W
    BY <1>3, <1>7
  <2> QED
    BY <1>2, <2>2, <2>3, <2>4 DEF TellsOf
<1>8. CASE here \notin Changes(ts, o)
  <2>1. ~(r.kind \in {"changed", "deleted"} /\ r.obj = o)
    BY <1>2, <1>8 DEF Changes
  <2>2. /\ o \in Extracted(m, r).living <=> o \in m.living
        /\ o \in Extracted(m, r).deleted <=> o \in m.deleted
    BY <1>1, <2>1, ExtractedFacts
  <2>3. Changes(ts, o) \cap W = Changes(ts, o) \cap V
    BY <1>3, <1>8
  <2> HIDE DEF r
  <2> QED
    BY <1>6, <2>2, <2>3 DEF TellsOf
<1> QED
  BY <1>7, <1>8

LEMMA OneTurnMore ==
  ASSUME NEW ts \in Seq(Seq(Results)), NEW i \in 1..Len(ts),
         NEW m \in Memory, NEW d, Tells(m, d, ts, Upto(ts, i, 0))
  PROVE  Tells(Absorbed(m, ts[i]), d, ts, Upto(ts, i + 1, 0))
<1> DEFINE n == Len(ts[i])
<1>1. ts[i] \in Seq(Results) /\ n \in Nat
  OBVIOUS
<1>2. PICK g \in [0..n -> Memory] :
        /\ g[0] = [m EXCEPT !.tasks = TRUE]
        /\ \A j \in 1..n : g[j] = Extracted(g[j - 1], ts[i][j])
        /\ Absorbed(m, ts[i]) = g[n]
  BY <1>1, AbsorbedRun
<1> DEFINE T == {j \in 0..n : Tells(g[j], d, ts, Upto(ts, i, j))}
<1>3. 0 \in T
  <2>1. g[0].living = m.living /\ g[0].deleted = m.deleted
    BY <1>2 DEF Memory
  <2>2. Tells(g[0], d, ts, Upto(ts, i, 0))
    BY <2>1 DEF Tells, TellsOf
  <2> QED
    BY <1>1, <2>2
<1>4. ASSUME NEW j \in 1..n, j - 1 \in T PROVE j \in T
  <2>1. g[j - 1] \in Memory /\ g[j] = Extracted(g[j - 1], ts[i][j])
    BY <1>2, <1>4
  <2>2. Tells(Extracted(g[j - 1], ts[i][j]), d, ts, Upto(ts, i, j))
    BY <2>1, <1>4, OneMore
  <2> QED
    BY <1>1, <2>1, <2>2
<1>5. 0..n \subseteq T
  <2> HIDE DEF T, n
  <2> QED
    BY <1>1, <1>3, <1>4, CountUp
<1>6. Tells(g[n], d, ts, Upto(ts, i, n))
  <2>1. n \in 0..n
    BY <1>1
  <2> QED
    BY <1>5, <2>1
<1>7. Upto(ts, i, n) = Upto(ts, i + 1, 0)
  <2>1. ASSUME NEW p \in Places(ts) PROVE p \in Upto(ts, i, n) <=> p \in Upto(ts, i + 1, 0)
    <3>1. p[1] \in Nat /\ p[2] \in 1..Len(ts[p[1]])
      BY PlacesFacts
    <3>2. p[1] = i => p[2] \in 1..n
      BY <3>1
    <3> QED
      BY <1>1, <3>1, <3>2 DEF Upto
  <2> QED
    BY <2>1 DEF Upto
<1> QED
  BY <1>2, <1>6, <1>7

\* Of every object, the memory of a summary and the turns after it tells the last
\* change in these turns; without one, the deletion that the summary tells.
LEMMA MemoryTells ==
  ASSUME NEW s \in Memory \cup {None}, NEW ts \in Seq(Seq(Results))
  PROVE  /\ MemoryOf(s, ts) \in Memory
         /\ Tells(MemoryOf(s, ts), Recalled(s).deleted, ts, Places(ts))
<1> DEFINE n == Len(ts)
           d == Recalled(s).deleted
<1>1. n \in Nat
  OBVIOUS
<1>2. PICK g \in [0..n -> Memory] :
        /\ g[0] = Recalled(s)
        /\ \A i \in 1..n : g[i] = Absorbed(g[i - 1], ts[i])
        /\ MemoryOf(s, ts) = g[n]
  BY MemoryRun
<1> DEFINE T == {i \in 0..n : Tells(g[i], d, ts, Upto(ts, i + 1, 0))}
<1>3. 0 \in T
  <2>1. Upto(ts, 1, 0) = {}
    <3>1. ASSUME NEW p \in Places(ts) PROVE p \notin Upto(ts, 1, 0)
      <4>1. p[1] \in 1..Len(ts) /\ p[2] \in 1..Len(ts[p[1]])
        BY PlacesFacts
      <4> QED
        BY <4>1 DEF Upto
    <3> QED
      BY <3>1 DEF Upto
  <2>2. Tells(g[0], d, ts, {})
    BY <1>2, RecalledFacts DEF Tells, TellsOf
  <2>3. 0 + 1 = 1 /\ 0 \in 0..n
    BY <1>1
  <2> QED
    BY <2>1, <2>2, <2>3
<1>4. ASSUME NEW i \in 1..n, i - 1 \in T PROVE i \in T
  <2>1. g[i - 1] \in Memory /\ g[i] = Absorbed(g[i - 1], ts[i])
    BY <1>2, <1>4
  <2>2. Tells(g[i - 1], d, ts, Upto(ts, i, 0))
    <3>1. i - 1 + 1 = i
      OBVIOUS
    <3> QED
      BY <1>4, <3>1
  <2>3. Tells(Absorbed(g[i - 1], ts[i]), d, ts, Upto(ts, i + 1, 0))
    BY <2>1, <2>2, OneTurnMore
  <2> QED
    BY <1>1, <2>1, <2>3
<1>5. 0..n \subseteq T
  <2> HIDE DEF T, n
  <2> QED
    BY <1>1, <1>3, <1>4, CountUp
<1>6. Tells(g[n], d, ts, Upto(ts, n + 1, 0)) /\ g[n] \in Memory
  <2>1. n \in 0..n
    BY <1>1
  <2> QED
    BY <1>2, <1>5, <2>1
<1>7. Upto(ts, n + 1, 0) = Places(ts)
  <2>1. ASSUME NEW p \in Places(ts) PROVE p[1] < n + 1
    BY PlacesFacts
  <2> QED
    BY <2>1 DEF Upto
<1> QED
  BY <1>2, <1>6, <1>7

\* The history finds the change that the memory tells.
LEMMA LatestIsLast ==
  ASSUME NEW ts \in Seq(Seq(Results)), NEW o, NEW p, Latest(p, Changes(ts, o))
  PROVE  LastChange(ts, o) = At(ts, p).kind
<1> DEFINE C == Changes(ts, o)
           l == CHOOSE q \in C : \A x \in C : ~Before(q, x)
<1>1. p \in C /\ \A x \in C : ~Before(p, x)
  BY DEF Latest
<1>2. l \in C /\ \A x \in C : ~Before(l, x)
  BY <1>1
<1>3. p \in Places(ts) /\ l \in Places(ts)
  BY <1>1, <1>2 DEF Changes
<1>4. ~Before(p, l) /\ ~Before(l, p)
  BY <1>1, <1>2
<1>5. p = l
  <2> HIDE DEF l, C
  <2>1. /\ p = <<p[1], p[2]>> /\ p[1] \in Nat /\ p[2] \in Nat
        /\ l = <<l[1], l[2]>> /\ l[1] \in Nat /\ l[2] \in Nat
    BY <1>3, PlacesFacts
  <2>2. p[1] = l[1] /\ p[2] = l[2]
    BY <1>4, <2>1 DEF Before
  <2> QED
    BY <2>1, <2>2
<1> QED
  BY <1>5 DEF LastChange

Good(m, a) == Truthful(m, a, Unmistakable) /\ Complete(m, a, Lasting)

\* A new summary agrees with the history that has taken in the same turns.
LEMMA GoodStays ==
  ASSUME NEW s \in Memory \cup {None}, NEW a \in History, Good(s, a),
         NEW ts \in Seq(Seq(Results))
  PROVE  /\ MemoryOf(s, ts) \in Memory /\ After(a, ts) \in History
         /\ Good(MemoryOf(s, ts), After(a, ts))
<1> DEFINE m == MemoryOf(s, ts)
           b == After(a, ts)
           d == Recalled(s).deleted
<1>1. m \in Memory /\ Tells(m, d, ts, Places(ts))
  BY MemoryTells
<1>2. ASSUME NEW o \in Objects, Changes(ts, o) = {}
      PROVE  /\ b.last[o] = a.last[o] /\ b.last[o] \in {"none", "changed", "deleted"} /\ o \notin b.fresh
             /\ o \notin m.living
             /\ o \in Unmistakable /\ o \in m.deleted => b.last[o] = "deleted"
             /\ o \in Lasting /\ b.last[o] = "deleted" => o \in m.deleted
  <2>1. b.last[o] = a.last[o] /\ o \notin b.fresh
    BY <1>2 DEF After
  <2>2. o \notin m.living /\ (o \in m.deleted <=> o \in d)
    BY <1>1, <1>2 DEF Tells, TellsOf
  <2>3. /\ o \in Unmistakable /\ o \in d => s # None /\ o \in s.deleted
        /\ o \in Lasting /\ s # None /\ o \in s.deleted => o \in d
    BY RecalledFacts
  <2>4. /\ o \in Unmistakable /\ s # None /\ o \in s.deleted => a.last[o] = "deleted"
        /\ o \in Lasting /\ a.last[o] = "deleted" => s # None /\ o \in s.deleted
    BY DEF Good, Truthful, Complete
  <2>5. a.last[o] \in {"none", "changed", "deleted"}
    BY DEF History
  <2> HIDE DEF m, b, d
  <2> QED
    BY <2>1, <2>2, <2>3, <2>4, <2>5
<1>3. ASSUME NEW o \in Objects, Changes(ts, o) # {}
      PROVE  /\ b.last[o] \in {"changed", "deleted"}
             /\ o \in m.living <=> b.last[o] = "changed"
             /\ o \in m.deleted <=> b.last[o] = "deleted"
  <2>1. Changes(ts, o) \cap Places(ts) = Changes(ts, o)
    BY DEF Changes
  <2>2. PICK p \in Changes(ts, o) :
               /\ Latest(p, Changes(ts, o))
               /\ o \in m.living <=> At(ts, p).kind = "changed"
               /\ o \in m.deleted <=> At(ts, p).kind = "deleted"
    <3> HIDE DEF m, d
    <3> QED
      BY <1>1, <1>3, <2>1 DEF Tells, TellsOf
  <2>3. b.last[o] = At(ts, p).kind
    BY <1>3, <2>2, LatestIsLast DEF After
  <2>4. At(ts, p).kind \in {"changed", "deleted"}
    BY <2>2 DEF Changes
  <2> QED
    BY <2>2, <2>3, <2>4
<1>4. b \in History
  <2>1. b = [last |-> [o \in Objects |-> b.last[o]], fresh |-> b.fresh]
    BY DEF After
  <2>2. b.fresh \subseteq Objects
    BY DEF After
  <2> HIDE DEF b
  <2> QED
    BY <1>2, <1>3, <2>1, <2>2 DEF History
<1> HIDE DEF m, b
<1>5. m # None
  BY <1>1, NoneAssumption
<1>6. Complete(m, b, Lasting)
  <2> SUFFICES ASSUME NEW o \in Lasting
               PROVE  /\ b.last[o] = "deleted" => o \in m.deleted
                      /\ b.last[o] = "changed" /\ o \in b.fresh => o \in m.living
    BY <1>5 DEF Complete
  <2>1. o \in Objects
    BY DEF Lasting
  <2> QED
    BY <1>2, <1>3, <2>1
<1>7. Truthful(m, b, Unmistakable)
  <2> SUFFICES ASSUME NEW o \in Unmistakable
               PROVE  /\ o \in m.living => b.last[o] = "changed"
                      /\ o \in m.deleted => b.last[o] = "deleted"
    BY DEF Truthful
  <2>1. o \in Objects
    BY DEF Unmistakable
  <2> QED
    BY <1>2, <1>3, <2>1
<1> QED
  BY <1>1, <1>4, <1>6, <1>7 DEF Good, m, b

\* What was good is good in the file and when it is read again.
LEMMA GoodSanitized ==
  ASSUME NEW m \in Memory, NEW a \in History, Good(m, a)
  PROVE  Sanitized(m) \in Memory /\ Good(Sanitized(m), a)
<1>1. Sanitized(m) \in Memory /\ Sanitized(m) # None /\ m # None
  BY SanitizedFacts, NoneAssumption
<1>2. Truthful(Sanitized(m), a, Unmistakable)
  BY <1>1, SanitizedFacts DEF Good, Truthful
<1>3. Complete(Sanitized(m), a, Lasting)
  BY <1>1, SanitizedFacts DEF Good, Complete
<1> QED
  BY <1>1, <1>2, <1>3 DEF Good

-----------------------------------------------------------------------------
(* The invariant *)

MemoryInv == TypeOK /\ Good(summary, absorbed) /\ Good(payload.memory, payload.absorbed)

LEMMA GoodNothing == Nothing \in History /\ Good(None, Nothing)
<1>1. \A o \in Objects : Nothing.last[o] = "none"
  BY DEF Nothing
<1> QED
  BY <1>1 DEF Nothing, History, Good, Truthful, Complete, Lasting

\* Pruning shortens results and loses none.
LEMMA PrunedTyped ==
  ASSUME NEW ts \in Seq(Seq(Results))
  PROVE  /\ Pruned(ts) \in Seq(Seq(Results))
         /\ Older(Pruned(ts)) \in Seq(Seq(Results)) \/ Len(Pruned(ts)) <= Retained
         /\ Kept(Pruned(ts)) \in Seq(Seq(Results)) \/ Len(Pruned(ts)) <= Retained
<1>1. ASSUME NEW xs \in Seq(Seq(Results)), Len(xs) > Retained
      PROVE  Older(xs) \in Seq(Seq(Results)) /\ Kept(xs) \in Seq(Seq(Results))
  BY <1>1, MemoryAssumption, SubSeqProperties DEF Older, Kept
<1>2. Pruned(ts) \in Seq(Seq(Results))
  <2>1. CASE Len(ts) <= Retained
    BY <2>1 DEF Pruned
  <2>2. CASE Len(ts) > Retained
    <3> DEFINE old == Older(ts)
               new == [i \in DOMAIN old |-> [j \in DOMAIN ts[i] |-> PrunedResult(ts[i][j])]]
    <3>1. Len(old) = Len(ts) - Retained /\ Len(old) \in Nat /\ Len(ts) \in Nat /\ DOMAIN old = 1..Len(old)
      BY <2>2, MemoryAssumption, SubSeqProperties DEF Older
    <3>2. ASSUME NEW i \in 1..Len(old)
          PROVE  [j \in DOMAIN ts[i] |-> PrunedResult(ts[i][j])] \in Seq(Results)
      <4>1. i \in 1..Len(ts) /\ ts[i] \in Seq(Results)
        BY <3>1, MemoryAssumption
      <4>2. DOMAIN ts[i] = 1..Len(ts[i]) /\ Len(ts[i]) \in Nat
        BY <4>1
      <4>3. \A j \in 1..Len(ts[i]) : PrunedResult(ts[i][j]) \in Results
        BY <4>1 DEF PrunedResult, Results
      <4> QED
        BY <4>2, <4>3
    <3>3. new \in Seq(Seq(Results))
      <4> HIDE DEF old
      <4> QED
        BY <3>1, <3>2
    <3>4. Pruned(ts) = new \o Kept(ts)
      <4>1. ~(Len(ts) <= Retained)
        BY <2>2, MemoryAssumption
      <4> QED
        BY <4>1 DEF Pruned
    <3>5. Kept(ts) \in Seq(Seq(Results))
      BY <1>1, <2>2
    <3> HIDE DEF new
    <3> QED
      BY <3>3, <3>4, <3>5
  <2>3. Len(ts) \in Nat /\ Retained \in Nat
    BY MemoryAssumption
  <2> QED
    BY <2>1, <2>2, <2>3
<1>3. Len(Pruned(ts)) \in Nat /\ Retained \in Nat
  BY <1>2, MemoryAssumption
<1> QED
  BY <1>1, <1>2, <1>3

LEMMA LastReplaced ==
  ASSUME NEW S, NEW s \in Seq(S), NEW x, s # <<>> => x \in S
  PROVE  [s EXCEPT ![Len(s)] = x] \in Seq(S)
<1> DEFINE n == Len(s)
           t == [i \in 1..n |-> IF i = n THEN x ELSE s[i]]
<1>1. n \in Nat /\ \A i \in 1..n : s[i] \in S
  OBVIOUS
<1>2. [s EXCEPT ![n] = x] = t
  OBVIOUS
<1>3. ASSUME NEW i \in 1..n PROVE t[i] \in S
  <2>1. s # <<>>
    BY <1>3
  <2> QED
    BY <1>1, <2>1
<1>4. t \in Seq(S)
  <2>1. t = [i \in 1..n |-> t[i]]
    OBVIOUS
  <2> HIDE DEF t, n
  <2> QED
    BY <1>1, <1>3, <2>1
<1> QED
  BY <1>2, <1>4

LEMMA MemoryInit == Init => MemoryInv
BY GoodNothing DEF Init, MemoryInv, TypeOK

LEMMA MemoryNext == MemoryInv /\ [Next]_vars => MemoryInv'
<1> SUFFICES ASSUME MemoryInv, [Next]_vars PROVE MemoryInv'
  OBVIOUS
<1> USE DEF MemoryInv, TypeOK
<1>1. ASSUME NEW long \in BOOLEAN, Ask(long) PROVE MemoryInv'
  <2> DEFINE ts == Pruned(Append(turns, <<>>))
  <2>1. Append(turns, <<>>) \in Seq(Seq(Results))
    OBVIOUS
  <2>2. ts \in Seq(Seq(Results))
    BY <2>1, PrunedTyped
  <2> HIDE DEF ts
  <2>3. CASE long /\ Len(ts) > Retained
    <3>1. Older(ts) \in Seq(Seq(Results)) /\ Kept(ts) \in Seq(Seq(Results))
      <4>1. ~(Len(ts) <= Retained)
        BY <2>2, <2>3, MemoryAssumption
      <4>2. /\ Older(ts) \in Seq(Seq(Results)) \/ Len(ts) <= Retained
            /\ Kept(ts) \in Seq(Seq(Results)) \/ Len(ts) <= Retained
        BY <2>1, PrunedTyped DEF ts
      <4> QED
        BY <4>1, <4>2
    <3>2. summary' = MemoryOf(summary, Older(ts)) /\ turns' = Kept(ts)
          /\ absorbed' = After(absorbed, Older(ts)) /\ payload' = payload
      BY <1>1, <2>3 DEF Ask, ts
    <3> QED
      BY <3>1, <3>2, GoodStays
  <2>4. CASE ~(long /\ Len(ts) > Retained)
    BY <1>1, <2>2, <2>4 DEF Ask, ts
  <2> QED
    BY <2>3, <2>4
<1>2. ASSUME NEW r \in Results, ToolResult(r) PROVE MemoryInv'
  <2>1. turns' = [turns EXCEPT ![Len(turns)] = Append(turns[Len(turns)], r)]
    BY <1>2 DEF ToolResult
  <2>2. turns # <<>> => Append(turns[Len(turns)], r) \in Seq(Results)
    OBVIOUS
  <2>3. turns' \in Seq(Seq(Results))
    BY <2>1, <2>2, LastReplaced
  <2> QED
    BY <1>2, <2>3 DEF ToolResult
<1>3. CASE EndTurn
  BY <1>3 DEF EndTurn
<1>4. CASE CancelTurn
  <2>1. turns' \in Seq(Seq(Results))
    <3>1. CASE active = "asked"
      <4>1. turns' = SubSeq(turns, 1, Len(turns) - 1)
        BY <1>4, <3>1 DEF CancelTurn, Front
      <4>2. Len(turns) = 0 => SubSeq(turns, 1, Len(turns) - 1) = <<>>
        OBVIOUS
      <4>3. Len(turns) \in Nat /\ \A i \in 1..Len(turns) - 1 : turns[i] \in Seq(Results)
        OBVIOUS
      <4>4. Len(turns) # 0 => turns' \in Seq(Seq(Results))
        BY <4>1, <4>3, SubSeqProperties
      <4> QED
        BY <4>1, <4>2, <4>4
    <3>2. CASE active # "asked"
      <4>1. PICK n \in 0..Len(Last(turns)) :
              turns' = [turns EXCEPT ![Len(turns)] = SubSeq(turns[Len(turns)], 1, n)]
        BY <1>4, <3>2 DEF CancelTurn
      <4>2. turns # <<>> => SubSeq(turns[Len(turns)], 1, n) \in Seq(Results)
        BY <4>1, SubSeqProperties DEF Last
      <4> QED
        BY <4>1, <4>2, LastReplaced
    <3> QED
      BY <3>1, <3>2
  <2> QED
    BY <1>4, <2>1 DEF CancelTurn
<1>5. CASE Save
  <2>1. MemoryOf(summary, turns) \in Memory /\ After(absorbed, turns) \in History
        /\ Good(MemoryOf(summary, turns), After(absorbed, turns))
    BY GoodStays
  <2>2. /\ Sanitized(MemoryOf(summary, turns)) \in Memory
        /\ Good(Sanitized(MemoryOf(summary, turns)), After(absorbed, turns))
    BY <2>1, GoodSanitized
  <2> QED
    BY <1>5, <2>1, <2>2, GoodNothing DEF Save
<1>6. CASE Open
  <2>1. payload.memory \in Memory /\ payload.absorbed \in History
    BY <1>6 DEF Open
  <2>2. Sanitized(payload.memory) \in Memory /\ Good(Sanitized(payload.memory), payload.absorbed)
    BY <2>1, GoodSanitized
  <2> QED
    BY <1>6, <2>1, <2>2 DEF Open
<1>7. CASE Clear
  BY <1>7, GoodNothing DEF Clear
<1>8. CASE UNCHANGED vars
  BY <1>8 DEF vars
<1> QED
  BY <1>1, <1>2, <1>3, <1>4, <1>5, <1>6, <1>7, <1>8 DEF Next

\* Of an object whose name nothing else is cut down to, no summary and no saved
\* session tells what is no longer so: whatever was compacted, parsed, saved and
\* opened (RollingMemory).
THEOREM SummariesAreTrue == Spec => []SummaryTrue
<1>1. MemoryInv => SummaryTrue
  BY DEF MemoryInv, Good, SummaryTrue
<1> QED
  BY <1>1, MemoryInit, MemoryNext, PTL DEF Spec

\* The deletion of an object whose name is read as it was written is never
\* forgotten, and while it lives, it is told by the summary that its last change
\* went into (RollingMemory._merge_previous_summary, sanitize_persisted_text).
THEOREM FactsAreKept == Spec => []FactsKept
<1>1. MemoryInv => FactsKept
  BY DEF MemoryInv, Good, FactsKept
<1> QED
  BY <1>1, MemoryInit, MemoryNext, PTL DEF Spec
=============================================================================

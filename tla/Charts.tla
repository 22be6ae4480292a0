-------------------------------- MODULE Charts --------------------------------
(***************************************************************************)
(* Statistical process control on one characteristic (services/detect:     *)
(* worker.py, Charts; spc.py): a sliding window of deviations in measured  *)
(* order and the four Western Electric rules on the point that arrived.    *)
(*                                                                         *)
(* Deviations are integers.  A point lies beyond k sigma of the others     *)
(* when n v - S, n times its distance from their mean, has a square above  *)
(* k^2 (n Q - S^2), k^2 n^2 times their variance (n, S, Q: their number,   *)
(* sum and sum of squares).  That is the code's z > k without rounding;    *)
(* with no variance the code divides by 1e-9 and any difference is beyond. *)
(***************************************************************************)
EXTENDS Integers, Sequences, FiniteSets, FiniteSetsExt, Functions

CONSTANTS WINDOW, WARMUP

ASSUME WindowAssumption == WINDOW \in Nat /\ WARMUP \in Nat /\ 2 <= WARMUP /\ WARMUP <= WINDOW

\* A point is [at, dev]; tuples are compared by time, then by value.
LessEq(x, y) == x.at < y.at \/ (x.at = y.at /\ x.dev <= y.dev)

\* Mutant: points are kept as they arrive.
insortArrival(buf, x) == Append(buf, x)

insort(buf, x) ==
    LET i == Cardinality({j \in DOMAIN buf : LessEq(buf[j], x)})
    IN  SubSeq(buf, 1, i) \o <<x>> \o SubSeq(buf, i + 1, Len(buf))

Trimmed(buf) == IF Len(buf) > WINDOW THEN Tail(buf) ELSE buf

Occurs(buf, x) == \E i \in DOMAIN buf : buf[i] = x

\* Mutant: the newest arrival taken for the last point.
indexLast(buf, x) == Len(buf)

index(buf, x) == Min({i \in DOMAIN buf : buf[i] = x})

\* The other points of the window: number, sum and sum of squares.
History(buf, pos) ==
    LET others == DOMAIN buf \ {pos}
    IN  [n |-> Cardinality(others),
         s |-> SumFunction([i \in others |-> buf[i].dev]),
         q |-> SumFunction([i \in others |-> buf[i].dev * buf[i].dev])]

Beyond(v, k, side, h) ==
    LET d == side * (h.n * v - h.s)
    IN  d > 0 /\ d * d > k * k * (h.n * h.q - h.s * h.s)

Sides == {1, -1}

\* How many of the last m points up to pos lie beyond k sigma on one side.
same_side_count(buf, pos, m, k, side, h) ==
    Cardinality({i \in (pos - m + 1)..pos : Beyond(buf[i].dev, k, side, h)})

\* The rules reported at pos, looking back from it.
western_electric(buf, pos) ==
    LET h == History(buf, pos)
        Run(m, c, k) ==
            pos >= m /\ \E side \in Sides : same_side_count(buf, pos, m, k, side, h) >= c
    IN  {r \in 1..4 : \/ r = 1 /\ Run(1, 1, 3)
                      \/ r = 2 /\ Run(3, 2, 2)
                      \/ r = 3 /\ Run(5, 4, 1)
                      \/ r = 4 /\ Run(8, 8, 0)}

\* observe(): the window afterwards and the rule it alerts on, 0 for none.  A
\* point that the full window dropped at once is looked up and raises.
observe(buf, x) ==
    LET now == Trimmed(insort(buf, x))
        rules == IF Len(now) >= WARMUP /\ Occurs(now, x)
                 THEN western_electric(now, index(now, x)) ELSE {}
    IN  [buf |-> now, rule |-> IF rules = {} THEN 0 ELSE Min(rules)]

-----------------------------------------------------------------------------
(* The same question, asked of the readings as a set.                      *)

\* The newest m points of a set.
Newest(S, m) == {x \in S : Cardinality({y \in S : ~LessEq(y, x)}) < m}
UpTo(S, x) == {y \in S : LessEq(y, x)}

\* Average and spread of the others, as sums over a set.
Others(S, x) ==
    LET T == S \ {x}
    IN  [n |-> Cardinality(T),
         s |-> SumFunction([y \in T |-> y.dev]),
         q |-> SumFunction([y \in T |-> y.dev * y.dev])]

\* x ends a run: among the last m readings up to x, and there are as many, c lie
\* beyond k sigma of all readings but x on one side of their mean.
EndsRun(S, x, m, c, k) ==
    LET h == Others(S, x)
        last == Newest(UpTo(S, x), m)
    IN  /\ Cardinality(UpTo(S, x)) >= m
        /\ \E side \in Sides :
              Cardinality({y \in last : Beyond(y.dev, k, side, h)}) >= c

\* What the readings of a characteristic call for when x has just come: the lowest
\* rule whose run it ends.
CalledFor(all, x) ==
    LET S == Newest(all, WINDOW)
        ended == {r \in 1..4 : \/ r = 1 /\ EndsRun(S, x, 1, 1, 3)
                               \/ r = 2 /\ EndsRun(S, x, 3, 2, 2)
                               \/ r = 3 /\ EndsRun(S, x, 5, 4, 1)
                               \/ r = 4 /\ EndsRun(S, x, 8, 8, 0)}
    IN  IF Cardinality(S) < WARMUP \/ x \notin S \/ ended = {} THEN 0 ELSE Min(ended)

===============================================================================

-------------------------------- MODULE Detect --------------------------------
(***************************************************************************)
(* The detect service's two verdicts (services/detect: changepoint.py,     *)
(* msa.py): where a characteristic started going wrong, and whether a      *)
(* bench can be trusted.                                                   *)
(*                                                                         *)
(* A series is a sequence of integer deviations.  A line fitted to N of    *)
(* its points, with x their indexes, is kept as whole numbers: B is N      *)
(* squared times the variance of x, A the same with their covariance and C *)
(* with the variance of the values.  The slope is A / B, the fitted value  *)
(* at x is F(x) / (N B), the residual sigma sqrt(R) / (N B) with R =       *)
(* (C B - A A) B, and every comparison of the code is made on squares.     *)
(***************************************************************************)
EXTENDS Integers, Sequences, FiniteSets, FiniteSetsExt

CONSTANTS
    MIN_POINTS,
    MIN_SIZE,        \* KernelCPD: points between two breakpoints
    MIN_SHIFT,       \* in steps
    DRIFT_SLOPE_T,
    UPPER,           \* |deviation| at the limit, in steps
    MIN_VALUES,
    RECENT,
    BIAS_THRESHOLD   \* in steps

ASSUME DetectAssumption ==
    /\ {MIN_POINTS, MIN_SIZE, MIN_SHIFT, DRIFT_SLOPE_T, UPPER} \subseteq Nat
    /\ {RECENT, BIAS_THRESHOLD} \subseteq Nat
    /\ MIN_VALUES \in Nat \ {0}
    /\ MIN_SIZE >= 2

Abs(x) == IF x < 0 THEN -x ELSE x
SumOver(S, f(_)) == MapThenSumSet(f, S)
Total(dev, I) == SumOver(I, LAMBDA i : dev[i])

\* ruptures: the points at which new segments start, if it finds any.
predict(n) ==
    {P \in SUBSET (MIN_SIZE + 1..n + 1 - MIN_SIZE) :
        \A p, q \in P : p = q \/ Abs(p - q) >= MIN_SIZE}

Fit(dev, I) ==
    LET N == Cardinality(I)
        X == SumOver(I, LAMBDA i : i)
        Y == Total(dev, I)
        A == N * SumOver(I, LAMBDA i : i * dev[i]) - X * Y
        B == N * SumOver(I, LAMBDA i : i * i) - X * X
        C == N * SumOver(I, LAMBDA i : dev[i] * dev[i]) - Y * Y
    IN  [N |-> N, X |-> X, Y |-> Y, A |-> A, B |-> B, rest |-> C * B - A * A]

\* slope / standard error against t; a line without residuals has no error.
SteeperThan(f, t) == f.N * f.A * f.A > t * t * f.rest
FlatterThan(f, t) == f.A = 0 \/ f.N * f.A * f.A < t * t * f.rest

\* How far, times N B, the fitted value at x is from the limit on that side.
Missing(f, x, side) == UPPER * f.N * f.B - side * (f.B * f.Y + f.A * (f.N * x - f.X))

\* With k residual sigmas added the line is at or beyond the limit, or not beyond.
Reaches(f, x, side, k) ==
    LET m == Missing(f, x, side) IN m <= 0 \/ m * m <= k * k * f.rest * f.B
StaysWithin(f, x, side, k) ==
    LET m == Missing(f, x, side) IN m >= 0 /\ m * m >= k * k * f.rest * f.B

\* The region to fit: without the last segment if that is flat.
SegmentEnd(dev, bkps, change) ==
    LET n == Len(dev)
        tail == Max(bkps)
    IN  IF tail > change /\ FlatterThan(Fit(dev, tail..n), DRIFT_SLOPE_T)
        THEN tail - 1 ELSE n

NoChange == [verdict |-> "NONE", change |-> 0, onset |-> 0]

\* detect_change, given the breakpoints; indexes count from 1.
detect_change(dev, bkps) ==
    LET n == Len(dev)
        change == Min(bkps)
        before == 1..(change - 1)
        after == change..n
        \* the shift times the lengths of both parts
        shift == Total(dev, after) * (change - 1) - Total(dev, before) * (n + 1 - change)
        side == IF shift < 0 THEN -1 ELSE 1
        end == SegmentEnd(dev, bkps, change)
        fit == Fit(dev, change..end)
        failed == {x \in after : side * dev[x] >= UPPER /\ Reaches(fit, x, side, 3)}
        \* the points before the fitted ramp plus two sigma crosses the limit
        uncrossed == {x \in change..end : IF side * fit.A > 0 THEN StaysWithin(fit, x, side, 2)
                                          ELSE Reaches(fit, x, side, 2)}
    IN  IF n < MIN_POINTS \/ bkps = {} THEN NoChange
        ELSE IF Abs(shift) < MIN_SHIFT * (change - 1) * (n + 1 - change) THEN NoChange
        ELSE IF SteeperThan(fit, DRIFT_SLOPE_T)
        THEN [verdict |-> "DRIFT", change |-> change,
              onset |-> CASE failed # {} -> Min(failed)
                          [] failed = {} /\ uncrossed # {} -> Max(uncrossed)
                          [] OTHER -> change]
        ELSE [verdict |-> "STEP", change |-> change, onset |-> change]

\* The newest RECENT readings of a bench.
Latest(own) == IF Len(own) <= RECENT THEN own ELSE SubSeq(own, Len(own) - RECENT + 1, Len(own))

Agree(p, q) ==
    LET sum(s) == Total(s, DOMAIN s)
    IN  Abs(sum(p) * Len(q) - sum(q) * Len(p)) < BIAS_THRESHOLD * Len(p) * Len(q)

\* capability: own readings and a set of peers' series, whether vehicles were
\* read again and whether those readings scatter.  Agreeing with one peer is enough.
capability(own, peers, repeats, scattered) ==
    IF Len(own) < MIN_VALUES THEN [capable |-> FALSE, method |-> "insufficient-data"]
    ELSE [capable |-> /\ repeats => ~scattered
                      /\ peers = {} \/ \E p \in peers : Agree(Latest(own), Latest(p)),
          method |-> IF repeats THEN "grr+bias-vs-peers" ELSE "bias-vs-peers"]

===============================================================================

--------------------------------- MODULE Plant ---------------------------------
(***************************************************************************)
(* The line and what its gauges report (packages/qgate-generator:          *)
(* scenario.py, stream.py): at takt t station k holds vehicle t - k, a     *)
(* scenario's injects move the true values, a bench's bias only what it    *)
(* reads at end of line.                                                   *)
(*                                                                         *)
(* Time is in takts, deviations are in steps with LIMIT steps to half a    *)
(* tolerance.  The noise of a capable process and of a good gauge is left  *)
(* out; a bench in .scattered repeats its readings badly.                  *)
(***************************************************************************)
EXTENDS Integers, FiniteSets, FiniteSetsExt

CONSTANTS
    EOL,         \* the number of the last station; stations are 1..EOL
    Chars,       \* characteristics: <<station, number>>
    FitsLot,     \* stations that fit parts from lots
    Benches,     \* how many end-of-line benches there are
    LIMIT,       \* half the tolerance band, in steps
    LOT_BLOCK,
    LOT_COUNT,
    Scenarios

Stations == 1..EOL

ASSUME PlantAssumption ==
    /\ EOL \in Nat \ {0}
    /\ Chars \subseteq Stations \X Nat
    /\ FitsLot \subseteq Stations
    /\ {Benches, LIMIT, LOT_BLOCK, LOT_COUNT} \subseteq Nat \ {0}
    /\ \A sc \in Scenarios : sc.vehicles \in Nat

Every == <<>>   \* an inject without a characteristic: all of the station's
Open == -1    \* an inject without an end

Vehicles(sc) == 0..(sc.vehicles - 1)

entered_at(n, s) == n + s
tested_at(n) == entered_at(n, EOL)
bench_of(n) == n % Benches
lot_id(s, n) == <<s, (n \div LOT_BLOCK) % LOT_COUNT>>
parts_lots(s, n) == IF s \in FitsLot THEN {lot_id(s, n)} ELSE {}

ramp(i, n) ==
    CASE n < i.start -> 0
      [] n >= i.start /\ (i.end = Open \/ n >= i.end) -> i.magnitude
      [] OTHER -> (i.magnitude * (n - i.start)) \div (i.end - i.start)

applies(i, c, n) ==
    /\ i.station = c[1]
    /\ i.char \in {Every, c}
    /\ IF i.kind = "lot" THEN \E s \in FitsLot : i.lot = lot_id(s, n)
       ELSE n >= i.start /\ (i.kind = "noise" /\ i.end # Open => n < i.end)

Sum(f) == MapThenSumSet(LAMBDA i : f[i], DOMAIN f)

\* A one-off defect of the vehicle, and what the injects do to the part.
true_value(sc, c, n) ==
    LET part == {i \in sc.injects : i.kind # "bench_bias" /\ applies(i, c, n)}
        delta(i) == IF i.kind = "noise" THEN sc.shared[n] * i.magnitude ELSE ramp(i, n)
        defect == {d \in sc.defects : d.vehicle = n /\ d.char = c}
    IN  Sum([d \in defect |-> d.sign * ((3 * LIMIT) \div 2)]) + Sum([i \in part |-> delta(i)])

\* Inline gauges report the part as it is, the bench adds its bias.
reported(sc, c, n) ==
    LET bias == {i \in sc.injects : /\ i.kind = "bench_bias" /\ i.bench = bench_of(n)
                                    /\ c[1] = EOL /\ applies(i, c, n)}
    IN  true_value(sc, c, n) + Sum([i \in bias |-> ramp(i, n)])

out_of_tolerance(v) == v < -LIMIT \/ v > LIMIT

\* A fault code names the station of the characteristic that is out.
fault_codes(sc, n) ==
    {c[1] : c \in {x \in Chars :
        \/ out_of_tolerance(true_value(sc, x, n))
        \/ x[1] = EOL /\ out_of_tolerance(reported(sc, x, n))}}

\* The stream, as the vehicles' readings and verdicts; repeats are taken at end
\* of line, of the vehicles in .repeated.
generate(sc) ==
    [vehicles |-> Vehicles(sc),
     dev |-> [n \in Vehicles(sc) |-> [c \in Chars |-> reported(sc, c, n)]],
     faults |-> [n \in Vehicles(sc) |-> fault_codes(sc, n)],
     repeated |-> sc.repeated,
     scattered |-> sc.scattered]

Plants == {generate(sc) : sc \in Scenarios}

===============================================================================

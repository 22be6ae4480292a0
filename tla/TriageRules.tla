------------------------------ MODULE TriageRules ------------------------------
(***************************************************************************)
(* The agent's pure rules (services/agent: nodes.py; tools/models.py):     *)
(* which hypotheses count, where a triage goes after the evidence is in,   *)
(* and what it proposes to hold.  No model takes part in them.             *)
(*                                                                         *)
(* A sibling is [vin, at, lots]: another vehicle with the code, when it    *)
(* entered the suspect station and the lots it was fitted with there.      *)
(***************************************************************************)
EXTENDS Integers, Sequences, FiniteSets

CONSTANTS
    NO_PATTERN,
    LOT_MIN,
    LOT_SHARE,         \* in percent
    LOT_SPREAD_TAKTS

ASSUME RulesAssumption ==
    /\ {NO_PATTERN, LOT_MIN, LOT_SHARE, LOT_SPREAD_TAKTS} \subseteq Nat
    /\ LOT_MIN > NO_PATTERN

\* Mutant: any characteristic on the map will do, whichever station it is pinned on.
validate_hypothesesChar(ranked, allowed) ==
    \A i \in DOMAIN ranked : \E x \in allowed : x.char = ranked[i].char

\* A ranking stands when all of it is on the map.
validate_hypotheses(ranked, allowed) == \A i \in DOMAIN ranked : ranked[i] \in allowed

\* Mutant: insufficient data is taken for a bad bench.
routeUnknownIsBad(drift, bench, n) ==
    IF ~bench.capable THEN "bench_alert"
    ELSE IF drift.verdict # "NONE" /\ n <= NO_PATTERN THEN "escalate" ELSE "bound"

\* Mutant: a change is enough, whoever else failed.
routeOnChange(drift, bench, n) ==
    IF ~bench.capable /\ bench.method # "insufficient-data" THEN "bench_alert" ELSE "bound"

route(drift, bench, n) ==
    IF ~bench.capable /\ bench.method # "insufficient-data" THEN "bench_alert"
    ELSE IF drift.verdict # "NONE" /\ n <= NO_PATTERN THEN "escalate" ELSE "bound"

Carriers(sib, lot) == {x \in sib : lot \in x.lots}
Lots(sib) == UNION {x.lots : x \in sib}

\* The lot of most siblings; of equals the one that comes first in their order.
top_lot(sib) ==
    LET Share(lot) == Cardinality(Carriers(sib, lot))
        Before(l, m) == \E x \in Carriers(sib, l) : \A y \in Carriers(sib, m) : x.vin <= y.vin
    IN  CHOOSE l \in Lots(sib) :
            \A m \in Lots(sib) : Share(l) > Share(m) \/ (Share(l) = Share(m) /\ Before(l, m))

lot_like(sib) ==
    /\ Cardinality(sib) >= LOT_MIN
    /\ Lots(sib) # {}
    /\ 100 * Cardinality(Carriers(sib, top_lot(sib))) >= LOT_SHARE * Cardinality(sib)

\* The siblings entered the station more takts apart than one block of a lot.
Spread(sib) == \E x, y \in sib : x.at - y.at > LOT_SPREAD_TAKTS

\* Mutant: the vehicle is taken to be among those found.
WithFound(vins, vin) == vins

With(vins, vin) == vins \cup {vin}

\* By lot, by window, or the single vehicle: ofLot and inWindow are the vehicles
\* with the top lot and those of [onset, eol).
decide_bounds(vin, station, sib, drift, ofLot, inWindow) ==
    CASE lot_like(sib) /\ Spread(sib) ->
            [kind |-> "LOT", station |-> station, vins |-> With(ofLot, vin)]
      [] ~(lot_like(sib) /\ Spread(sib)) /\ drift.verdict # "NONE" ->
            [kind |-> "WINDOW", station |-> station, vins |-> With(inWindow, vin)]
      [] OTHER -> [kind |-> "SINGLE", station |-> station, vins |-> {vin}]

===============================================================================

----------------------------- MODULE Investigation -----------------------------
(***************************************************************************)
(* One triage from its request to a proposal, an abstention or a failure   *)
(* (services/agent: nodes.py, intake .. compose; GateSystem has it as one  *)
(* step).  It reads the database at four different times while ingest is   *)
(* still writing it: a vehicle's build events, measurements and verdict    *)
(* come over three topics, each in order and none waiting for another.     *)
(***************************************************************************)
EXTENDS Plant, Detect, TriageRules, Functions

CONSTANTS
    FaultMap,  \* knowledge/fault_map.yaml: code -> candidates, in the author's order
    LOOKBACK,  \* in takts
    EOL_WAIT,  \* polls for the end-of-line record until the deadline
    Answers,   \* the rankings a model may return: sequences of hypotheses
    OddCodes,  \* what a manual request may give for fault codes
    MaxLag,    \* bound: records ingest is behind by when the triage starts
    LagTakts,  \* bound: how old such a record can be
    MaxAfter   \* bound: takts that pass while the triage runs

ASSUME InvestigationAssumption ==
    /\ UPPER = LIMIT
    /\ {LOOKBACK, EOL_WAIT, MaxLag, LagTakts, MaxAfter} \subseteq Nat
    /\ DOMAIN FaultMap \subseteq Stations
    /\ FaultMap \in
          [DOMAIN FaultMap -> Seq([station : Stations, chars : Seq(Chars) \ {<<>>}]) \ {<<>>}]
    /\ \A code \in DOMAIN FaultMap : \A i \in DOMAIN FaultMap[code] :
          \A c \in Range(FaultMap[code][i].chars) : c[1] = FaultMap[code][i].station
    /\ Answers \subseteq Seq([station : Nat, char : Nat \X Nat]) \ {<<>>}

VARIABLES
    plant,      \* what the line has produced, see generate
    missing,    \* records ingest has not written yet
    request,    \* the vehicle and its fault codes
    node,       \* where the graph is
    waited,     \* polls genealogy has waited
    genealogy, hypotheses, siblings, drift, bench, bounds,  \* the graph's state
    failure     \* why the triage failed

evidence == <<genealogy, hypotheses, siblings, drift, bench, bounds>>
vars == <<plant, missing, request, node, waited, evidence, failure>>

vin == request.vin
eol_ts == tested_at(vin)

-----------------------------------------------------------------------------
\* The records, in the order of their topic for one vehicle.
Build(n, s) == [topic |-> "build", vin |-> n, station |-> s, number |-> 0]
Reading(n, c) == [topic |-> "measurement", vin |-> n, station |-> c[1], number |-> c[2]]
Verdict(n) == [topic |-> "eol", vin |-> n, station |-> EOL, number |-> 0]

At(r) == entered_at(r.vin, r.station)

Before(q, r) ==
    /\ q.topic = r.topic /\ q.vin = r.vin
    /\ q.station < r.station \/ (q.station = r.station /\ q.number < r.number)

Records(p) ==
    {Build(n, s) : n \in p.vehicles, s \in Stations}
    \cup {Reading(n, c) : n \in p.vehicles, c \in Chars} \cup {Verdict(n) : n \in p.vehicles}

InOrder(M, all) == \A q \in M, r \in all : Before(q, r) => r \in M

\* What ingest may lack: some records of the last takts, all that come later.
Backlogs(p, eol) ==
    LET due == {r \in Records(p) : At(r) \in (eol - LagTakts)..eol}
        some == {{}} \cup {Range(f) : f \in [1..MaxLag -> due]}
    IN  {M \in some : InOrder(M, due)}

\* The only later records that a query reaches are build events (vins_by_lot).
Later(p, eol) ==
    {r \in Records(p) : r.topic = "build" /\ At(r) \in (eol + 1)..(eol + MaxAfter)}

Built(n, s) == At(Build(n, s)) <= eol_ts + MaxAfter /\ Build(n, s) \notin missing
Measured(n, c) == Reading(n, c) \notin missing
Tested(n) == Verdict(n) \notin missing

-----------------------------------------------------------------------------
(* The queries.                                                            *)

InLookback(t) == eol_ts - LOOKBACK <= t

\* genealogy_by_vin, eol_of: the stations passed, and the last one's readings.
get_vehicle_genealogy ==
    LET visits == {s \in Stations : Built(vin, s)}
        last == IF visits = {} THEN 0 ELSE Max(visits)
    IN  [eol |-> Tested(vin),
         last |-> last,
         readings |-> {c \in Chars : c[1] = last /\ Measured(vin, c)}]

find_correlated_failures(station) ==
    LET rows == {n \in plant.vehicles \ {vin} :
                    /\ station \in plant.faults[n] /\ Tested(n) /\ Built(n, station)
                    /\ InLookback(tested_at(n)) /\ tested_at(n) < eol_ts}
    IN  {[vin |-> n, at |-> entered_at(n, station), lots |-> parts_lots(station, n)] : n \in rows}

\* Mutant: a window open at both ends.
vins_in_windowOpen(station, start, end) ==
    {n \in plant.vehicles : Built(n, station) /\ entered_at(n, station) \in (start + 1)..(end - 1)}

vins_in_window(station, start, end) ==
    {n \in plant.vehicles : Built(n, station) /\ entered_at(n, station) \in start..(end - 1)}

\* Mutant: the lot's vehicles of the last days only.
vins_by_lotRecent(station, lot) ==
    {n \in plant.vehicles : /\ Built(n, station) /\ lot \in parts_lots(station, n)
                            /\ InLookback(entered_at(n, station))}

vins_by_lot(station, lot) ==
    {n \in plant.vehicles : Built(n, station) /\ lot \in parts_lots(station, n)}

\* Vehicles with a reading in [eol - LOOKBACK, eol + 1 takt), as a series in time.
WithReading(c) ==
    {n \in plant.vehicles : /\ Measured(n, c) /\ InLookback(entered_at(n, c[1]))
                            /\ entered_at(n, c[1]) <= eol_ts}
InTime(S) == [i \in 1..Cardinality(S) |-> CHOOSE n \in S : Cardinality({m \in S : m < n}) = i - 1]
deviation_series(S, c) == [i \in 1..Cardinality(S) |-> plant.dev[InTime(S)[i]][c]]

\* GET /bench/{b}/capability: the bench's readings of c against its peers'.
bench_capability(b, c) ==
    LET \* only the end-of-line station's readings carry a bench
        On(x) == IF c[1] = EOL THEN {n \in WithReading(c) : bench_of(n) = x} ELSE {}
        peers == {x \in 0..(Benches - 1) : x # b /\ On(x) # {}}
    IN  capability(deviation_series(On(b), c), {deviation_series(On(x), c) : x \in peers},
                   On(b) \cap plant.repeated # {}, b \in plant.scattered)

\* The answer as the triage keeps it, with the characteristic it was asked about.
check_bench(b, c) ==
    [char    |-> c,
     capable |-> bench_capability(b, c).capable,
     method  |-> bench_capability(b, c).method]

-----------------------------------------------------------------------------
NoGenealogy == [eol |-> FALSE, last |-> 0, readings |-> {}]
NoDrift == [verdict |-> "NONE", onset |-> 0]
NoBench == [char |-> Every, capable |-> TRUE, method |-> "none"]
NoBounds == [kind |-> "NONE", station |-> 0, vins |-> {}]

Init ==
    /\ plant \in Plants
    /\ \E n \in plant.vehicles :
          /\ plant.faults[n] # {}
          /\ \E codes \in {plant.faults[n]} \cup OddCodes : request = [vin |-> n, codes |-> codes]
    /\ \E M \in Backlogs(plant, eol_ts) : missing = M \cup Later(plant, eol_ts)
    /\ node = "intake"
    /\ waited = 0
    /\ genealogy = NoGenealogy /\ hypotheses = <<>> /\ siblings = {}
    /\ drift = NoDrift /\ bench = NoBench /\ bounds = NoBounds
    /\ failure = "none"

\* Ingest writes the next record of a vehicle's topic.
Land ==
    /\ \E r \in missing :
          /\ \A q \in missing : ~Before(q, r)
          /\ missing' = missing \ {r}
    /\ UNCHANGED <<plant, request, node, waited, evidence, failure>>

Nodes == {"intake", "genealogy", "hypothesise", "correlate", "drift_check", "bound", "compose",
          "bench_alert", "escalate", "submit", "no_proposal", "failed"}

Go(to) == node' = to /\ UNCHANGED failure
Fail(why) == node' = "failed" /\ failure' = why

intake ==
    /\ node = "intake"
    /\ IF request.codes # {} /\ request.codes \subseteq DOMAIN FaultMap
       THEN Go("genealogy") ELSE Fail("codes")
    /\ UNCHANGED <<plant, missing, request, waited, evidence>>

\* Mutant: the verdict is all it waits for.
LandedVerdict(g) == g.eol

\* What genealogy waits for: the verdict and the last station's measurements.
Landed(g) == g.eol /\ g.last # 0 /\ g.readings # {}

\* Mutant: without a deadline.
ProceedsLanded(g) == Landed(g)

Proceeds(g) == Landed(g) \/ waited = EOL_WAIT

\* Mutant: one look more than there is time for.
WaitOnceMore ==
    /\ node = "genealogy"
    /\ ~Landed(get_vehicle_genealogy)
    /\ waited <= EOL_WAIT
    /\ waited' = waited + 1
    /\ UNCHANGED <<plant, missing, request, node, evidence, failure>>

\* Nothing yet, and time left: sleep and look again.
Wait ==
    /\ node = "genealogy"
    /\ ~Landed(get_vehicle_genealogy)
    /\ waited < EOL_WAIT
    /\ waited' = waited + 1
    /\ UNCHANGED <<plant, missing, request, node, evidence, failure>>

Genealogy ==
    /\ node = "genealogy"
    /\ Proceeds(get_vehicle_genealogy)
    /\ genealogy' = get_vehicle_genealogy
    /\ IF genealogy'.eol THEN Go("hypothesise") ELSE Fail("no_eol")
    /\ UNCHANGED <<plant, missing, request, waited, hypotheses, siblings, drift, bench, bounds>>

Hypothesis(station, c) == [station |-> station, char |-> c]

\* The places in the fault map of the candidates for the codes.
candidates == UNION {{code} \X DOMAIN FaultMap[code] : code \in request.codes}
candidate(place) == FaultMap[place[1]][place[2]]

\* In the author's order, code by code: there is one such list.
listings ==
    LET Precedes(p, q) == p[1] < q[1] \/ (p[1] = q[1] /\ p[2] < q[2])
    IN  {list \in [1..Cardinality(candidates) -> candidates] :
            \A i, j \in DOMAIN list : i < j => Precedes(list[i], list[j])}

\* A dictionary by station: the last candidate of a station is the one that counts.
allowed(list) ==
    LET Last(i) == \A j \in DOMAIN list : j > i => candidate(list[j]).station # candidate(list[i]).station
        listed == {i \in DOMAIN list : Last(i)}
        Named(i) == {Hypothesis(candidate(list[i]).station, c) : c \in Range(candidate(list[i]).chars)}
    IN  UNION {Named(i) : i \in listed}

authored(list) ==
    [i \in DOMAIN list |-> Hypothesis(candidate(list[i]).station, candidate(list[i]).chars[1])]

\* A model's answer, live or from its cassette; the fallback when there is no model.
ask(fallback) == Answers \cup {fallback}

\* The model's ranking, the author's order when there is no model or it left the
\* map; a model or cassette that fails ends the triage.
hypothesise ==
    /\ node = "hypothesise"
    /\ \E list \in listings : \E ranked \in ask(authored(list)) :
          hypotheses' = IF validate_hypotheses(ranked, allowed(list)) THEN ranked ELSE authored(list)
    /\ Go("correlate")
    /\ UNCHANGED <<plant, missing, request, waited, genealogy, siblings, drift, bench, bounds>>

suspect == hypotheses[1].station

correlate ==
    /\ node = "correlate"
    /\ siblings' = find_correlated_failures(suspect)
    /\ Go("drift_check")
    /\ UNCHANGED <<plant, missing, request, waited, genealogy, hypotheses, drift, bench, bounds>>

check_station_drift(result) ==
    LET c == hypotheses[1].char
        dev == deviation_series(WithReading(c), c)
    IN  \E bkps \in predict(Len(dev)) :
            LET v == detect_change(dev, bkps)
            IN  result = [verdict |-> v.verdict,
                          onset |-> IF v.verdict = "NONE" THEN 0
                                    ELSE entered_at(InTime(WithReading(c))[v.onset], c[1])]

\* The characteristics of the last visit that were out, or its first.
judged ==
    LET out == {c \in genealogy.readings : out_of_tolerance(plant.dev[vin][c])}
        first == CHOOSE c \in genealogy.readings : \A d \in genealogy.readings : c[2] <= d[2]
    IN  IF out # {} THEN out ELSE {first}

\* The first that is not capable, of those judged; else the first.
worst(chars) ==
    LET bad == {c \in chars : ~check_bench(bench_of(vin), c).capable}
        choice == IF bad # {} THEN bad ELSE chars
    IN  check_bench(bench_of(vin), CHOOSE c \in choice : \A d \in choice : c[2] <= d[2])

drift_check ==
    /\ node = "drift_check"
    /\ IF genealogy.readings # {}
       THEN /\ check_station_drift(drift')
            /\ bench' = worst(judged)
            /\ Go(route(drift', bench', Cardinality(siblings)))
       ELSE Fail("no_readings") /\ UNCHANGED <<drift, bench>>
    /\ UNCHANGED <<plant, missing, request, waited, genealogy, hypotheses, siblings, bounds>>

bound ==
    /\ node = "bound"
    /\ bounds' = decide_bounds(vin, suspect, siblings, drift,
                               vins_by_lot(suspect, top_lot(siblings)),
                               vins_in_window(suspect, drift.onset, eol_ts))
    /\ Go("compose")
    /\ UNCHANGED <<plant, missing, request, waited, genealogy, hypotheses, siblings, drift, bench>>

\* The order's wording, with the numbers of bounds.
compose ==
    /\ node = "compose"
    /\ Go("submit")
    /\ UNCHANGED <<plant, missing, request, waited, evidence>>

\* Both record a decision not to propose.
Abstain ==
    /\ node \in {"bench_alert", "escalate"}
    /\ Go("no_proposal")
    /\ UNCHANGED <<plant, missing, request, waited, evidence>>

\* A database, detect or model call that raises ends the triage.
CallFails ==
    /\ node \in {"genealogy", "hypothesise", "correlate", "drift_check", "bound", "compose",
                 "escalate"}
    /\ Fail("call")
    /\ UNCHANGED <<plant, missing, request, waited, evidence>>

Step ==
    \/ intake \/ Wait \/ Genealogy \/ hypothesise \/ correlate \/ drift_check
    \/ bound \/ compose \/ Abstain

Next == Land \/ Step \/ CallFails

Spec == Init /\ [][Next]_vars

Ended == node \in {"submit", "no_proposal", "failed"}

\* The worker goes on to some node: everywhere but at genealogy it always can.
Leaves ==
    /\ ~Ended
    /\ node = "genealogy" => Proceeds(get_vehicle_genealogy)
    /\ node' \in Nodes \ {node}

\* The worker drives its triage, and a call returns or raises; ingest owes nothing.
FairSpec == Spec /\ WF_node(Leaves) /\ WF_waited(Wait)

-----------------------------------------------------------------------------
Scopes == [kind : {"NONE", "LOT", "WINDOW", "SINGLE"}, station : Nat, vins : SUBSET plant.vehicles]

TypeOK ==
    /\ missing \subseteq Records(plant)
    /\ vin \in plant.vehicles
    /\ node \in Nodes
    /\ waited \in 0..EOL_WAIT
    /\ genealogy.readings \subseteq Chars
    /\ siblings \subseteq [vin : plant.vehicles, at : Nat, lots : SUBSET (Stations \X Nat)]
    /\ drift \in [verdict : {"NONE", "STEP", "DRIFT"}, onset : Nat]
    /\ bounds \in Scopes
    /\ failure \in {"none", "codes", "no_eol", "no_readings", "call"}
    /\ failure # "none" <=> node = "failed"

\* What is proposed holds the vehicle that failed (nodes.py, _with), also when its
\* own build event is late or it entered the station at the window's open end.
TriggerInScope == bounds # NoBounds => vin \in bounds.vins

\* A station and a characteristic are suspected only if the fault map lists them
\* together for one of the vehicle's codes, whatever a model answers (fault_map.yaml:
\* may not add a station that is not listed): no true characteristic is pinned on
\* another station, whose vehicles would be held.
SuspectIsOnTheMap ==
    \A i \in DOMAIN hypotheses :
        \E code \in request.codes : \E k \in DOMAIN FaultMap[code] :
            /\ hypotheses[i].station = FaultMap[code][k].station
            /\ hypotheses[i].char \in Range(FaultMap[code][k].chars)

\* Vehicles that failed with the suspect station's code before this one.
FailedBefore ==
    {n \in plant.vehicles \ {vin} : /\ suspect \in plant.faults[n]
                                    /\ tested_at(n) \in (eol_ts - LOOKBACK)..(eol_ts - 1)}

\* More than the vehicle itself is held only when more than NO_PATTERN others
\* failed alike before it: not on the gauge's word, not on later failures.
WideHoldsHaveSiblings ==
    Cardinality(bounds.vins) > 1 => Cardinality(FailedBefore) > NO_PATTERN

\* A lot is held with every sibling that spoke for it, although correlate and
\* bound read the database at different times.
EvidenceIsHeld ==
    bounds.kind = "LOT" =>
        {x.vin : x \in Carriers(siblings, top_lot(siblings))} \subseteq bounds.vins

\* A bench's readings of c in the look-back that the database has.
OwnReadings(c) ==
    {n \in plant.vehicles : /\ bench_of(n) = bench_of(vin) /\ Measured(n, c)
                            /\ tested_at(n) \in (eol_ts - LOOKBACK)..eol_ts}

\* A bench is blamed only on enough of its own readings of an end-of-line
\* characteristic, written by then: however far ingest is behind, what is not known
\* is not taken for bad (nodes.py, route).
BenchAlertIsEarned ==
    [][node' = "bench_alert" /\ node # node' =>
        /\ bench'.char[1] = EOL
        /\ Cardinality(OwnReadings(bench'.char)) >= MIN_VALUES]_vars

\* A triage that fails for want of a verdict or of readings has waited for them to
\* the end; once the last visit's readings are there it does not fail for them.
MissingOnlyAfterTheWait == failure \in {"no_eol", "no_readings"} => waited = EOL_WAIT

\* The vehicles on the line so far that a kind of hold is meant for.
Covered(kind, n) ==
    /\ entered_at(n, suspect) <= eol_ts + MaxAfter
    /\ \/ kind = "WINDOW" /\ entered_at(n, suspect) \in drift.onset..(eol_ts - 1)
       \/ kind = "LOT" /\ top_lot(siblings) \in parts_lots(suspect, n)

\* A vehicle the line has built within the bounds escapes the hold only because
\* its build event had not been written when the bounds were drawn.
OnlyLaggardsEscape ==
    [][bounds' # bounds =>
        \A n \in plant.vehicles \ bounds'.vins :
            Covered(bounds'.kind, n) => Build(n, suspect) \in missing]_vars

\* Every triage comes to an end, also when ingest never writes another record.
TriageEnds == <>Ended

===============================================================================

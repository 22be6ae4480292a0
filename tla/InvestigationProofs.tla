-------------------------- MODULE InvestigationProofs --------------------------
(***************************************************************************)
(* Investigation's safety for every plant, fault map, threshold and lag:   *)
(* what a triage suspects, waits for and proposes to hold.  The arguments  *)
(* rest on who may change what: each part of the evidence is written by    *)
(* one node, and the database only ever gains records.                     *)
(***************************************************************************)
EXTENDS Investigation, FiniteSetTheorems, TLAPS

-----------------------------------------------------------------------------
(* The frame: which step may change which part of the state.               *)

LEMMA Frame ==
    ASSUME [Next]_vars
    PROVE  /\ UNCHANGED <<plant, request>>
           /\ missing' \subseteq missing
           /\ hypotheses' # hypotheses => hypothesise
           /\ siblings' # siblings => correlate
           /\ bench' # bench => drift_check
           /\ drift' # drift => drift_check
           /\ bounds' # bounds => bound
<1>1. CASE Land
  BY <1>1 DEF Land, evidence
<1>2. CASE Step
  <2>1. CASE intake \/ Wait \/ compose \/ Abstain
    BY <2>1 DEF intake, Wait, compose, Abstain, evidence
  <2>2. CASE Genealogy
    BY <2>2 DEF Genealogy
  <2>3. CASE hypothesise
    BY <2>3 DEF hypothesise
  <2>4. CASE correlate
    BY <2>4 DEF correlate
  <2>5. CASE drift_check
    BY <2>5 DEF drift_check
  <2>6. CASE bound
    BY <2>6 DEF bound
  <2>. QED
    BY <1>2, <2>1, <2>2, <2>3, <2>4, <2>5, <2>6 DEF Step
<1>3. CASE CallFails
  BY <1>3 DEF CallFails, evidence
<1>4. CASE UNCHANGED vars
  BY <1>4 DEF vars, evidence
<1>. QED
  BY <1>1, <1>2, <1>3, <1>4 DEF Next

\* A step that changes the node is a step of the graph or a failing call.
LEMMA NodeFrame ==
    ASSUME [Next]_vars
    PROVE  \/ UNCHANGED <<node, failure, genealogy>> /\ (UNCHANGED waited \/ Wait)
           \/ intake \/ Genealogy \/ hypothesise \/ correlate \/ drift_check
           \/ bound \/ compose \/ Abstain \/ CallFails
BY DEF Next, Step, Land, Wait, vars, evidence

\* The plant is one of those the line can produce, and the vehicle is one of its own.
OfThePlant == plant \in Plants /\ vin \in plant.vehicles

LEMMA OfThePlantHolds == Spec => []OfThePlant
<1>1. Init => OfThePlant
  BY DEF Init, OfThePlant, vin
<1>2. OfThePlant /\ [Next]_vars => OfThePlant'
  BY Frame DEF OfThePlant, vin
<1>. QED
  BY <1>1, <1>2, PTL DEF Spec

\* Vehicles are numbers, and there are finitely many.
LEMMA VehicleTypes ==
    ASSUME OfThePlant
    PROVE  /\ plant.vehicles \subseteq Nat
           /\ IsFiniteSet(plant.vehicles)
           /\ \A n \in plant.vehicles : tested_at(n) = n + EOL /\ tested_at(n) \in Nat
           /\ eol_ts \in Nat
<1>1. PICK sc \in Scenarios : plant.vehicles = 0..(sc.vehicles - 1)
  BY DEF OfThePlant, Plants, generate, Vehicles
<1>2. sc.vehicles \in Nat
  BY PlantAssumption
<1>3. plant.vehicles \subseteq Nat
  BY <1>1, <1>2
<1>4. IsFiniteSet(plant.vehicles)
  BY <1>1, <1>2, FS_Interval
<1>5. \A n \in plant.vehicles : tested_at(n) = n + EOL /\ tested_at(n) \in Nat
  BY <1>3, PlantAssumption DEF tested_at, entered_at
<1>6. eol_ts \in Nat
  BY <1>5 DEF eol_ts, OfThePlant
<1>. QED
  BY <1>3, <1>4, <1>5, <1>6

-----------------------------------------------------------------------------
(* Failing for want of records.                                            *)

\* A triage past genealogy has all of the last visit, or has waited to the end.
WaitedOrLanded ==
    /\ failure \in {"no_eol", "no_readings"} => waited = EOL_WAIT
    /\ node \notin {"intake", "genealogy", "failed"} => Landed(genealogy) \/ waited = EOL_WAIT
    /\ node # "failed" => failure = "none"

LEMMA InitWaited == Init => WaitedOrLanded
  BY DEF Init, WaitedOrLanded

LEMMA NextWaited == WaitedOrLanded /\ [Next]_vars => WaitedOrLanded'
<1> SUFFICES ASSUME WaitedOrLanded, [Next]_vars PROVE WaitedOrLanded'
  OBVIOUS
<1> USE DEF WaitedOrLanded, Go, Fail
<1>1. CASE UNCHANGED <<node, failure, genealogy, waited>>
  BY <1>1 DEF Landed
<1>2. CASE UNCHANGED <<node, failure, genealogy>> /\ Wait
  BY <1>2 DEF Wait
<1>3. CASE intake
  BY <1>3 DEF intake
<1>4. CASE Genealogy
  BY <1>4 DEF Genealogy, Proceeds, Landed
<1>5. CASE drift_check
  <2>1. node' \in {"bench_alert", "escalate", "bound", "failed"}
    BY <1>5 DEF drift_check, route
  <2>2. Landed(genealogy)' = Landed(genealogy)
    BY <1>5 DEF drift_check, Landed
  <2>3. failure' = failure \/ waited = EOL_WAIT
    BY <1>5 DEF drift_check, Landed
  <2>4. node' = "failed" \/ failure' = failure
    BY <1>5 DEF drift_check
  <2>. QED
    BY <1>5, <2>1, <2>2, <2>3, <2>4 DEF drift_check
<1>6. CASE hypothesise \/ correlate \/ bound \/ compose \/ Abstain
  BY <1>6 DEF hypothesise, correlate, bound, compose, Abstain, evidence, Landed
<1>7. CASE CallFails
  BY <1>7 DEF CallFails, evidence
<1>. QED
  BY <1>1, <1>2, <1>3, <1>4, <1>5, <1>6, <1>7, NodeFrame

\* A triage fails for want of a verdict or of readings only after the whole wait
\* (nodes.py, genealogy and drift_check), however ingest is behind.
THEOREM MissingOnlyAfterTheWaitHolds == Spec => []MissingOnlyAfterTheWait
<1>1. WaitedOrLanded => MissingOnlyAfterTheWait
  BY DEF WaitedOrLanded, MissingOnlyAfterTheWait
<1>. QED
  BY InitWaited, NextWaited, <1>1, PTL DEF Spec

-----------------------------------------------------------------------------
(* What is suspected.                                                      *)

\* Only codes of the map get past intake, and at least one.
CodesAreMapped ==
    node \notin {"intake", "failed"} =>
        request.codes # {} /\ request.codes \subseteq DOMAIN FaultMap

LEMMA CodesAreMappedHolds == Spec => []CodesAreMapped
<1>1. Init => CodesAreMapped
  BY DEF Init, CodesAreMapped
<1>2. CodesAreMapped /\ [Next]_vars => CodesAreMapped'
  <2> SUFFICES ASSUME CodesAreMapped, [Next]_vars PROVE CodesAreMapped'
    OBVIOUS
  <2>1. request' = request
    BY Frame
  <2>2. CASE UNCHANGED node
    BY <2>1, <2>2 DEF CodesAreMapped
  <2>3. CASE intake
    BY <2>1, <2>3 DEF intake, Go, Fail, CodesAreMapped
  <2>4. CASE node \notin {"intake", "failed"}
    BY <2>1, <2>4 DEF CodesAreMapped
  <2>. QED
    BY <2>2, <2>3, <2>4, NodeFrame
       DEF Genealogy, hypothesise, correlate, drift_check, bound, compose, Abstain, CallFails
<1>. QED
  BY <1>1, <1>2, PTL DEF Spec

\* Whatever a list names is on the map, and has a characteristic.
LEMMA ListedIsOnTheMap ==
    ASSUME NEW list \in listings, NEW i \in DOMAIN list, request.codes \subseteq DOMAIN FaultMap
    PROVE  \E code \in request.codes : \E k \in DOMAIN FaultMap[code] :
              /\ candidate(list[i]) = FaultMap[code][k]
              /\ 1 \in DOMAIN candidate(list[i]).chars
<1>1. list[i] \in candidates
  BY DEF listings
<1>2. PICK code \in request.codes : \E k \in DOMAIN FaultMap[code] : list[i] = <<code, k>>
  BY <1>1 DEF candidates
<1>3. PICK k \in DOMAIN FaultMap[code] : list[i] = <<code, k>>
  BY <1>2
<1>4. FaultMap[code] \in Seq([station : Stations, chars : Seq(Chars) \ {<<>>}])
  BY <1>2, InvestigationAssumption
<1>5. FaultMap[code][k].chars \in Seq(Chars) \ {<<>>}
  <2>1. \A S, s, n : s \in Seq(S) /\ n \in DOMAIN s => s[n] \in S
    OBVIOUS
  <2>2. FaultMap[code][k] \in [station : Stations, chars : Seq(Chars) \ {<<>>}]
    BY <1>3, <1>4, <2>1
  <2>. QED
    BY <2>2
<1>6. 1 \in DOMAIN FaultMap[code][k].chars
  BY <1>5
<1>. QED
  BY <1>2, <1>3, <1>6 DEF candidate

\* Whatever a model answers, what hypothesise keeps is on the map.
LEMMA HypothesiseOnTheMap ==
    ASSUME hypothesise, CodesAreMapped
    PROVE  \A i \in DOMAIN hypotheses' :
              \E code \in request.codes : \E k \in DOMAIN FaultMap[code] :
                  /\ hypotheses'[i].station = FaultMap[code][k].station
                  /\ hypotheses'[i].char \in Range(FaultMap[code][k].chars)
<1>1. request.codes \subseteq DOMAIN FaultMap
  BY DEF hypothesise, CodesAreMapped
<1>2. PICK list \in listings :
        \/ hypotheses' = authored(list)
        \/ validate_hypotheses(hypotheses', allowed(list))
  BY DEF hypothesise
<1>3. CASE hypotheses' = authored(list)
  <2>1. ASSUME NEW i \in DOMAIN hypotheses'
        PROVE  /\ i \in DOMAIN list
               /\ hypotheses'[i].station = candidate(list[i]).station
               /\ hypotheses'[i].char = candidate(list[i]).chars[1]
    BY <1>3 DEF authored, Hypothesis
  <2>. QED
    BY <1>1, <2>1, ListedIsOnTheMap DEF Range
<1>4. CASE validate_hypotheses(hypotheses', allowed(list))
  <2> SUFFICES ASSUME NEW i \in DOMAIN hypotheses'
               PROVE  \E code \in request.codes : \E k \in DOMAIN FaultMap[code] :
                         /\ hypotheses'[i].station = FaultMap[code][k].station
                         /\ hypotheses'[i].char \in Range(FaultMap[code][k].chars)
    OBVIOUS
  <2>1. hypotheses'[i] \in allowed(list)
    BY <1>4 DEF validate_hypotheses
  <2>2. PICK j \in DOMAIN list : \E c \in Range(candidate(list[j]).chars) :
          hypotheses'[i] = Hypothesis(candidate(list[j]).station, c)
    BY <2>1 DEF allowed
  <2>3. /\ hypotheses'[i].station = candidate(list[j]).station
        /\ hypotheses'[i].char \in Range(candidate(list[j]).chars)
    BY <2>2 DEF Hypothesis
  <2>. QED
    BY <1>1, <2>3, ListedIsOnTheMap
<1>. QED
  BY <1>2, <1>3, <1>4

\* A suspected station is on the fault map for one of the codes, together with the
\* characteristic it is suspected for (validate_hypotheses and its fallback), for
\* every answer of a model.
THEOREM SuspectIsOnTheMapHolds == Spec => []SuspectIsOnTheMap
<1>1. Init => SuspectIsOnTheMap
  BY DEF Init, SuspectIsOnTheMap
<1>2. CodesAreMapped /\ SuspectIsOnTheMap /\ [Next]_vars => SuspectIsOnTheMap'
  <2> SUFFICES ASSUME CodesAreMapped, SuspectIsOnTheMap, [Next]_vars PROVE SuspectIsOnTheMap'
    OBVIOUS
  <2>1. request' = request /\ (hypotheses' # hypotheses => hypothesise)
    BY Frame
  <2>2. CASE hypotheses' = hypotheses
    BY <2>1, <2>2 DEF SuspectIsOnTheMap
  <2>3. CASE hypothesise
    BY <2>1, <2>3, HypothesiseOnTheMap DEF SuspectIsOnTheMap
  <2>. QED
    BY <2>1, <2>2, <2>3
<1>. QED
  BY <1>1, <1>2, CodesAreMappedHolds, PTL DEF Spec

-----------------------------------------------------------------------------
(* The siblings: other vehicles that failed alike, found once.             *)

SiblingOf(n) == [vin |-> n, at |-> entered_at(n, suspect), lots |-> parts_lots(suspect, n)]

\* What correlate found stays true: records are only added, and the suspect is
\* chosen before.
SiblingsAreKnown ==
    /\ node \in {"intake", "genealogy", "hypothesise"} => siblings = {}
    /\ \A x \in siblings :
          x.vin \in FailedBefore /\ Built(x.vin, suspect) /\ x = SiblingOf(x.vin)

LEMMA CorrelateFinds ==
    ASSUME OfThePlant,
           NEW x \in find_correlated_failures(suspect)
    PROVE  x.vin \in FailedBefore /\ Built(x.vin, suspect) /\ x = SiblingOf(x.vin)
<1>1. PICK n \in plant.vehicles \ {vin} :
        /\ suspect \in plant.faults[n] /\ Built(n, suspect)
        /\ InLookback(tested_at(n)) /\ tested_at(n) < eol_ts
        /\ x = SiblingOf(n)
  BY DEF find_correlated_failures, SiblingOf
<1>2. x.vin = n
  BY <1>1 DEF SiblingOf
<1>3. tested_at(n) \in (eol_ts - LOOKBACK)..(eol_ts - 1)
  BY <1>1, VehicleTypes, InvestigationAssumption DEF InLookback
<1>. QED
  BY <1>1, <1>2, <1>3 DEF FailedBefore

LEMMA SiblingsAreKnownHolds == Spec => []SiblingsAreKnown
<1>1. Init => SiblingsAreKnown
  BY DEF Init, SiblingsAreKnown
<1>2. OfThePlant /\ SiblingsAreKnown /\ [Next]_vars => SiblingsAreKnown'
  <2> SUFFICES ASSUME OfThePlant, SiblingsAreKnown, [Next]_vars PROVE SiblingsAreKnown'
    OBVIOUS
  <2>1. /\ UNCHANGED <<plant, request>> /\ missing' \subseteq missing
        /\ hypotheses' # hypotheses => hypothesise
        /\ siblings' # siblings => correlate
    BY Frame
  <2>2. CASE hypothesise
    BY <2>2 DEF hypothesise, Go, SiblingsAreKnown
  <2>3. CASE correlate
    <3>1. siblings' = find_correlated_failures(suspect) /\ node' = "drift_check"
      BY <2>3 DEF correlate, Go
    <3>2. \A x \in siblings' :
            x.vin \in FailedBefore /\ Built(x.vin, suspect) /\ x = SiblingOf(x.vin)
      BY <3>1, CorrelateFinds
    <3>3. UNCHANGED <<plant, request, missing, hypotheses>>
      BY <2>3 DEF correlate
    <3>. QED
      BY <3>1, <3>2, <3>3
         DEF SiblingsAreKnown, FailedBefore, Built, SiblingOf, suspect, vin, eol_ts
  <2>4. CASE UNCHANGED <<hypotheses, siblings>> /\ ~hypothesise /\ ~correlate
    <3>1. node' \in {"intake", "genealogy", "hypothesise"} => siblings' = {}
      <4>1. node' \in {"intake", "genealogy", "hypothesise"} =>
              node \in {"intake", "genealogy", "hypothesise"}
        BY <2>4, NodeFrame DEF intake, Genealogy, drift_check, bound, compose, Abstain,
                               CallFails, Go, Fail, route
      <4>. QED
        BY <2>4, <4>1 DEF SiblingsAreKnown
    <3>2. \A x \in siblings' : (x.vin \in FailedBefore)' /\ (x = SiblingOf(x.vin))'
      BY <2>1, <2>4 DEF SiblingsAreKnown, FailedBefore, SiblingOf, suspect, vin, eol_ts
    <3>3. \A x \in siblings' : Built(x.vin, suspect)'
      BY <2>1, <2>4 DEF SiblingsAreKnown, Built, suspect, vin, eol_ts
    <3>. QED
      BY <3>1, <3>2, <3>3 DEF SiblingsAreKnown
  <2>. QED
    BY <2>1, <2>2, <2>3, <2>4
<1>. QED
  BY <1>1, <1>2, OfThePlantHolds, PTL DEF Spec

\* There are as many siblings as vehicles among them.
LEMMA SiblingsAreVehicles ==
    ASSUME OfThePlant, SiblingsAreKnown
    PROVE  /\ IsFiniteSet(siblings) /\ IsFiniteSet(FailedBefore)
           /\ Cardinality(siblings) \in Nat /\ Cardinality(FailedBefore) \in Nat
           /\ Cardinality(siblings) <= Cardinality(FailedBefore)
<1>1. IsFiniteSet(FailedBefore)
  BY VehicleTypes, FS_Subset DEF FailedBefore
<1> DEFINE f == [x \in siblings |-> x.vin]
<1>2. f \in Injection(siblings, FailedBefore)
  BY DEF SiblingsAreKnown, Injection, IsInjective
<1>. QED
  BY <1>1, <1>2, FS_Injection, FS_CardinalityType

-----------------------------------------------------------------------------
(* What is proposed to be held.                                            *)

\* decide_bounds, as its three outcomes.
LEMMA BoundOutcomes ==
    ASSUME bound
    PROVE  \/ /\ lot_like(siblings)
              /\ bounds' = [kind |-> "LOT", station |-> suspect,
                            vins |-> vins_by_lot(suspect, top_lot(siblings)) \cup {vin}]
           \/ /\ drift.verdict # "NONE"
              /\ bounds' = [kind |-> "WINDOW", station |-> suspect,
                            vins |-> vins_in_window(suspect, drift.onset, eol_ts) \cup {vin}]
           \/ bounds' = [kind |-> "SINGLE", station |-> suspect, vins |-> {vin}]
BY DEF bound, decide_bounds, With

\* Every proposal holds the vehicle whose failure asked for it (_with), whichever
\* records the queries found.
THEOREM TriggerInScopeHolds == Spec => []TriggerInScope
<1>1. Init => TriggerInScope
  BY DEF Init, TriggerInScope
<1>2. TriggerInScope /\ [Next]_vars => TriggerInScope'
  <2> SUFFICES ASSUME TriggerInScope, [Next]_vars PROVE TriggerInScope'
    OBVIOUS
  <2>1. CASE bounds' = bounds
    BY <2>1, Frame DEF TriggerInScope, vin
  <2>2. CASE bound
    BY <2>2, BoundOutcomes, Frame DEF TriggerInScope, vin
  <2>. QED
    BY <2>1, <2>2, Frame
<1>. QED
  BY <1>1, <1>2, PTL DEF Spec

\* Bounds are drawn once, at the end of the graph.
BoundsAreLast == bounds # NoBounds => node \in {"compose", "submit", "failed"}

LEMMA BoundsAreLastHolds == Spec => []BoundsAreLast
<1>1. Init => BoundsAreLast
  BY DEF Init, BoundsAreLast
<1>2. BoundsAreLast /\ [Next]_vars => BoundsAreLast'
  <2> SUFFICES ASSUME BoundsAreLast, [Next]_vars PROVE BoundsAreLast'
    OBVIOUS
  <2>1. CASE bound
    BY <2>1 DEF bound, Go, BoundsAreLast
  <2>2. CASE bounds' = bounds
    <3>1. CASE bounds = NoBounds
      BY <2>2, <3>1 DEF BoundsAreLast, NoBounds
    <3>2. CASE node \in {"compose", "submit", "failed"}
      BY <2>2, <3>2, NodeFrame
         DEF BoundsAreLast, NoBounds, intake, Genealogy, hypothesise, correlate, drift_check,
             bound, compose, Abstain, CallFails, Go, Fail
    <3>. QED
      BY <3>1, <3>2 DEF BoundsAreLast
  <2>. QED
    BY <2>1, <2>2, Frame
<1>. QED
  BY <1>1, <1>2, PTL DEF Spec

\* Once there are bounds, nothing they were drawn from changes.
LEMMA EvidenceStays ==
    ASSUME BoundsAreLast, bounds # NoBounds, [Next]_vars
    PROVE  UNCHANGED <<plant, request, hypotheses, siblings, bounds>>
BY Frame DEF BoundsAreLast, hypothesise, correlate, bound

\* A lot hold takes in every sibling that carried the lot, though correlate and
\* bound query at different times: what was in the database stays in it.
THEOREM EvidenceIsHeldHolds == Spec => []EvidenceIsHeld
<1>1. Init => EvidenceIsHeld
  BY DEF Init, EvidenceIsHeld, NoBounds
<1>2. SiblingsAreKnown /\ BoundsAreLast /\ EvidenceIsHeld /\ [Next]_vars => EvidenceIsHeld'
  <2> SUFFICES ASSUME SiblingsAreKnown, BoundsAreLast, EvidenceIsHeld, [Next]_vars
               PROVE  EvidenceIsHeld'
    OBVIOUS
  <2>1. CASE bounds' = NoBounds
    BY <2>1 DEF EvidenceIsHeld, NoBounds
  <2>2. CASE bounds # NoBounds
    <3>1. UNCHANGED <<siblings, bounds>>
      BY <2>2, EvidenceStays
    <3>. QED
      BY <3>1 DEF EvidenceIsHeld
  <2>3. CASE bound
    <3>1. siblings' = siblings
      BY <2>3 DEF bound
    <3>2. ASSUME bounds'.kind = "LOT", NEW x \in Carriers(siblings, top_lot(siblings))
          PROVE  x.vin \in bounds'.vins
      <4>1. bounds'.vins = vins_by_lot(suspect, top_lot(siblings)) \cup {vin}
        BY <2>3, <3>2, BoundOutcomes
      <4>2. x \in siblings /\ top_lot(siblings) \in x.lots
        BY DEF Carriers
      <4>3. x.vin \in plant.vehicles /\ Built(x.vin, suspect)
        BY <4>2 DEF SiblingsAreKnown, FailedBefore
      <4>4. x.lots = parts_lots(suspect, x.vin)
        BY <4>2 DEF SiblingsAreKnown, SiblingOf
      <4>. QED
        BY <4>1, <4>2, <4>3, <4>4 DEF vins_by_lot
    <3>. QED
      BY <3>1, <3>2 DEF EvidenceIsHeld
  <2>. QED
    BY <2>1, <2>2, <2>3, Frame
<1>. QED
  BY <1>1, <1>2, SiblingsAreKnownHolds, BoundsAreLastHolds, PTL DEF Spec

\* What route saw is what bound finds.
RouteIsKept == node = "bound" => drift.verdict = "NONE" \/ Cardinality(siblings) > NO_PATTERN

LEMMA RouteIsKeptHolds == Spec => []RouteIsKept
<1>1. Init => RouteIsKept
  BY DEF Init, RouteIsKept
<1>2. OfThePlant /\ SiblingsAreKnown /\ RouteIsKept /\ [Next]_vars => RouteIsKept'
  <2> SUFFICES ASSUME OfThePlant, SiblingsAreKnown, RouteIsKept, [Next]_vars PROVE RouteIsKept'
    OBVIOUS
  <2>1. CASE drift_check
    <3>1. siblings' = siblings /\ Cardinality(siblings) \in Nat /\ NO_PATTERN \in Nat
      BY <2>1, SiblingsAreVehicles, RulesAssumption DEF drift_check
    <3>2. CASE node' = "bound"
      <4>1. route(drift', bench', Cardinality(siblings)) = "bound"
        BY <2>1, <3>2 DEF drift_check, Go, Fail
      <4>2. drift'.verdict = "NONE" \/ ~(Cardinality(siblings) <= NO_PATTERN)
        BY <4>1 DEF route
      <4>. QED
        BY <3>1, <4>2 DEF RouteIsKept
    <3>. QED
      BY <3>2 DEF RouteIsKept
  <2>2. CASE node' # "bound"
    BY <2>2 DEF RouteIsKept
  <2>3. CASE node = "bound" /\ node' = "bound"
    <3>1. UNCHANGED <<drift, siblings>>
      BY <2>3, Frame DEF drift_check, correlate
    <3>. QED
      BY <2>3, <3>1 DEF RouteIsKept
  <2>. QED
    BY <2>1, <2>2, <2>3, NodeFrame
       DEF intake, Genealogy, hypothesise, correlate, bound, compose, Abstain, CallFails, Go, Fail
<1>. QED
  BY <1>1, <1>2, OfThePlantHolds, SiblingsAreKnownHolds, PTL DEF Spec

\* A hold of several vehicles has more than NO_PATTERN others that failed alike
\* before (route, decide_bounds), for all thresholds with LOT_MIN above NO_PATTERN.
THEOREM WideHoldsHaveSiblingsHolds == Spec => []WideHoldsHaveSiblings
<1>1. Init => WideHoldsHaveSiblings
  <2>1. Cardinality({}) = 0
    BY FS_EmptySet
  <2>. QED
    BY <2>1 DEF Init, WideHoldsHaveSiblings, NoBounds
<1>2. /\ OfThePlant /\ SiblingsAreKnown /\ BoundsAreLast /\ RouteIsKept
      /\ WideHoldsHaveSiblings /\ [Next]_vars
      => WideHoldsHaveSiblings'
  <2> SUFFICES ASSUME OfThePlant, SiblingsAreKnown, BoundsAreLast, RouteIsKept,
                      WideHoldsHaveSiblings, [Next]_vars
               PROVE  WideHoldsHaveSiblings'
    OBVIOUS
  <2>1. CASE bounds' = NoBounds
    <3>1. Cardinality(bounds'.vins) = 0
      BY <2>1, FS_EmptySet DEF NoBounds
    <3>. QED
      BY <3>1 DEF WideHoldsHaveSiblings
  <2>2. CASE bounds # NoBounds
    <3>1. UNCHANGED <<plant, request, hypotheses, bounds>>
      BY <2>2, EvidenceStays
    <3>. QED
      BY <3>1 DEF WideHoldsHaveSiblings, FailedBefore, suspect, vin, eol_ts
  <2>3. CASE bound
    <3>1. UNCHANGED <<plant, request, hypotheses>> /\ FailedBefore' = FailedBefore
      BY <2>3, Frame DEF bound, FailedBefore, suspect, vin, eol_ts
    <3>2. /\ Cardinality(siblings) \in Nat /\ Cardinality(FailedBefore) \in Nat
          /\ Cardinality(siblings) <= Cardinality(FailedBefore)
      BY SiblingsAreVehicles
    <3>3. CASE bounds'.vins = {vin}
      <4>1. Cardinality(bounds'.vins) = 1
        BY <3>3, FS_Singleton
      <4>. QED
        BY <4>1 DEF WideHoldsHaveSiblings
    <3>4. CASE Cardinality(siblings) > NO_PATTERN
      BY <3>1, <3>2, <3>4, RulesAssumption DEF WideHoldsHaveSiblings
    <3>5. lot_like(siblings) => Cardinality(siblings) > NO_PATTERN
      BY <3>2, RulesAssumption DEF lot_like
    <3>6. drift.verdict # "NONE" => Cardinality(siblings) > NO_PATTERN
      BY <2>3 DEF RouteIsKept, bound
    <3>. QED
      BY <2>3, <3>3, <3>4, <3>5, <3>6, BoundOutcomes
  <2>. QED
    BY <2>1, <2>2, <2>3, Frame
<1>. QED
  BY <1>1, <1>2, OfThePlantHolds, SiblingsAreKnownHolds, BoundsAreLastHolds, RouteIsKeptHolds,
     PTL DEF Spec

\* A vehicle of the window or the lot that is left out has no build event in the
\* database yet (vins_in_window, vins_by_lot).
THEOREM OnlyLaggardsEscapeHolds == Spec => OnlyLaggardsEscape
<1> DEFINE Escapes == bounds' # bounds =>
        \A n \in plant.vehicles \ bounds'.vins :
            Covered(bounds'.kind, n) => Build(n, suspect) \in missing
<1>1. [Next]_vars => Escapes
  <2> SUFFICES ASSUME bound, NEW n \in plant.vehicles \ bounds'.vins, Covered(bounds'.kind, n)
               PROVE  Build(n, suspect) \in missing
    BY Frame
  <2>1. Built(n, suspect) \/ Build(n, suspect) \in missing
    BY DEF Covered, Built, At, Build
  <2>2. CASE bounds'.kind = "LOT"
    <3>1. n \notin vins_by_lot(suspect, top_lot(siblings))
      BY <2>2, BoundOutcomes
    <3>. QED
      BY <2>1, <2>2, <3>1 DEF vins_by_lot, Covered
  <2>3. CASE bounds'.kind = "WINDOW"
    <3>1. n \notin vins_in_window(suspect, drift.onset, eol_ts)
      BY <2>3, BoundOutcomes
    <3>. QED
      BY <2>1, <2>3, <3>1 DEF vins_in_window, Covered
  <2>. QED
    BY <2>2, <2>3 DEF Covered
<1>. QED
  BY <1>1, PTL DEF Spec, OnlyLaggardsEscape

-----------------------------------------------------------------------------
(* Distrusting a bench.                                                    *)

Alerts(b) == b.char[1] = EOL /\ Cardinality(OwnReadings(b.char)) >= MIN_VALUES

\* A series is as long as the set of vehicles it is drawn from.
LEMMA SeriesLength ==
    ASSUME NEW S, IsFiniteSet(S), NEW c
    PROVE  Len(deviation_series(S, c)) = Cardinality(S)
<1>1. Cardinality(S) \in Nat
  BY FS_CardinalityType
<1>2. deviation_series(S, c) = [i \in 1..Cardinality(S) |-> deviation_series(S, c)[i]]
  BY DEF deviation_series
<1>. QED
  BY <1>1, <1>2

\* A bench judged incapable on the data it has is judged on its own readings.
LEMMA IncapableIsEarned ==
    ASSUME OfThePlant, NEW c,
           LET b == check_bench(bench_of(vin), c)
           IN  ~b.capable /\ b.method # "insufficient-data"
    PROVE  Alerts(check_bench(bench_of(vin), c))
<1> DEFINE own == IF c[1] = EOL THEN {n \in WithReading(c) : bench_of(n) = bench_of(vin)} ELSE {}
           seen == OwnReadings(c)
<1>1. own \subseteq seen
  BY VehicleTypes, InvestigationAssumption DEF OwnReadings, WithReading, InLookback, tested_at
<1>2. IsFiniteSet(seen) /\ Cardinality(seen) \in Nat
  <2>1. seen \subseteq plant.vehicles
    BY DEF OwnReadings
  <2>. QED
    BY <2>1, VehicleTypes, FS_Subset, FS_CardinalityType
<1>3. /\ IsFiniteSet(own) /\ Cardinality(own) \in Nat
      /\ Cardinality(own) <= Cardinality(seen)
  BY <1>1, <1>2, FS_Subset, FS_CardinalityType
<1>4. Len(deviation_series(own, c)) = Cardinality(own)
  BY <1>3, SeriesLength
<1>5. ~(Len(deviation_series(own, c)) < MIN_VALUES)
  BY DEF check_bench, bench_capability, capability
<1>6. Cardinality(own) >= MIN_VALUES
  BY <1>3, <1>4, <1>5, DetectAssumption
<1>7. c[1] = EOL
  BY <1>6, DetectAssumption, FS_EmptySet
<1>8. Cardinality(seen) >= MIN_VALUES
  BY <1>2, <1>3, <1>6, DetectAssumption
<1>9. check_bench(bench_of(vin), c).char = c
  BY DEF check_bench
<1>. QED
  BY <1>7, <1>8, <1>9 DEF Alerts

\* bench_alert is reached only on enough of the bench's own readings of an
\* end-of-line characteristic that had been written (route: unknown is not the same
\* as bad).
THEOREM BenchAlertIsEarnedHolds == Spec => BenchAlertIsEarned
<1>1. OfThePlant /\ [Next]_vars =>
        (node' = "bench_alert" /\ node # node' => Alerts(bench'))
  <2> SUFFICES ASSUME OfThePlant, [Next]_vars, node' = "bench_alert", node # node'
               PROVE  Alerts(bench')
    OBVIOUS
  <2>1. drift_check
    BY NodeFrame
       DEF intake, Genealogy, hypothesise, correlate, bound, compose, Abstain, CallFails, Go, Fail
  <2>2. /\ bench' = worst(judged)
        /\ route(drift', bench', Cardinality(siblings)) = "bench_alert"
    BY <2>1 DEF drift_check, Go, Fail
  <2>3. ~bench'.capable /\ bench'.method # "insufficient-data"
    BY <2>2 DEF route
  <2>4. PICK c : bench' = check_bench(bench_of(vin), c)
    BY <2>2 DEF worst
  <2>. QED
    BY <2>3, <2>4, IncapableIsEarned
<1>. QED
  BY <1>1, OfThePlantHolds, PTL DEF Spec, BenchAlertIsEarned, Alerts

-----------------------------------------------------------------------------
(* Types: a place in a series is a vehicle, a change is at one of its      *)
(* points, and what is suspected is a characteristic of the plant.         *)

LEMMA MinIsIn ==
    ASSUME NEW S, S \subseteq Nat, S # {}
    PROVE  Min(S) \in S /\ \A y \in S : Min(S) <= y
<1> DEFINE R == OpToRel(<, Nat)
<1>1. IsWellFoundedOn(R, Nat)
  BY NatLessThanWellFounded
<1>2. \A x, y \in Nat : y < x => <<y, x>> \in R
  BY DEF OpToRel
<1> HIDE DEF R
<1>3. \E x \in S : \A y \in S : ~(<<y, x>> \in R)
  BY <1>1, WFMin
<1>4. PICK x \in S : \A y \in S : ~(<<y, x>> \in R)
  BY <1>3
<1>5. \A y \in S : ~(y < x)
  BY <1>2, <1>4
<1>6. \A y \in S : x <= y
  BY <1>5
<1>. QED
  BY <1>6 DEF Min

LEMMA MaxIsIn ==
    ASSUME NEW n \in Nat, NEW S, S \subseteq 0..n, S # {}
    PROVE  Max(S) \in S /\ \A y \in S : y <= Max(S)
<1> DEFINE T == {n - x : x \in S}
<1>1. T \subseteq Nat
  OBVIOUS
<1>0. T # {}
  <2>1. PICK x \in S : TRUE
    OBVIOUS
  <2>2. n - x \in T
    BY <2>1
  <2>. QED
    BY <2>2
<1>2. Min(T) \in T /\ \A y \in T : Min(T) <= y
  BY <1>0, <1>1, MinIsIn
<1>3. PICK x \in S : Min(T) = n - x
  BY <1>2
<1>4. \A y \in S : y <= x
  <2> SUFFICES ASSUME NEW y \in S PROVE y <= x
    OBVIOUS
  <2>1. n - x <= n - y
    BY <1>2, <1>3
  <2>. QED
    BY <2>1
<1>. QED
  BY <1>4 DEF Max

\* In a set of k + 1 bounded numbers there is, for each i up to k, one with i below it.
HasRanks(S) == \A i \in 1..Cardinality(S) : \E n \in S : Cardinality({m \in S : m < n}) = i - 1

LEMMA RanksExist ==
    ASSUME NEW N \in Nat, NEW S, S \subseteq 0..N
    PROVE  HasRanks(S)
<1>1. \A T \in SUBSET (0..N) : IsFiniteSet(T) /\ Cardinality(T) \in Nat
  <2>1. IsFiniteSet(0..N)
    BY FS_Interval
  <2>2. \A T \in SUBSET (0..N) : IsFiniteSet(T)
    BY <2>1, FS_Subset
  <2>. QED
    BY <2>2, FS_CardinalityType
<1> DEFINE Bad == {k \in Nat : \E T \in SUBSET (0..N) : Cardinality(T) = k /\ ~HasRanks(T)}
<1>2. SUFFICES ASSUME Bad # {} PROVE FALSE
  BY <1>1
<1>3. Min(Bad) \in Bad /\ \A k \in Bad : Min(Bad) <= k
  BY <1>2, MinIsIn
<1>4. PICK T \in SUBSET (0..N) : Cardinality(T) = Min(Bad) /\ ~HasRanks(T)
  BY <1>3
<1>5. PICK i \in 1..Cardinality(T) : ~\E n \in T : Cardinality({m \in T : m < n}) = i - 1
  BY <1>4 DEF HasRanks
<1>6. T # {}
  BY <1>1, <1>5, FS_EmptySet
<1> DEFINE x == Max(T)
           U == T \ {x}
<1>7. x \in T /\ \A y \in T : y <= x
  BY <1>6, MaxIsIn
<1>8. Cardinality(U) = Cardinality(T) - 1 /\ Cardinality(U) \in Nat /\ U \in SUBSET (0..N)
  BY <1>1, <1>7, FS_RemoveElement
<1>9. HasRanks(U)
  <2>1. Cardinality(U) \notin Bad
    BY <1>3, <1>4, <1>8, <1>1
  <2>. QED
    BY <1>8, <2>1
<1> HIDE DEF Bad, x
<1>10. CASE i = Cardinality(T)
  <2>1. \A m \in T : m < x <=> m # x
    BY <1>7
  <2>2. {m \in T : m < x} = U
    BY <2>1
  <2>. QED
    BY <1>5, <1>7, <1>8, <1>10, <2>2
<1>11. CASE i # Cardinality(T)
  <2>1. i \in 1..Cardinality(U)
    BY <1>1, <1>8, <1>11
  <2>2. PICK n \in U : Cardinality({m \in U : m < n}) = i - 1
    BY <1>9, <2>1 DEF HasRanks
  <2>3. {m \in T : m < n} = {m \in U : m < n}
    BY <1>7
  <2>. QED
    BY <1>5, <2>2, <2>3
<1>. QED
  BY <1>10, <1>11

\* Each place of a series is a vehicle of the set it is drawn from.
LEMMA InTimeIsIn ==
    ASSUME OfThePlant, NEW S, S \subseteq plant.vehicles, NEW i \in 1..Cardinality(S)
    PROVE  InTime(S)[i] \in S
<1>1. PICK N \in Nat : S \subseteq 0..N
  <2>1. PICK sc \in Scenarios : plant.vehicles = 0..(sc.vehicles - 1)
    BY DEF OfThePlant, Plants, generate, Vehicles
  <2>2. sc.vehicles \in Nat
    BY PlantAssumption
  <2>3. S \subseteq 0..sc.vehicles
    BY <2>1, <2>2
  <2>. QED
    BY <2>2, <2>3
<1>2. \E n \in S : Cardinality({m \in S : m < n}) = i - 1
  BY <1>1, RanksExist DEF HasRanks
<1>. QED
  BY <1>2 DEF InTime

\* A change that detect reports started at one of the series' points.
LEMMA OnsetIsAPoint ==
    ASSUME NEW dev, Len(dev) \in Nat, NEW bkps \in predict(Len(dev))
    PROVE  LET v == detect_change(dev, bkps)
           IN  /\ v.verdict \in {"NONE", "STEP", "DRIFT"}
               /\ v.verdict # "NONE" => v.onset \in 1..Len(dev)
<1> DEFINE n == Len(dev)
           change == Min(bkps)
           after == change..n
           shift == Total(dev, after) * (change - 1) - Total(dev, 1..(change - 1)) * (n + 1 - change)
           side == IF shift < 0 THEN -1 ELSE 1
           end == SegmentEnd(dev, bkps, change)
           fit == Fit(dev, change..end)
           failed == {x \in after : side * dev[x] >= UPPER /\ Reaches(fit, x, side, 3)}
           uncrossed == {x \in change..end : IF side * fit.A > 0 THEN StaysWithin(fit, x, side, 2)
                                             ELSE Reaches(fit, x, side, 2)}
           onset == CASE failed # {} -> Min(failed)
                      [] failed = {} /\ uncrossed # {} -> Max(uncrossed)
                      [] OTHER -> change
           v == detect_change(dev, bkps)
<1>1. bkps # {} => bkps \subseteq 1..n /\ change \in bkps
  <2>1. bkps \subseteq 1..n
    BY DetectAssumption DEF predict
  <2>2. bkps \subseteq Nat
    BY <2>1
  <2>. QED
    BY <2>1, <2>2, MinIsIn
<1>2. bkps # {} => end \in 0..n
  <2> SUFFICES ASSUME bkps # {} PROVE end \in 0..n
    OBVIOUS
  <2>1. Max(bkps) \in bkps
    <3>1. bkps \subseteq 0..n
      BY <1>1
    <3>. QED
      BY <3>1, MaxIsIn
  <2>. QED
    BY <1>1, <2>1 DEF SegmentEnd
<1>3. bkps # {} => onset \in 1..n
  <2> SUFFICES ASSUME bkps # {} PROVE onset \in 1..n
    OBVIOUS
  <2>1. change \in 1..n /\ end \in 0..n
    BY <1>1, <1>2
  <2>2. failed \subseteq 1..n /\ uncrossed \subseteq 1..n
    <3> HIDE DEF change, end, side, fit
    <3>. QED
      BY <2>1
  <2> HIDE DEF failed, uncrossed, change
  <2>3. failed # {} => Min(failed) \in 1..n
    <3>1. failed \subseteq Nat
      BY <2>2
    <3>. QED
      BY <2>2, <3>1, MinIsIn
  <2>4. uncrossed # {} => Max(uncrossed) \in 1..n
    <3>1. uncrossed \subseteq 0..n
      BY <2>2
    <3>. QED
      BY <2>2, <3>1, MaxIsIn
  <2>. QED
    BY <2>1, <2>3, <2>4
<1>4. \/ v.verdict = "NONE"
      \/ bkps # {} /\ v.verdict = "DRIFT" /\ v.onset = onset
      \/ bkps # {} /\ v.verdict = "STEP" /\ v.onset = change
  <2>1. v = IF n < MIN_POINTS \/ bkps = {} THEN NoChange
            ELSE IF Abs(shift) < MIN_SHIFT * (change - 1) * (n + 1 - change) THEN NoChange
            ELSE IF SteeperThan(fit, DRIFT_SLOPE_T)
            THEN [verdict |-> "DRIFT", change |-> change, onset |-> onset]
            ELSE [verdict |-> "STEP", change |-> change, onset |-> change]
    BY DEF detect_change
  <2> HIDE DEF v, n, change, shift, fit, onset
  <2>. QED
    BY <2>1 DEF NoChange
<1> HIDE DEF v, onset, change, n
<1>. QED
  BY <1>1, <1>3, <1>4 DEF v, n

\* The fault map lists finitely many candidates, at least one for every code of its.
LEMMA CandidatesExist ==
    ASSUME request.codes # {}, request.codes \subseteq DOMAIN FaultMap
    PROVE  Cardinality(candidates) \in Nat \ {0}
<1> DEFINE places(code) == {code} \X DOMAIN FaultMap[code]
           f == [code \in request.codes |-> places(code)]
           T == {places(code) : code \in request.codes}
<1>1. IsFiniteSet(request.codes)
  <2>1. IsFiniteSet(1..EOL)
    BY PlantAssumption, FS_Interval
  <2>2. request.codes \in SUBSET (1..EOL)
    BY InvestigationAssumption DEF Stations
  <2>. QED
    BY <2>1, <2>2, FS_Subset
<1>2. IsFiniteSet(T)
  <2>1. f \in Surjection(request.codes, T)
    BY DEF Surjection
  <2>. QED
    BY <1>1, <2>1, FS_Surjection
<1>3. \A code \in request.codes : DOMAIN FaultMap[code] = 1..Len(FaultMap[code])
                                  /\ Len(FaultMap[code]) \in Nat /\ 1 \in DOMAIN FaultMap[code]
  BY InvestigationAssumption
<1>4. ASSUME NEW code \in request.codes PROVE IsFiniteSet(places(code))
  <2>1. IsFiniteSet({code})
    BY FS_Singleton
  <2>2. IsFiniteSet(DOMAIN FaultMap[code])
    BY <1>3, FS_Interval
  <2>. QED
    BY <2>1, <2>2, FS_Product
<1>5. IsFiniteSet(candidates)
  <2>1. \A s \in T : IsFiniteSet(s)
    BY <1>4
  <2>. QED
    BY <1>2, <2>1, FS_UNION DEF candidates
<1>6. PICK code \in request.codes : TRUE
  OBVIOUS
<1>7. <<code, 1>> \in candidates
  BY <1>3 DEF candidates
<1>. QED
  BY <1>5, <1>7, FS_EmptySet, FS_CardinalityType

\* From hypothesise on, a station and a characteristic of the plant are suspected.
SuspectOK ==
    node \notin {"intake", "genealogy", "hypothesise", "failed"} =>
        \E s \in Stations, c \in Chars : hypotheses[1] = Hypothesis(s, c)

\* The station and the characteristics of a listed candidate are the plant's.
LEMMA ListedChars ==
    ASSUME NEW list \in listings, NEW i \in DOMAIN list, request.codes \subseteq DOMAIN FaultMap
    PROVE  /\ candidate(list[i]).station \in Stations
           /\ Range(candidate(list[i]).chars) \subseteq Chars
           /\ 1 \in DOMAIN candidate(list[i]).chars
<1>1. PICK code \in request.codes : \E k \in DOMAIN FaultMap[code] :
              /\ candidate(list[i]) = FaultMap[code][k]
              /\ 1 \in DOMAIN candidate(list[i]).chars
  BY ListedIsOnTheMap
<1>2. PICK k \in DOMAIN FaultMap[code] : candidate(list[i]) = FaultMap[code][k]
  BY <1>1
<1>3. FaultMap[code] \in Seq([station : Stations, chars : Seq(Chars) \ {<<>>}])
  BY <1>1, InvestigationAssumption
<1>4. FaultMap[code][k].station \in Stations /\ FaultMap[code][k].chars \in Seq(Chars)
  <2>1. \A S, s, n : s \in Seq(S) /\ n \in DOMAIN s => s[n] \in S
    OBVIOUS
  <2>2. FaultMap[code][k] \in [station : Stations, chars : Seq(Chars) \ {<<>>}]
    BY <1>2, <1>3, <2>1
  <2>. QED
    BY <2>2
<1>5. Range(FaultMap[code][k].chars) \subseteq Chars
  BY <1>4 DEF Range
<1>. QED
  BY <1>1, <1>2, <1>4, <1>5

LEMMA HypothesiseSuspects ==
    ASSUME hypothesise, CodesAreMapped
    PROVE  \E s \in Stations, c \in Chars : hypotheses'[1] = Hypothesis(s, c)
<1>1. request.codes # {} /\ request.codes \subseteq DOMAIN FaultMap
  BY DEF hypothesise, CodesAreMapped
<1>0. PICK list \in listings : \E ranked \in ask(authored(list)) :
        hypotheses' = IF validate_hypotheses(ranked, allowed(list)) THEN ranked ELSE authored(list)
  BY DEF hypothesise
<1>2. PICK ranked \in ask(authored(list)) :
        hypotheses' = IF validate_hypotheses(ranked, allowed(list)) THEN ranked ELSE authored(list)
  BY <1>0
<1>3. 1 \in DOMAIN list
  BY <1>1, CandidatesExist DEF listings
<1>4. CASE hypotheses' = authored(list)
  <2>1. hypotheses'[1] = Hypothesis(candidate(list[1]).station, candidate(list[1]).chars[1])
    BY <1>3, <1>4 DEF authored
  <2>2. candidate(list[1]).station \in Stations /\ candidate(list[1]).chars[1] \in Chars
    BY <1>1, <1>3, ListedChars DEF Range
  <2>. QED
    BY <2>1, <2>2
<1>5. CASE ranked \in Answers /\ hypotheses' = ranked /\ validate_hypotheses(ranked, allowed(list))
  <2>1. 1 \in DOMAIN ranked
    BY <1>5, InvestigationAssumption
  <2>2. ranked[1] \in allowed(list)
    BY <1>5, <2>1 DEF validate_hypotheses
  <2>3. PICK i \in DOMAIN list : \E c \in Range(candidate(list[i]).chars) :
          ranked[1] = Hypothesis(candidate(list[i]).station, c)
    BY <2>2 DEF allowed
  <2>. QED
    BY <1>1, <1>5, <2>3, ListedChars
<1>. QED
  BY <1>2, <1>4, <1>5 DEF ask

LEMMA SuspectOKHolds == Spec => []SuspectOK
<1>1. Init => SuspectOK
  BY DEF Init, SuspectOK
<1>2. CodesAreMapped /\ SuspectOK /\ [Next]_vars => SuspectOK'
  <2> SUFFICES ASSUME CodesAreMapped, SuspectOK, [Next]_vars PROVE SuspectOK'
    OBVIOUS
  <2>1. CASE hypothesise
    BY <2>1, HypothesiseSuspects DEF SuspectOK
  <2>2. CASE hypotheses' = hypotheses /\ ~hypothesise
    <3>1. node' \notin {"intake", "genealogy", "hypothesise", "failed"} =>
            node \notin {"intake", "genealogy", "hypothesise", "failed"}
      BY <2>2, NodeFrame DEF intake, Genealogy, correlate, drift_check, bound, compose, Abstain,
                             CallFails, Go, Fail
    <3>. QED
      BY <2>2, <3>1 DEF SuspectOK
  <2>. QED
    BY <2>1, <2>2, Frame
<1>. QED
  BY <1>1, <1>2, CodesAreMappedHolds, PTL DEF Spec

\* A suspected characteristic has a station, with a number.
LEMMA SuspectIsAStation ==
    ASSUME SuspectOK, node \in {"correlate", "drift_check", "bound"}
    PROVE  /\ hypotheses[1].char \in Chars
           /\ suspect \in Stations /\ suspect \in Nat
           /\ hypotheses[1].char[1] \in Nat
<1>1. PICK s \in Stations, c \in Chars : hypotheses[1] = Hypothesis(s, c)
  BY DEF SuspectOK
<1>2. c[1] \in Stations
  BY PlantAssumption
<1>3. c[1] \in Nat /\ s \in Nat
  BY <1>2, PlantAssumption DEF Stations
<1>. QED
  BY <1>1, <1>2, <1>3 DEF Hypothesis, suspect

\* What genealogy reads, correlate finds and drift_check answers, by type.
LEMMA SiblingTypes ==
    ASSUME OfThePlant, suspect \in Stations, suspect \in Nat
    PROVE  find_correlated_failures(suspect)
             \subseteq [vin : plant.vehicles, at : Nat, lots : SUBSET (Stations \X Nat)]
<1> SUFFICES ASSUME NEW x \in find_correlated_failures(suspect)
             PROVE  x \in [vin : plant.vehicles, at : Nat, lots : SUBSET (Stations \X Nat)]
  OBVIOUS
<1>1. PICK n \in plant.vehicles : x = SiblingOf(n)
  BY DEF find_correlated_failures, SiblingOf
<1>2. n \in Nat
  BY VehicleTypes
<1>3. entered_at(n, suspect) \in Nat
  BY <1>2 DEF entered_at
<1>4. (n \div LOT_BLOCK) % LOT_COUNT \in Nat
  <2>1. LOT_BLOCK \in Nat \ {0} /\ LOT_COUNT \in Nat \ {0}
    BY PlantAssumption
  <2>2. n \div LOT_BLOCK \in Int
    BY <1>2, <2>1
  <2>. QED
    BY <2>1, <2>2
<1>5. parts_lots(suspect, n) \in SUBSET (Stations \X Nat)
  BY <1>4 DEF parts_lots, lot_id
<1>. QED
  BY <1>1, <1>3, <1>5 DEF SiblingOf

LEMMA DriftTypes ==
    ASSUME OfThePlant, hypotheses[1].char[1] \in Nat, NEW result, check_station_drift(result)
    PROVE  result \in [verdict : {"NONE", "STEP", "DRIFT"}, onset : Nat]
<1> DEFINE c == hypotheses[1].char
           S == WithReading(c)
           dev == deviation_series(S, c)
<1>1. S \subseteq plant.vehicles /\ IsFiniteSet(S)
  <2>1. S \subseteq plant.vehicles
    BY DEF WithReading
  <2>. QED
    BY <2>1, VehicleTypes, FS_Subset
<1>2. Len(dev) = Cardinality(S) /\ Len(dev) \in Nat
  BY <1>1, SeriesLength, FS_CardinalityType
<1> HIDE DEF dev, S
<1>3. PICK bkps \in predict(Len(dev)) :
        result = [verdict |-> detect_change(dev, bkps).verdict,
                  onset |-> IF detect_change(dev, bkps).verdict = "NONE" THEN 0
                            ELSE entered_at(InTime(S)[detect_change(dev, bkps).onset], c[1])]
  BY DEF check_station_drift, dev, S
<1> DEFINE v == detect_change(dev, bkps)
<1>4. /\ v.verdict \in {"NONE", "STEP", "DRIFT"}
      /\ v.verdict # "NONE" => v.onset \in 1..Len(dev)
  BY <1>2, OnsetIsAPoint
<1>5. v.verdict # "NONE" => InTime(S)[v.onset] \in Nat
  <2> SUFFICES ASSUME v.verdict # "NONE" PROVE InTime(S)[v.onset] \in Nat
    OBVIOUS
  <2>1. v.onset \in 1..Cardinality(S)
    BY <1>2, <1>4
  <2>2. InTime(S)[v.onset] \in S
    BY <1>1, <2>1, InTimeIsIn
  <2>. QED
    BY <1>1, <2>2, VehicleTypes
<1> HIDE DEF v
<1>6. v.verdict # "NONE" => entered_at(InTime(S)[v.onset], c[1]) \in Nat
  BY <1>5 DEF entered_at
<1>7. result = [verdict |-> v.verdict,
                onset |-> IF v.verdict = "NONE" THEN 0 ELSE entered_at(InTime(S)[v.onset], c[1])]
  BY <1>3 DEF v
<1>. QED
  BY <1>4, <1>6, <1>7

LEMMA BoundTypes ==
    ASSUME bound, OfThePlant, SuspectOK
    PROVE  bounds' \in [kind : {"NONE", "LOT", "WINDOW", "SINGLE"}, station : Nat,
                        vins : SUBSET plant.vehicles]
<1>1. suspect \in Nat
  BY SuspectIsAStation DEF bound
<1>2. /\ vins_by_lot(suspect, top_lot(siblings)) \cup {vin} \subseteq plant.vehicles
      /\ vins_in_window(suspect, drift.onset, eol_ts) \cup {vin} \subseteq plant.vehicles
      /\ {vin} \subseteq plant.vehicles
  BY DEF OfThePlant, vins_by_lot, vins_in_window
<1>. QED
  BY <1>1, <1>2, BoundOutcomes

LEMMA InitTypes == Init => TypeOK
<1> SUFFICES ASSUME Init PROVE TypeOK
  OBVIOUS
<1>1. missing \subseteq Records(plant)
  <2>1. PICK M \in Backlogs(plant, eol_ts) : missing = M \cup Later(plant, eol_ts)
    BY DEF Init
  <2>2. Later(plant, eol_ts) \subseteq Records(plant)
    BY DEF Later
  <2> DEFINE due == {r \in Records(plant) : At(r) \in (eol_ts - LagTakts)..eol_ts}
  <2>3. M = {} \/ \E f \in [1..MaxLag -> due] : M = Range(f)
    BY <2>1 DEF Backlogs
  <2>4. M \subseteq due
    <3> HIDE DEF due
    <3>1. CASE M = {}
      BY <3>1
    <3>2. ASSUME NEW f \in [1..MaxLag -> due], M = Range(f) PROVE M \subseteq due
      BY <3>2 DEF Range
    <3>. QED
      BY <2>3, <3>1, <3>2
  <2>. QED
    BY <2>1, <2>2, <2>4
<1>2. vin \in plant.vehicles
  BY DEF Init, vin
<1>3. bounds \in Scopes
  BY DEF Init, NoBounds, Scopes
<1>4. waited \in 0..EOL_WAIT
  BY InvestigationAssumption DEF Init
<1>5. drift \in [verdict : {"NONE", "STEP", "DRIFT"}, onset : Nat]
  BY DEF Init, NoDrift
<1>. QED
  BY <1>1, <1>2, <1>3, <1>4, <1>5 DEF Init, TypeOK, Nodes, NoGenealogy

LEMMA NextTypes == OfThePlant /\ SuspectOK /\ TypeOK /\ [Next]_vars => TypeOK'
<1> SUFFICES ASSUME OfThePlant, SuspectOK, TypeOK, [Next]_vars PROVE TypeOK'
  OBVIOUS
<1>1. missing' \subseteq Records(plant)' /\ (vin \in plant.vehicles)'
  BY Frame DEF TypeOK, Records, vin
<1>2. node' \in Nodes /\ failure' \in {"none", "codes", "no_eol", "no_readings", "call"}
      /\ (failure' # "none" <=> node' = "failed")
  <2>1. CASE UNCHANGED <<node, failure>>
    BY <2>1 DEF TypeOK
  <2>2. CASE node' \in Nodes \ {"failed"} /\ failure' = failure /\ node # "failed"
    BY <2>2 DEF TypeOK
  <2>3. CASE node' = "failed" /\ failure' \in {"codes", "no_eol", "no_readings", "call"}
    BY <2>3 DEF Nodes
  <2>4. CASE drift_check
    BY <2>2, <2>3, <2>4 DEF drift_check, Go, Fail, route, Nodes
  <2>5. CASE intake \/ Genealogy \/ CallFails
    BY <2>2, <2>3, <2>5 DEF intake, Genealogy, CallFails, Go, Fail, Nodes
  <2>6. CASE hypothesise \/ correlate \/ bound \/ compose \/ Abstain
    BY <2>2, <2>6 DEF hypothesise, correlate, bound, compose, Abstain, Go, Nodes
  <2>. QED
    BY <2>1, <2>4, <2>5, <2>6, NodeFrame
<1>3. waited' \in 0..EOL_WAIT
  <2>1. CASE Wait
    BY <2>1, InvestigationAssumption DEF Wait, TypeOK
  <2>2. CASE UNCHANGED waited
    BY <2>2 DEF TypeOK
  <2>. QED
    BY <2>1, <2>2, NodeFrame
       DEF intake, Genealogy, hypothesise, correlate, drift_check, bound, compose, Abstain, CallFails
<1>4. genealogy'.readings \subseteq Chars
  <2>1. CASE Genealogy
    BY <2>1 DEF Genealogy, get_vehicle_genealogy
  <2>2. CASE UNCHANGED genealogy
    BY <2>2 DEF TypeOK
  <2>. QED
    BY <2>1, <2>2, NodeFrame
       DEF intake, hypothesise, correlate, drift_check, bound, compose, Abstain, CallFails, evidence
<1>5. siblings' \subseteq [vin : plant.vehicles, at : Nat, lots : SUBSET (Stations \X Nat)]
  <2>1. CASE correlate
    BY <2>1, SuspectIsAStation, SiblingTypes DEF correlate
  <2>2. CASE siblings' = siblings
    BY <2>2 DEF TypeOK
  <2>. QED
    BY <2>1, <2>2, Frame
<1>6. drift' \in [verdict : {"NONE", "STEP", "DRIFT"}, onset : Nat]
  <2>1. CASE drift_check /\ drift' # drift
    <3>1. check_station_drift(drift') /\ node = "drift_check"
      BY <2>1 DEF drift_check
    <3>. QED
      BY <3>1, SuspectIsAStation, DriftTypes
  <2>2. CASE drift' = drift
    BY <2>2 DEF TypeOK
  <2>. QED
    BY <2>1, <2>2, Frame
<1>7. bounds' \in [kind : {"NONE", "LOT", "WINDOW", "SINGLE"}, station : Nat,
                   vins : SUBSET plant.vehicles]
  <2>1. CASE bound
    BY <2>1, BoundTypes
  <2>2. CASE bounds' = bounds
    BY <2>2 DEF TypeOK, Scopes
  <2>. QED
    BY <2>1, <2>2, Frame
<1>8. plant' = plant
  BY Frame
<1>. QED
  BY <1>1, <1>2, <1>3, <1>4, <1>5, <1>6, <1>7, <1>8 DEF TypeOK, Scopes

\* Each part of the evidence has its type at every node (nodes.py): siblings and
\* bounds name vehicles of the plant, a change has a time, a failure a reason.
THEOREM InvestigationTypeOK == Spec => []TypeOK
BY InitTypes, NextTypes, OfThePlantHolds, SuspectOKHolds, PTL DEF Spec

===============================================================================

--------------------------- MODULE ContainmentStore ---------------------------
(***************************************************************************)
(* The api's tables (services/api/src/qgate_api/store.py): one containment *)
(* row per proposal, its VIN list and its audit row, kept here as one      *)
(* record because the code writes the three in one transaction.  Every     *)
(* operator is one transaction of store.py; the handlers around them (who  *)
(* calls them, what is sent afterwards) are in GateSystem.                 *)
(*                                                                         *)
(* A scope (a VIN list) is a set of vehicles.  Trigger stands for the      *)
(* failing vehicle of whichever triage a row belongs to.                   *)
(***************************************************************************)

CONSTANTS
    Cid,            \* containment ids (uuid4); a row is "ABSENT" until its insert
    Thread,         \* triage thread ids
    None,           \* no thread, no containment
    Vin,            \* vehicles, relative to one triage
    Trigger,        \* the failing vehicle
    ProposedScopes, \* what decide_bounds may propose
    ClientScopes,   \* explicit VIN lists a client may send with an amendment
    Rescopes        \* what the build events may yield for amended bounds

ASSUME NoneAssumption == None \notin Thread /\ None \notin Cid
ASSUME ScopeAssumption ==
    /\ Trigger \in Vin
    /\ ClientScopes \subseteq SUBSET Vin
    /\ Rescopes \subseteq SUBSET Vin
    \* decide_bounds adds the trigger to every scope it proposes
    /\ ProposedScopes \subseteq {S \in SUBSET Vin : Trigger \in S}

VARIABLE row

RowStates == {"ABSENT", "PROPOSED", "APPROVED", "AMENDED", "REJECTED",
              "EXPIRED", "COMMIT_PENDING", "COMMITTED", "ESCALATED"}

\* The audit row's decision column; "NONE" stands for a row that is absent.
AuditDecisions == {"NONE", "PENDING", "APPROVE", "AMEND", "REJECT",
                   "EXPIRED", "ESCALATED"}

Rows == [thread   : Thread \cup {None},
         state    : RowStates,
         decision : AuditDecisions,
         vins     : SUBSET Vin,
         mes_ref  : BOOLEAN,   \* the plant's hold reference is recorded
         reported : BOOLEAN]   \* latency_total_ms is not null

NoRow == [thread |-> None, state |-> "ABSENT", decision |-> "NONE",
          vins |-> {}, mes_ref |-> FALSE, reported |-> FALSE]

StoreInit == row = [c \in Cid |-> NoRow]

-----------------------------------------------------------------------------

\* store.propose: the row, its VINs and its audit row under a fresh id.
Propose(c, t, state, vins) ==
    /\ row[c].state = "ABSENT"
    /\ row' = [row EXCEPT ![c] =
                 [thread   |-> t,
                  state    |-> state,
                  decision |-> IF state = "PROPOSED" THEN "PENDING" ELSE state,
                  vins     |-> vins,
                  mes_ref  |-> FALSE,
                  reported |-> FALSE]]

\* Mutant: a parked containment can be decided again.
DecidableUntilCommitted(c) == row[c].state \in {"PROPOSED", "COMMIT_PENDING"}

\* store.DECIDABLE: only a pending proposal can be decided.
Decidable(c) == row[c].state = "PROPOSED"

\* The scopes an amendment can leave on a row: untouched bounds keep the list,
\* an explicit list is stored as sent, moved bounds are re-scoped from the
\* build events and always contain the trigger.
AmendedScopes(c) ==
    {row[c].vins} \cup ClientScopes \cup {S \cup {Trigger} : S \in Rescopes}

\* store.decide, under SELECT ... FOR UPDATE.
Decide(c, action, vins) ==
    /\ Decidable(c)
    /\ vins \in IF action = "AMEND" THEN AmendedScopes(c) ELSE {row[c].vins}
    /\ row' = [row EXCEPT
                 ![c].state = CASE action = "APPROVE" -> "APPROVED"
                                [] action = "AMEND"   -> "AMENDED"
                                [] action = "REJECT"  -> "REJECTED",
                 ![c].decision = action,
                 ![c].vins = vins]

\* Mutant: whatever is past its deadline expires, decided or not.
SweepExpiredAny(due) ==
    /\ due # {}
    /\ \A c \in due : row[c].state \in {"PROPOSED", "APPROVED", "AMENDED"}
    /\ row' = [c \in Cid |->
                 IF c \in due
                 THEN [row[c] EXCEPT !.state = "EXPIRED", !.decision = "EXPIRED"]
                 ELSE row[c]]

\* store.sweep_expired: the due proposals, all in one transaction.
SweepExpired(due) ==
    /\ due # {}
    /\ \A c \in due : Decidable(c)
    /\ row' = [c \in Cid |->
                 IF c \in due
                 THEN [row[c] EXCEPT !.state = "EXPIRED", !.decision = "EXPIRED"]
                 ELSE row[c]]

\* Mutant: any PATCH closes the audit row.
RecordOutcomeCloses(c, state, final) ==
    row' = [row EXCEPT ![c].state = state,
                       ![c].mes_ref = @ \/ state = "COMMITTED",
                       ![c].reported = TRUE]

\* store.record_outcome: the state is overwritten whatever it was; mes_ref and
\* the latencies are coalesced.
RecordOutcome(c, state, final) ==
    row' = [row EXCEPT ![c].state = state,
                       ![c].mes_ref = @ \/ state = "COMMITTED",
                       ![c].reported = @ \/ final]

\* Mutant: expired rows are left out.
UnreportedByHumans ==
    {c \in Cid : /\ row[c].state \in {"APPROVED", "AMENDED", "REJECTED"}
                 /\ ~row[c].reported}

\* store.list_unreported: decided, but never closed by the agent's report.
Unreported ==
    {c \in Cid : /\ row[c].state \in {"APPROVED", "AMENDED", "REJECTED", "EXPIRED"}
                 /\ ~row[c].reported}

\* store.list_by_state("COMMIT_PENDING"), as the sweeper calls it.
Parked == {c \in Cid : row[c].state = "COMMIT_PENDING"}

===============================================================================

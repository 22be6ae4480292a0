-------------------------- MODULE GateDecisionProofs --------------------------
(***************************************************************************)
(* The plant holds exactly what the human decided, and the gate implements *)
(* GateSpec, for any number of threads, containments, vehicles, attempts,  *)
(* workers and failures, whatever is lost or comes late.                   *)
(*                                                                         *)
(* The argument: a decision reaches a thread only from a row of that       *)
(* thread, so as long as a containment is its triage's only one, the       *)
(* decision that reaches the thread is its own.  A decision and the scope  *)
(* it was taken on no longer change, so whatever carries them (a resume, a *)
(* value, a graph state past the gate, a request whose caller gave up)     *)
(* keeps agreeing with the row, and the plant, which only learns scopes    *)
(* from those, agrees with it too.  Once a triage has proposed again its   *)
(* rows are only related as a group, and a containment that has lost its   *)
(* claim to be the only one never regains it.                              *)
(***************************************************************************)
EXTENDS GateDurableProofs

-----------------------------------------------------------------------------
(* The inductive invariant, next to IInv and DInv. *)

Scope(c) == row[c].vins \cup {Trigger}

\* A containment of the triage of c was refused.
SomeRefused(c) == \E d \in Existing : row[d].thread = row[c].thread /\ Refused(d)

\* The outcome o that a report gives of containment c is what came of it.
OutcomeOK(c, o) ==
    \/ o = "COMMITTED" /\ Mes!Held(c)
    \/ o = "REJECTED" /\ SomeRefused(c)
    \/ o = "ESCALATED" /\ row[c].decision = "ESCALATED"

RowAgrees(c) ==
    /\ row[c].state = "ABSENT" => row[c] = NoRow
    /\ row[c].state # "ABSENT" => row[c].decision # "NONE"
    /\ Mes!Held(c) /\ OnlyOne(c) => Approved(c) /\ hold[c] = Scope(c)
    /\ row[c].reported => Mes!Held(c) \/ SomeRefused(c) \/ row[c].decision = "ESCALATED"
    /\ row[c].state \in {"REJECTED", "EXPIRED"} => SomeRefused(c)

\* A graph state past the gate carries its row's decision and scope.
DecidedAs(c, vins) == OnlyOne(c) => Approved(c) /\ vins = Scope(c)

GraphAgrees(g) ==
    /\ g.next = "gate" /\ row[g.cid].decision # "AMEND" => g.vins = row[g.cid].vins
    /\ g.next \in AtThePlant => DecidedAs(g.cid, g.vins)
    /\ g.next = "report" => OutcomeOK(g.cid, g.outcome)

\* A decision that is on its way to thread t, or that its worker holds.
ValueAgrees(t, v) ==
    /\ v.decision = "APPROVE" => \E c \in RowsOf[t] : row[c].decision = "APPROVE"
    /\ v.decision = "AMEND" =>
          \E c \in RowsOf[t] : row[c].decision = "AMEND" /\ v.vins = row[c].vins
    /\ v.decision = "REJECT" => \E c \in RowsOf[t] : Refused(c)

RequestAgrees(r) ==
    /\ r.op = "hold" => DecidedAs(r.cid, r.vins)
    /\ r.op = "patch" => (r.state = "COMMIT_PENDING" /\ ~r.final) \/ OutcomeOK(r.cid, r.state)

RowsAgree == \A c \in Cid : RowAgrees(c)
ThreadsAgree ==
    \A t \in Thread :
        /\ GraphAgrees(mem[t]) /\ GraphAgrees(ckpt[t])
        /\ ValueAgrees(t, value[t])
MessagesAgree ==
    /\ \A m \in wake : ValueAgrees(m.thread, m)
    /\ \A r \in late : RequestAgrees(r)

AInv == RowsAgree /\ ThreadsAgree /\ MessagesAgree

-----------------------------------------------------------------------------
(* What stays true while the rows and the plant move on. *)

HoldsStand == \A c \in Cid : hold[c] # {} => hold'[c] = hold[c]

\* What every step does to the rows and the plant.
Stable == Kept /\ HoldsStand

LEMMA Stands ==
    ASSUME IInv, [Next]_vars
    PROVE  Stable
BY StepsOfTheStore, RowsAreKept DEF Stable, HoldsRequested, HoldsStand

LEMMA RowStands ==
    ASSUME Stable, NEW c \in Existing
    PROVE  /\ c \in Existing'
           /\ OnlyOne(c)' => OnlyOne(c)
           /\ Approved(c) => Approved(c)' /\ Scope(c)' = Scope(c)
           /\ Refused(c) => Refused(c)'
           /\ SomeRefused(c) => SomeRefused(c)'
           /\ \A vins : DecidedAs(c, vins) => DecidedAs(c, vins)'
           /\ \A o \in Outcomes \cup RowStates : OutcomeOK(c, o) => OutcomeOK(c, o)'
<1>0. \A d \in Existing :
         /\ d \in Existing' /\ row'[d].thread = row[d].thread
         /\ row[d].decision \notin {"NONE", "PENDING"} =>
               row'[d].decision = row[d].decision /\ row'[d].vins = row[d].vins
  BY DEF Stable, Kept, Existing
<1>1. OnlyOne(c)' => OnlyOne(c)
  BY <1>0 DEF OnlyOne
<1>2. \A d \in Existing : (Approved(d) => Approved(d)' /\ Scope(d)' = Scope(d))
                          /\ (Refused(d) => Refused(d)')
  BY <1>0 DEF Approved, Refused, Scope
<1>3. SomeRefused(c) => SomeRefused(c)'
  BY <1>0, <1>2 DEF SomeRefused
<1>4. \A vins : DecidedAs(c, vins) => DecidedAs(c, vins)'
  BY <1>1, <1>2 DEF DecidedAs
<1>5. \A o \in Outcomes \cup RowStates : OutcomeOK(c, o) => OutcomeOK(c, o)'
  BY <1>0, <1>3 DEF Stable, HoldsStand, Existing, OutcomeOK, Mes!Held
<1>. QED
  BY <1>0, <1>1, <1>2, <1>3, <1>4, <1>5

-----------------------------------------------------------------------------
(* The store and the plant: every operation agrees and is a step of GateSpec. *)

GateStep == [Abstract!GateNext]_(Abstract!gateVars)

LEMMA Verdicts ==
    /\ Verdict["NONE"] = "none" /\ Verdict["PENDING"] = "pending"
    /\ Verdict["APPROVE"] = "approved" /\ Verdict["AMEND"] = "approved"
    /\ Verdict["REJECT"] = "refused" /\ Verdict["EXPIRED"] = "refused"
    /\ Verdict["ESCALATED"] = "abstained"
BY DEF Verdict, AuditDecisions

\* What the abstract gate cannot see.
LEMMA Unseen ==
    ASSUME \A c \in Cid : /\ row'[c].thread = row[c].thread
                          /\ row'[c].decision = row[c].decision
                          /\ row'[c].reported = row[c].reported
                          /\ Mes!Held(c)' = Mes!Held(c)
    PROVE  GateStep
BY DEF GateStep, Abstract!gateVars

\* What is held is a containment that exists.
LEMMA HeldExists ==
    ASSUME IInv, NEW c \in Cid, Mes!Held(c)
    PROVE  c \in Existing /\ c \in HeldCids
BY DEF IInv, StoreOK, HoldOK, HeldCids, RowsOf, ApprovedThreads

\* A row that a step does not touch goes on agreeing.
LEMMA RowKept ==
    ASSUME IInv, Stable, NEW d \in Cid, RowAgrees(d), row'[d] = row[d], hold'[d] = hold[d]
    PROVE  RowAgrees(d)'
<1>1. CASE d \in Existing
  BY <1>1, RowStands DEF RowAgrees, Existing, Approved, Scope, Mes!Held
<1>2. CASE d \notin Existing
  <2>1. row'[d] = NoRow /\ hold'[d] = {}
    BY <1>2, HeldExists DEF RowAgrees, Existing, Mes!Held
  <2>. QED
    BY <2>1 DEF RowAgrees, NoRow, Mes!Held
<1>. QED
  BY <1>1, <1>2

LEMMA InFlightAgrees ==
    ASSUME AInv, NEW r \in InFlight
    PROVE  RequestAgrees(r)
<1>1. CASE r \in late
  BY <1>1 DEF AInv, MessagesAgree
<1>2. ASSUME NEW t \in Thread, r \in NodeRequests(t)
      PROVE  RequestAgrees(r)
  <2>1. GraphAgrees(mem[t])
    BY DEF AInv, ThreadsAgree
  <2>. QED
    BY <1>2, <2>1
       DEF NodeRequests, RequestAgrees, GraphAgrees, AtThePlant, PostRequest, PatchRequest, HoldRequest
<1>. QED
  BY <1>1, <1>2 DEF InFlight

LEMMA ProposeAgrees ==
    ASSUME IInv, AInv, Stable, UNCHANGED hold,
           NEW c \in Cid, NEW t \in Thread, NEW state \in {"PROPOSED", "ESCALATED"},
           NEW vins \in SUBSET Vin, Propose(c, t, state, vins)
    PROVE  RowsAgree' /\ GateStep
<1>1. /\ row \in [Cid -> Rows] /\ row[c] = NoRow /\ hold'[c] = {} /\ hold[c] = {}
  BY HeldExists DEF IInv, StoreOK, AInv, RowsAgree, RowAgrees, Propose, Existing, Mes!Held
<1>2. /\ row'[c].state = state /\ ~row'[c].reported /\ row'[c].thread = t
      /\ row'[c].decision = IF state = "PROPOSED" THEN "PENDING" ELSE state
      /\ \A d \in Cid \ {c} : row'[d] = row[d]
  BY <1>1 DEF Propose
<1>3. RowsAgree'
  <2>1. RowAgrees(c)'
    BY <1>1, <1>2 DEF RowAgrees, Mes!Held
  <2>2. \A d \in Cid \ {c} : RowAgrees(d)'
    BY <1>2, RowKept DEF AInv, RowsAgree
  <2>. QED
    BY <2>1, <2>2 DEF RowsAgree
<1>4. Abstract!Open(c, t)
  <2>1. /\ Verdict[row[c].decision] = "none"
        /\ Verdict[row'[c].decision] \in {"pending", "abstained"}
    BY <1>1, <1>2, Verdicts DEF NoRow
  <2>2. row[c].reported = FALSE /\ row'[c].reported = FALSE
    BY <1>1 DEF Propose, NoRow
  <2>3. [d \in Cid |-> row'[d].thread] = [[d \in Cid |-> row[d].thread] EXCEPT ![c] = t]
    BY <1>2
  <2>4. [d \in Cid |-> Verdict[row'[d].decision]]
          = [[d \in Cid |-> Verdict[row[d].decision]] EXCEPT ![c] = Verdict[row'[c].decision]]
    BY <1>2
  <2>5. [d \in Cid |-> row'[d].reported] = [d \in Cid |-> row[d].reported]
    BY <1>2, <2>2
  <2>. QED
    BY <2>1, <2>3, <2>4, <2>5 DEF Abstract!Open, Mes!Held
<1>. QED
  BY <1>3, <1>4 DEF GateStep, Abstract!GateNext

LEMMA RecordAgrees ==
    ASSUME IInv, AInv, Stable, UNCHANGED hold,
           NEW c \in Existing, NEW state \in PatchStates, NEW final \in BOOLEAN,
           RecordOutcome(c, state, final),
           (state = "COMMIT_PENDING" /\ ~final) \/ OutcomeOK(c, state)
    PROVE  RowsAgree' /\ GateStep
<1>1. row \in [Cid -> Rows] /\ row[c] \in Rows /\ c \in Cid /\ row[c].state # "ABSENT"
  BY DEF IInv, StoreOK, Existing
<1>2. /\ row'[c].state = state /\ row'[c].reported = (row[c].reported \/ final)
      /\ row'[c].decision = row[c].decision /\ row'[c].vins = row[c].vins
      /\ row'[c].thread = row[c].thread
      /\ \A d \in Cid \ {c} : row'[d] = row[d]
  BY <1>1 DEF RecordOutcome, Rows
<1>3. RowAgrees(c)'
  <2>1. RowAgrees(c)
    BY DEF AInv, RowsAgree, Existing
  <2>2. OnlyOne(c)' => OnlyOne(c)
    BY RowStands
  <2>3. SomeRefused(c) => SomeRefused(c)'
    BY RowStands
  <2>4. Mes!Held(c)' = Mes!Held(c)
    BY DEF Mes!Held
  <2>. QED
    BY <1>1, <1>2, <2>1, <2>2, <2>3, <2>4 DEF RowAgrees, OutcomeOK, Scope, Approved, PatchStates
<1>4. RowsAgree'
  BY <1>2, <1>3, RowKept DEF AInv, RowsAgree
<1>5. /\ [d \in Cid |-> row'[d].thread] = [d \in Cid |-> row[d].thread]
      /\ [d \in Cid |-> Verdict[row'[d].decision]] = [d \in Cid |-> Verdict[row[d].decision]]
  BY <1>2
<1>6. CASE final /\ ~row[c].reported
  <2>1. \/ Mes!Held(c) \/ Verdict[row[c].decision] = "abstained"
        \/ \E d \in Cid : row[d].thread = row[c].thread /\ Verdict[row[d].decision] = "refused"
    BY <1>6, Verdicts DEF OutcomeOK, SomeRefused, Refused, Existing
  <2>2. row[c].reported = FALSE /\ row'[c].reported = TRUE
    BY <1>1, <1>2, <1>6 DEF Rows
  <2>3. [d \in Cid |-> row'[d].reported] = [[d \in Cid |-> row[d].reported] EXCEPT ![c] = TRUE]
    BY <1>2, <2>2
  <2>4. Abstract!Close(c)
    BY <1>1, <1>5, <2>1, <2>2, <2>3 DEF Abstract!Close, Abstract!Alike, Mes!Held
  <2>. QED
    BY <1>1, <1>4, <2>4 DEF GateStep, Abstract!GateNext
<1>7. CASE ~final \/ row[c].reported
  <2>1. row'[c].reported = row[c].reported
    BY <1>1, <1>2, <1>7 DEF Rows
  <2>. QED
    BY <1>2, <1>4, <2>1, Unseen DEF Mes!Held
<1>. QED
  BY <1>6, <1>7

LEMMA DecideAgrees ==
    ASSUME IInv, AInv, Stable, UNCHANGED hold,
           NEW c \in Cid, NEW action \in {"APPROVE", "AMEND", "REJECT"},
           NEW vins \in SUBSET Vin, Decide(c, action, vins)
    PROVE  RowsAgree' /\ GateStep
<1>1. /\ row \in [Cid -> Rows] /\ row[c] \in Rows /\ c \in Existing
      /\ row[c].decision = "PENDING" /\ RowAgrees(c)
  BY DEF IInv, StoreOK, RowOK, AInv, RowsAgree, Decide, Decidable, Existing
<1>2. /\ row'[c].decision = action /\ row'[c].reported = row[c].reported
      /\ row'[c].thread = row[c].thread
      /\ row'[c].state \in {"APPROVED", "AMENDED", "REJECTED"}
      /\ row'[c].state = "REJECTED" => action = "REJECT"
      /\ \A d \in Cid \ {c} : row'[d] = row[d]
  BY <1>1 DEF Decide, Rows
<1>3. RowAgrees(c)'
  <2>1. Refused(c)' => SomeRefused(c)'
    BY <1>1, RowStands DEF SomeRefused
  <2>2. (OnlyOne(c)' => OnlyOne(c)) /\ (SomeRefused(c) => SomeRefused(c)')
    BY <1>1, RowStands
  <2>3. Mes!Held(c)' = Mes!Held(c)
    BY DEF Mes!Held
  <2>. QED
    BY <1>1, <1>2, <2>1, <2>2, <2>3 DEF RowAgrees, Approved, Refused
<1>4. RowsAgree'
  BY <1>2, <1>3, RowKept DEF AInv, RowsAgree
<1>5. /\ [d \in Cid |-> row'[d].thread] = [d \in Cid |-> row[d].thread]
      /\ [d \in Cid |-> row'[d].reported] = [d \in Cid |-> row[d].reported]
      /\ [d \in Cid |-> Mes!Held(d)'] = [d \in Cid |-> Mes!Held(d)]
  BY <1>2 DEF Mes!Held
<1>6. Verdict[row[c].decision] = "pending"
  BY <1>1, Verdicts
<1>7. CASE action \in {"APPROVE", "AMEND"}
  <2>1. Verdict[row'[c].decision] = "approved"
    BY <1>2, <1>7, Verdicts
  <2>2. [d \in Cid |-> Verdict[row'[d].decision]]
          = [[d \in Cid |-> Verdict[row[d].decision]] EXCEPT ![c] = "approved"]
    BY <1>2, <2>1
  <2>3. Abstract!Approve(c)
    BY <1>5, <1>6, <2>2 DEF Abstract!Approve
  <2>. QED
    BY <1>4, <2>3 DEF GateStep, Abstract!GateNext
<1>8. CASE action = "REJECT"
  <2>1. Verdict[row'[c].decision] = "refused"
    BY <1>2, <1>8, Verdicts
  <2>2. Abstract!RefuseAll({c})
    BY <1>2, <1>5, <1>6, <2>1 DEF Abstract!RefuseAll
  <2>3. {c} \in SUBSET Abstract!Pending
    BY <1>6 DEF Abstract!Pending
  <2>. QED
    BY <1>4, <2>2, <2>3 DEF GateStep, Abstract!GateNext
<1>. QED
  BY <1>7, <1>8

LEMMA SweepAgrees ==
    ASSUME IInv, AInv, Stable, UNCHANGED hold, NEW due \in SUBSET Cid, SweepExpired(due)
    PROVE  RowsAgree' /\ GateStep
<1>1. row \in [Cid -> Rows] /\ due # {}
  BY DEF IInv, StoreOK, SweepExpired
<1>2. ASSUME NEW c \in due
      PROVE  /\ c \in Existing /\ row[c].decision = "PENDING" /\ RowAgrees(c)
             /\ row'[c].decision = "EXPIRED" /\ row'[c].state = "EXPIRED"
             /\ row'[c].reported = row[c].reported /\ row'[c].thread = row[c].thread
  <2>1. c \in Existing /\ row[c].decision = "PENDING" /\ RowAgrees(c)
    BY DEF IInv, StoreOK, RowOK, AInv, RowsAgree, SweepExpired, Decidable, Existing
  <2>2. /\ row'[c].decision = "EXPIRED" /\ row'[c].state = "EXPIRED"
        /\ row'[c].reported = row[c].reported /\ row'[c].thread = row[c].thread
    BY <1>1 DEF SweepExpired, Rows
  <2>. QED
    BY <2>1, <2>2
<1>3. \A c \in Cid \ due : row'[c] = row[c]
  BY DEF SweepExpired
<1>4. RowsAgree'
  <2>1. ASSUME NEW c \in due PROVE RowAgrees(c)'
    <3>1. SomeRefused(c)'
      BY <1>2, RowStands DEF SomeRefused, Refused
    <3>2. OnlyOne(c)' => OnlyOne(c)
      BY <1>2, RowStands
    <3>3. Mes!Held(c)' = Mes!Held(c)
      BY DEF Mes!Held
    <3>. QED
      BY <1>2, <3>1, <3>2, <3>3 DEF RowAgrees, Approved
  <2>2. \A c \in Cid \ due : RowAgrees(c)'
    BY <1>3, RowKept DEF AInv, RowsAgree
  <2>. QED
    BY <2>1, <2>2 DEF RowsAgree
<1>5. \A c \in due : Verdict[row[c].decision] = "pending" /\ Verdict[row'[c].decision] = "refused"
  BY <1>2, Verdicts
<1>6. /\ [d \in Cid |-> row'[d].thread] = [d \in Cid |-> row[d].thread]
      /\ [d \in Cid |-> row'[d].reported] = [d \in Cid |-> row[d].reported]
      /\ [d \in Cid |-> Mes!Held(d)'] = [d \in Cid |-> Mes!Held(d)]
  BY <1>2, <1>3 DEF Mes!Held
<1>7. Abstract!RefuseAll(due)
  BY <1>1, <1>3, <1>5, <1>6 DEF Abstract!RefuseAll
<1>8. due \in SUBSET Abstract!Pending
  BY <1>5 DEF Abstract!Pending
<1>. QED
  BY <1>4, <1>7, <1>8 DEF GateStep, Abstract!GateNext

\* The plant's hold: the thread names the containment, so no other of its
\* triage is held.
LEMMA HoldAgrees ==
    ASSUME IInv, DInv, AInv, Stable, UNCHANGED row,
           NEW c \in Existing, NEW vins \in SUBSET Vin, Mes!CreateOrReplay(c, vins),
           row[c].thread \in ApprovedThreads, Names(row[c].thread, c),
           DecidedAs(c, vins), vins # {}
    PROVE  RowsAgree' /\ GateStep
<1>1. hold \in [Cid -> SUBSET Vin] /\ row \in [Cid -> Rows] /\ c \in Cid /\ row[c].state # "ABSENT"
  BY DEF IInv, StoreOK, Existing
<1>2. hold'[c] = vins /\ hold[c] \in {{}, vins} /\ \A d \in Cid \ {c} : hold'[d] = hold[d]
  BY <1>1 DEF Mes!CreateOrReplay
<1>3. RowAgrees(c)'
  <2>1. RowAgrees(c)
    BY <1>1 DEF AInv, RowsAgree
  <2>2. OnlyOne(c)' => OnlyOne(c)
    BY RowStands
  <2>3. SomeRefused(c)' = SomeRefused(c)
    BY DEF SomeRefused, Refused, Existing
  <2>. QED
    BY <1>1, <1>2, <2>1, <2>2, <2>3 DEF RowAgrees, DecidedAs, Scope, Approved, Mes!Held
<1>4. RowsAgree'
  BY <1>2, <1>3, RowKept DEF AInv, RowsAgree
<1>5. CASE hold[c] = {}
  <2>1. Verdict[row[c].decision] # "none"
    <3>1. row[c].decision \in AuditDecisions \ {"NONE"}
      BY <1>1 DEF Rows, AInv, RowsAgree, RowAgrees
    <3>. QED
      BY <3>1, Verdicts DEF AuditDecisions
  <2>2. \E d \in Cid : row[d].thread = row[c].thread /\ Verdict[row[d].decision] = "approved"
    BY Verdicts DEF ApprovedThreads, HumanApproved, Approved, Existing
  <2>3. \A d \in Cid : row[d].thread = row[c].thread => ~Mes!Held(d)
    BY <1>5, HeldExists DEF DInv, HoldsNamed, Names, Mes!Held
  <2>4. [d \in Cid |-> Mes!Held(d)'] = [[d \in Cid |-> Mes!Held(d)] EXCEPT ![c] = TRUE]
    BY <1>2 DEF Mes!Held
  <2>5. Abstract!HoldOnce(c)
    BY <1>1, <2>1, <2>2, <2>3, <2>4 DEF Abstract!HoldOnce, Abstract!Alike
  <2>. QED
    BY <1>1, <1>4, <2>5 DEF GateStep, Abstract!GateNext
<1>6. CASE hold[c] = vins
  BY <1>2, <1>4, <1>6, Unseen DEF Mes!Held
<1>. QED
  BY <1>2, <1>5, <1>6

LEMMA StoreAgrees ==
    ASSUME IInv, DInv, AInv, Stable, StoreSteps
    PROVE  RowsAgree' /\ GateStep
<1>1. CASE UNCHANGED <<row, hold>>
  BY <1>1, RowKept, Unseen DEF AInv, RowsAgree, Mes!Held
<1>2. ASSUME NEW r \in InFlight, Apply(r)
      PROVE  RowsAgree' /\ GateStep
  <2>0. r \in Requests /\ RequestOK(r) /\ RequestAgrees(r)
    BY InFlightOK, InFlightAgrees
  <2>1. CASE r.op = "post"
    BY <1>2, <2>0, <2>1, ProposeAgrees DEF Apply, Requests, RequestOK
  <2>2. CASE r.op = "patch"
    <3>1. r.cid \in Existing /\ r.state \in PatchStates /\ r.final \in BOOLEAN
      BY <2>0, <2>2 DEF Requests, RequestOK, RowsOf
    <3>2. RecordOutcome(r.cid, r.state, r.final) /\ UNCHANGED hold
      BY <1>2, <2>2 DEF Apply
    <3>. QED
      BY <2>0, <2>2, <3>1, <3>2, RecordAgrees DEF RequestAgrees
  <2>3. CASE r.op = "hold"
    <3>1. /\ r.cid \in Existing /\ row[r.cid].thread = r.thread /\ r.vins \in SUBSET Vin
          /\ r.vins # {} /\ r.thread \in ApprovedThreads /\ DecidedAs(r.cid, r.vins)
      BY <2>0, <2>3 DEF Requests, RequestOK, RowsOf, RequestAgrees
    <3>2. Names(r.thread, r.cid)
      BY <2>3, RequestsNamed
    <3>3. row' = row /\ (UNCHANGED hold \/ Mes!CreateOrReplay(r.cid, r.vins))
      BY <1>2, <2>3 DEF Apply
    <3>. QED
      BY <1>1, <3>1, <3>2, <3>3, HoldAgrees
  <2>. QED
    BY <2>0, <2>1, <2>2, <2>3 DEF Requests
<1>. QED
  BY <1>1, <1>2, DecideAgrees, SweepAgrees DEF StoreSteps, Decided

-----------------------------------------------------------------------------
(* What stays true of a thread while the rows and the plant move on. *)

\* A graph state that agrees with the rows goes on agreeing with them.
LEMMA GraphStands ==
    ASSUME Stable, NEW g \in GraphStates, GraphAgrees(g),
           g.next \in Past \ {"END"} => g.cid \in Existing
    PROVE  GraphAgrees(g)'
<1>1. g.next \in {"gate", "commit", "pending", "retry_gate", "report"} => g.cid \in Existing
  BY DEF Past
<1>2. CASE g.next = "gate"
  BY <1>1, <1>2 DEF GraphAgrees, Stable, Kept, Existing, AtThePlant
<1>3. CASE g.next \in AtThePlant
  BY <1>1, <1>3, RowStands DEF GraphAgrees, AtThePlant
<1>4. CASE g.next = "report"
  BY <1>1, <1>4, RowStands DEF GraphAgrees, AtThePlant, GraphStates
<1>. QED
  BY <1>2, <1>3, <1>4 DEF GraphAgrees

LEMMA ValueStands ==
    ASSUME Stable, NEW t \in Thread, NEW v, ValueAgrees(t, v)
    PROVE  ValueAgrees(t, v)'
BY DEF Stable, Kept, ValueAgrees, RowsOf, Existing, Refused

LEMMA RequestStands ==
    ASSUME Stable, NEW r \in Requests, RequestOK(r), RequestAgrees(r)
    PROVE  RequestAgrees(r)'
<1>1. r.op # "post" => r.cid \in Existing
  BY DEF RequestOK, RowsOf, Requests
<1>. QED
  BY <1>1, RowStands DEF RequestAgrees, Requests

\* What a thread had, it may keep or move between memory and checkpoint.
LEMMA ThreadKeeps ==
    ASSUME IInv, AInv, Stable, NEW t \in Thread
    PROVE  /\ mem'[t] \in {mem[t], ckpt[t]} => GraphAgrees(mem[t])'
           /\ ckpt'[t] \in {mem[t], ckpt[t]} => GraphAgrees(ckpt[t])'
           /\ value'[t] \in {value[t], NoValue} => ValueAgrees(t, value[t])'
<1>1. /\ mem[t] \in GraphStates /\ ckpt[t] \in GraphStates
      /\ GraphOK(t, mem[t]) /\ GraphOK(t, ckpt[t])
  BY DEF IInv, TypeOK, ThreadsOK
<1>2. /\ GraphAgrees(mem[t]) /\ GraphAgrees(ckpt[t]) /\ ValueAgrees(t, value[t])
  BY DEF AInv, ThreadsAgree
<1>3. \A g \in GraphStates : GraphOK(t, g) /\ GraphAgrees(g) => GraphAgrees(g)'
  BY GraphStands DEF GraphOK, RowsOf, Past
<1>4. \A v : ValueAgrees(t, v) => ValueAgrees(t, v)'
  BY ValueStands
<1>5. ValueAgrees(t, NoValue)
  BY DEF ValueAgrees, NoValue
<1>. QED
  BY <1>1, <1>2, <1>3, <1>4, <1>5 DEF GraphAgrees, DecidedAs, ValueAgrees

\* One thread moves.
LEMMA OneThreadAgrees ==
    ASSUME IInv, AInv, Stable, NEW t \in Thread,
           \A u \in Thread \ {t} : mem'[u] = mem[u] /\ ckpt'[u] = ckpt[u] /\ value'[u] = value[u],
           GraphAgrees(mem[t])', GraphAgrees(ckpt[t])', ValueAgrees(t, value[t])'
    PROVE  ThreadsAgree'
<1> SUFFICES ASSUME NEW u \in Thread, u # t
             PROVE  /\ GraphAgrees(mem[u])' /\ GraphAgrees(ckpt[u])'
                    /\ ValueAgrees(u, value[u])'
  BY DEF ThreadsAgree
<1>1. mem'[u] = mem[u] /\ ckpt'[u] = ckpt[u] /\ value'[u] = value[u]
  OBVIOUS
<1>. QED
  BY <1>1, ThreadKeeps

LEMMA NoThreadAgrees ==
    ASSUME IInv, AInv, Stable, UNCHANGED <<mem, ckpt, value>>
    PROVE  ThreadsAgree'
BY ThreadKeeps DEF ThreadsAgree

-----------------------------------------------------------------------------
(* The messages: resumes and requests whose callers gave up. *)

LEMMA LateAgrees ==
    ASSUME IInv, AInv, Stable, [Next]_vars
    PROVE  \A r \in late' : RequestAgrees(r)'
<1> SUFFICES ASSUME NEW r \in late' PROVE RequestAgrees(r)'
  OBVIOUS
<1>1. r \in GivenUp
  BY StepsOfTheStore
<1>2. r \in InFlight
  BY <1>1 DEF GivenUp, InFlight
<1>3. r \in Requests /\ RequestOK(r) /\ RequestAgrees(r)
  BY <1>2, InFlightOK, InFlightAgrees
<1>. QED
  BY <1>2, <1>3, RequestStands

\* A decided row's resume carries its decision and its scope.
LEMMA ResumeAgrees ==
    ASSUME NEW c \in Existing, row[c].thread \in Thread,
           NEW action \in {"APPROVE", "AMEND", "REJECT", "RETRY"},
           action = "APPROVE" => row[c].decision = "APPROVE",
           action = "AMEND" => row[c].decision = "AMEND",
           action = "REJECT" => SomeRefused(c)
    PROVE  ValueAgrees(row[c].thread, Resume(c, action, row[c].vins))
<1>1. c \in RowsOf[row[c].thread]
  BY DEF RowsOf
<1>. QED
  BY <1>1 DEF ValueAgrees, Resume, SomeRefused, RowsOf

LEMMA WakesAgree ==
    ASSUME IInv, AInv, Stable, [Next]_vars
    PROVE  \A m \in wake' : ValueAgrees(m.thread, m)'
<1> DEFINE Goal == \A m \in wake' : ValueAgrees(m.thread, m)'
<1>0. /\ \A m \in wake : m \in Wakes /\ m.thread \in Thread /\ ValueAgrees(m.thread, m)
      /\ row \in [Cid -> Rows] /\ \A c \in Cid : RowOK(c) /\ RowAgrees(c)
  BY DEF IInv, TypeOK, Wakes, AInv, MessagesAgree, RowsAgree, StoreOK
<1>1. \A t \in Thread : \A v : ValueAgrees(t, v) => ValueAgrees(t, v)'
  BY ValueStands
<1>2. \A m \in wake : ValueAgrees(m.thread, m)'
  BY <1>0, <1>1
<1>3. ASSUME wake' \subseteq wake PROVE Goal
  BY <1>2, <1>3
<1>4. ASSUME NEW m \in wake, Snapshot(m) PROVE Goal
  <2>1. \A n \in wake' \ wake : n.decision = m.decision /\ n.thread = m.thread /\ n.vins = m.vins
    BY <1>0, <1>4 DEF Snapshot, Modes, Wakes
  <2>2. \A n \in wake' \ wake : ValueAgrees(n.thread, n)'
    BY <1>2, <2>1 DEF ValueAgrees
  <2>. QED
    BY <1>2, <2>2
<1>5. ASSUME NEW m \in wake, ResumeHandler(m) PROVE Goal
  <2>1. CASE Snapshot(m)
    BY <1>4, <2>1
  <2>2. CASE Claim(m) \/ Refuse(m) \/ LoseWake(m)
    BY <1>3, <2>2 DEF Claim, Refuse, LoseWake
  <2>. QED
    BY <1>5, <2>1, <2>2 DEF ResumeHandler
<1>6. ASSUME NEW c \in Cid, NEW action \in {"APPROVE", "AMEND", "REJECT"}, HumanDecision(c, action)
      PROVE  Goal
  <2>1. PICK vins \in SUBSET Vin : Decide(c, action, vins) /\ Send({Resume(c, action, vins)})
    BY <1>6 DEF HumanDecision
  <2>2. c \in RowsOf[row[c].thread] /\ row[c].thread \in Thread
    BY <1>0, <2>1 DEF Decide, Decidable, RowOK, RowsOf, Existing
  <2>3. row'[c].decision = action /\ row'[c].vins = vins
    BY <1>0, <2>1 DEF Decide, Rows
  <2>4. c \in RowsOf'[row[c].thread]
    BY <2>2 DEF Stable, Kept, RowsOf, Existing
  <2> DEFINE m == Resume(c, action, vins)
  <2>5. /\ m.thread = row[c].thread /\ m.decision = action
        /\ action = "AMEND" => m.vins = vins
    BY DEF Resume
  <2>6. wake' \subseteq wake \cup {m}
    BY <2>1 DEF Send
  <2> HIDE DEF m
  <2>7. \A n \in {m} : ValueAgrees(n.thread, n)'
    BY <2>2, <2>3, <2>4, <2>5 DEF ValueAgrees, Refused
  <2>. QED
    BY <1>2, <2>6, <2>7
<1>7. ASSUME NEW due \in SUBSET Cid, SweepExpire(due) PROVE Goal
  <2> DEFINE msgs == {Resume(c, "REJECT", {}) : c \in due}
  <2>1. wake' \subseteq wake \cup msgs
    BY <1>7 DEF SweepExpire, Send
  <2>2. ASSUME NEW c \in due
        PROVE  \A m : m.thread = row[c].thread /\ m.decision = "REJECT" => ValueAgrees(m.thread, m)'
    <3>1. c \in RowsOf[row[c].thread] /\ row[c].thread \in Thread /\ row'[c].decision = "EXPIRED"
      BY <1>0, <1>7
         DEF SweepExpire, SweepExpired, Decidable, RowOK, Rows, RowsOf, Existing
    <3>2. c \in RowsOf'[row[c].thread]
      BY <3>1 DEF Stable, Kept, RowsOf, Existing
    <3>. QED
      BY <3>1, <3>2 DEF ValueAgrees, Refused
  <2>3. \A m \in msgs : \E c \in due : m.thread = row[c].thread /\ m.decision = "REJECT"
    BY DEF Resume
  <2> HIDE DEF msgs
  <2>. QED
    BY <1>2, <2>1, <2>2, <2>3
<1>8. ASSUME SweepResend PROVE Goal
  <2> DEFINE retries == {Resume(c, "RETRY", {}) : c \in Parked}
  <2>1. wake' \subseteq wake \cup DecidedResumes \cup retries
    BY <1>8 DEF SweepResend, Send
  <2>2. \A m \in retries : m.decision = "RETRY"
    BY DEF Resume
  <2>3. ASSUME NEW m \in DecidedResumes PROVE m.thread \in Thread /\ ValueAgrees(m.thread, m)
    <3>1. PICK c \in Unreported : m = Resume(c, ActionOf(row[c].state), row[c].vins)
      BY DEF DecidedResumes
    <3>2. /\ c \in Existing /\ row[c].thread \in Thread /\ RowOK(c) /\ RowAgrees(c)
          /\ row[c].state \in {"APPROVED", "AMENDED", "REJECTED", "EXPIRED"}
      BY <1>0 DEF Unreported, RowOK, Existing
    <3>3. /\ row[c].state = "APPROVED" => ActionOf(row[c].state) = "APPROVE"
          /\ row[c].state = "AMENDED" => ActionOf(row[c].state) = "AMEND"
          /\ row[c].state \in {"REJECTED", "EXPIRED"} => ActionOf(row[c].state) = "REJECT"
      BY DEF ActionOf
    <3>4. ValueAgrees(row[c].thread, m)
      BY <3>1, <3>2, <3>3, ResumeAgrees DEF RowOK, RowAgrees
    <3>5. m.thread = row[c].thread
      BY <3>1 DEF Resume
    <3>. QED
      BY <3>2, <3>4, <3>5
  <2> HIDE DEF retries
  <2>4. \A m \in DecidedResumes : ValueAgrees(m.thread, m)'
    BY <1>1, <2>3
  <2>5. \A m \in retries : ValueAgrees(m.thread, m)'
    BY <2>2 DEF ValueAgrees
  <2>. QED
    BY <1>2, <2>1, <2>4, <2>5
<1>9. ASSUME NEW t \in Thread, Triage(t) \/ Begin(t) \/ Persist(t) \/ Release(t) \/ Node(t)
      PROVE  Goal
  <2>1. wake' = wake
    BY <1>9 DEF Triage, Begin, Persist, Release, Node, Investigate, Submit, NoProposal, Interrupt,
       Gate, RetryGate, CommitAttempt, CommitExhausted, CommitRefused, Pending, Report
  <2>. QED
    BY <1>3, <2>1
<1>10. ASSUME NEW r \in late, Deliver(r) PROVE Goal
  BY <1>3, <1>10 DEF Deliver
<1>11. CASE Crash \/ Restart \/ UNCHANGED vars
  BY <1>3, <1>11 DEF Crash, Restart, vars
<1>. QED
  BY <1>5, <1>6, <1>7, <1>8, <1>9, <1>10, <1>11 DEF Next

-----------------------------------------------------------------------------
(* The threads. *)

LEMMA RaiseAgrees ==
    ASSUME IInv, AInv, Stable, NEW t \in Thread, Raise(t)
    PROVE  ThreadsAgree'
BY NoThreadAgrees DEF Raise

\* A node returns s: a state of a thread that has its row, or is before it.
LEMMA ReturnAgrees ==
    ASSUME IInv, AInv, Stable, NEW t \in Thread, NEW s \in GraphStates,
           Return(t, s), UNCHANGED ckpt,
           s.next \in Past => mem[t].next \in Past \ {"END"} /\ s.cid = mem[t].cid,
           GraphAgrees(s)
    PROVE  ThreadsAgree'
<1>1. mem'[t] = s /\ value'[t] = NoValue /\ ckpt'[t] = ckpt[t]
  BY DEF IInv, TypeOK, Return
<1>2. GraphOK(t, mem[t])
  BY DEF IInv, ThreadsOK
<1>3. GraphAgrees(mem[t])'
  <2>1. s.next \in Past => s.cid \in Existing
    BY <1>2 DEF GraphOK, RowsOf, Past
  <2>2. \A g \in GraphStates :
          GraphAgrees(g) /\ (g.next \in Past \ {"END"} => g.cid \in Existing) => GraphAgrees(g)'
    BY GraphStands
  <2>. QED
    BY <1>1, <2>1, <2>2 DEF GraphAgrees, DecidedAs
<1>4. GraphAgrees(ckpt[t])' /\ ValueAgrees(t, value[t])'
  BY <1>1, ThreadKeeps
<1>. QED
  BY <1>3, <1>4, OneThreadAgrees DEF IInv, TypeOK, Return

LEMMA ClaimsAgree ==
    ASSUME IInv, AInv, Stable, NEW t \in Thread,
           Triage(t) \/ Begin(t) \/ Persist(t) \/ Release(t)
    PROVE  ThreadsAgree'
<1> USE DEF IInv, TypeOK
<1>1. CASE Triage(t)
  <2>1. UNCHANGED <<mem, ckpt>> /\ value'[t].decision = "START"
    BY <1>1 DEF Triage, Start
  <2>2. ValueAgrees(t, value[t])'
    BY <2>1 DEF ValueAgrees
  <2>. QED
    BY <1>1, <2>1, <2>2, ThreadKeeps, OneThreadAgrees DEF Triage, Start
<1>2. CASE Begin(t)
  <2>1. UNCHANGED ckpt /\ value'[t] \in {value[t], NoValue}
    BY <1>2 DEF Begin
  <2>2. CASE value[t].decision = "START"
    <3>1. mem'[t].next = "investigate"
      BY <1>2, <2>2 DEF Begin, GraphStates
    <3>2. GraphAgrees(mem[t])'
      BY <3>1 DEF GraphAgrees, AtThePlant
    <3>. QED
      BY <1>2, <2>1, <3>2, ThreadKeeps, OneThreadAgrees DEF Begin
  <2>3. CASE value[t].decision # "START"
    <3>1. mem'[t] = ckpt[t]
      BY <1>2, <2>3 DEF Begin
    <3>. QED
      BY <1>2, <2>1, <3>1, ThreadKeeps, OneThreadAgrees DEF Begin
  <2>. QED
    BY <2>2, <2>3
<1>3. CASE Persist(t) \/ Release(t)
  <2>1. ckpt'[t] = mem[t] /\ UNCHANGED mem /\ value'[t] \in {value[t], NoValue}
    BY <1>3 DEF Persist, Release
  <2>. QED
    BY <1>3, <2>1, ThreadKeeps, OneThreadAgrees DEF Persist, Release
<1>. QED
  BY <1>1, <1>2, <1>3

LEMMA HandlerAgrees ==
    ASSUME IInv, AInv, Stable, NEW m \in wake, ResumeHandler(m)
    PROVE  ThreadsAgree'
<1>1. CASE Snapshot(m) \/ Refuse(m) \/ LoseWake(m)
  BY <1>1, NoThreadAgrees DEF Snapshot, Refuse, LoseWake, agentVars
<1>2. CASE Claim(m)
  <2>0. m.thread \in Thread /\ ValueAgrees(m.thread, m)
    BY DEF IInv, TypeOK, Wakes, AInv, MessagesAgree
  <2> DEFINE v == [decision |-> IF m.mode = "value" THEN m.decision ELSE "CONTINUE",
                   vins     |-> IF m.mode = "value" THEN m.vins ELSE {}]
  <2>1. /\ UNCHANGED <<mem, ckpt>> /\ value' = [value EXCEPT ![m.thread] = v]
        /\ v.decision = "CONTINUE" \/ (v.decision = m.decision /\ v.vins = m.vins)
    BY <1>2 DEF Claim, Start
  <2> HIDE DEF v
  <2>2. ValueAgrees(m.thread, v)
    BY <2>0, <2>1 DEF ValueAgrees
  <2>3. value'[m.thread] = v
    BY <2>0, <2>1 DEF IInv, TypeOK
  <2>4. ValueAgrees(m.thread, value[m.thread])'
    <3>1. \A w : ValueAgrees(m.thread, w) => ValueAgrees(m.thread, w)'
      BY <2>0, ValueStands
    <3>. QED
      BY <2>2, <2>3, <3>1 DEF ValueAgrees
  <2>. QED
    BY <2>0, <2>1, <2>4, ThreadKeeps, OneThreadAgrees DEF IInv, TypeOK
<1>. QED
  BY <1>1, <1>2 DEF ResumeHandler

LEMMA InvestigateAgrees ==
    ASSUME IInv, AInv, Stable, NEW t \in Thread, Investigate(t)
    PROVE  ThreadsAgree'
<1>0. UNCHANGED ckpt /\ mem[t] \in GraphStates
  BY DEF Investigate, IInv, TypeOK
<1>1. ASSUME NEW S \in ProposedScopes,
             Return(t, [mem[t] EXCEPT !.next = "submit", !.vins = S])
      PROVE  ThreadsAgree'
  <2> DEFINE s == [mem[t] EXCEPT !.next = "submit", !.vins = S]
  <2>1. s \in GraphStates /\ s.next = "submit"
    BY <1>0, ScopeAssumption DEF GraphStates, Nodes
  <2>2. Return(t, s)
    BY <1>1
  <2> HIDE DEF s
  <2>3. GraphAgrees(s)
    BY <2>1 DEF GraphAgrees, AtThePlant
  <2>. QED
    BY <1>0, <2>1, <2>2, <2>3, ReturnAgrees DEF Past
<1>2. CASE Return(t, [mem[t] EXCEPT !.next = "no_proposal"])
  <2> DEFINE s == [mem[t] EXCEPT !.next = "no_proposal"]
  <2>1. s \in GraphStates /\ s.next = "no_proposal"
    BY <1>0 DEF GraphStates, Nodes
  <2>2. Return(t, s)
    BY <1>2
  <2> HIDE DEF s
  <2>3. GraphAgrees(s)
    BY <2>1 DEF GraphAgrees, AtThePlant
  <2>. QED
    BY <1>0, <2>1, <2>2, <2>3, ReturnAgrees DEF Past
<1>. QED
  BY <1>0, <1>1, <1>2, RaiseAgrees DEF Investigate

\* The thread learns the id of the row it has just inserted.
LEMMA PostAgrees ==
    ASSUME IInv, AInv, Stable, NEW t \in Thread, Submit(t) \/ NoProposal(t)
    PROVE  ThreadsAgree'
<1> USE DEF IInv, TypeOK
<1>0. PICK state \in {"PROPOSED", "ESCALATED"}, vins \in SUBSET Vin, next \in {"gate", "report"} :
         /\ Post(t, state, vins, next)
         /\ next = "report" => state = "ESCALATED"
         /\ next = "gate" => vins = mem[t].vins
  BY DEF Submit, NoProposal, AtNode, GraphStates
<1>1. ASSUME NEW c \in Cid,
             Propose(c, t, state, vins),
             Return(t, [mem[t] EXCEPT !.next = next, !.cid = c, !.outcome = state]),
             UNCHANGED ckpt
      PROVE  ThreadsAgree'
  <2> DEFINE s == [mem[t] EXCEPT !.next = next, !.cid = c, !.outcome = state]
  <2>1. /\ s \in GraphStates
        /\ s.next = next /\ s.cid = c /\ s.outcome = state /\ s.vins = mem[t].vins
    BY DEF GraphStates, Nodes, Outcomes
  <2>2. mem' = [mem EXCEPT ![t] = s] /\ value' = [value EXCEPT ![t] = NoValue]
    BY <1>1 DEF Return
  <2> HIDE DEF s
  <2>3. mem'[t] = s /\ value'[t] = NoValue
    BY <2>2
  <2>4. /\ row'[c].vins = vins
        /\ row'[c].decision = IF state = "PROPOSED" THEN "PENDING" ELSE state
    BY <1>1 DEF Propose
  <2>5. GraphAgrees(mem[t])'
    BY <1>0, <2>1, <2>3, <2>4 DEF GraphAgrees, OutcomeOK, AtThePlant
  <2>. QED
    BY <1>1, <2>2, <2>3, <2>5, ThreadKeeps, OneThreadAgrees
<1>. QED
  BY <1>0, <1>1, RaiseAgrees DEF Post

\* The decision a worker holds at the gate is one on its thread's rows: on its
\* own row, while that is the only one.
LEMMA GateValue ==
    ASSUME IInv, AInv, NEW t \in Thread, AtNode(t, "gate"),
           value[t].decision \in {"APPROVE", "AMEND", "REJECT"}
    PROVE  /\ OnlyOne(mem[t].cid) /\ value[t].decision = "APPROVE" =>
                 row[mem[t].cid].decision = "APPROVE"
           /\ OnlyOne(mem[t].cid) /\ value[t].decision = "AMEND" =>
                 row[mem[t].cid].decision = "AMEND" /\ value[t].vins = row[mem[t].cid].vins
           /\ value[t].decision = "REJECT" => SomeRefused(mem[t].cid)
<1>1. mem[t].cid \in RowsOf[t] /\ ValueAgrees(t, value[t])
  BY DEF IInv, ThreadsOK, GraphOK, AtNode, AInv, ThreadsAgree
<1>2. \A c \in RowsOf[t] : c \in Existing /\ row[c].thread = row[mem[t].cid].thread
  BY <1>1 DEF RowsOf
<1>. QED
  BY <1>1, <1>2 DEF ValueAgrees, OnlyOne, SomeRefused

LEMMA GatesAgree ==
    ASSUME IInv, AInv, Stable, NEW t \in Thread, Interrupt(t) \/ Gate(t) \/ RetryGate(t)
    PROVE  ThreadsAgree'
<1>0. /\ mem[t] \in GraphStates /\ UNCHANGED ckpt
      /\ GraphOK(t, mem[t]) /\ GraphAgrees(mem[t])
  BY DEF IInv, TypeOK, ThreadsOK, AInv, ThreadsAgree, Interrupt, Gate, RetryGate
<1>1. CASE Interrupt(t)
  <2>1. mem'[t] = [mem[t] EXCEPT !.waiting = TRUE] /\ UNCHANGED value
    BY <1>1 DEF Interrupt, IInv, TypeOK
  <2>2. /\ mem'[t].next = mem[t].next /\ mem'[t].cid = mem[t].cid
        /\ mem'[t].vins = mem[t].vins /\ mem'[t].outcome = mem[t].outcome
    BY <1>0, <2>1 DEF GraphStates
  <2>3. GraphAgrees(mem[t])'
    <3>1. mem[t].next \in Past \ {"END"} => mem[t].cid \in Existing
      BY <1>0 DEF GraphOK, RowsOf, Past
    <3>2. \A g \in GraphStates :
            GraphAgrees(g) /\ (g.next \in Past \ {"END"} => g.cid \in Existing) => GraphAgrees(g)'
      BY GraphStands
    <3>. QED
      BY <1>0, <2>2, <3>1, <3>2 DEF GraphAgrees, DecidedAs
  <2>. QED
    BY <1>0, <1>1, <2>1, <2>3, ThreadKeeps, OneThreadAgrees DEF Interrupt, IInv, TypeOK
<1>2. CASE Gate(t)
  <2> DEFINE passed == [mem[t] EXCEPT !.waiting = FALSE, !.vins = BoundsAfterGate(t)]
  <2>0. mem[t].next = "gate" /\ AtNode(t, "gate") /\ Trigger \in mem[t].vins
    BY <1>0, <1>2 DEF Gate, AtNode, GraphOK
  <2>1. /\ passed \in GraphStates /\ passed.cid = mem[t].cid
        /\ passed.vins = BoundsAfterGate(t)
    <3>1. BoundsAfterGate(t) \in SUBSET Vin
      BY <1>0, ScopeAssumption
         DEF IInv, TypeOK, BoundsAfterGate, WithTrigger, Values, GraphStates
    <3>. QED
      BY <1>0, <3>1 DEF GraphStates
  <2> HIDE DEF passed
  <2>2. ASSUME value[t].decision = "REJECT",
               Return(t, [passed EXCEPT !.next = "report", !.outcome = "REJECTED"])
        PROVE  ThreadsAgree'
    <3> DEFINE s == [passed EXCEPT !.next = "report", !.outcome = "REJECTED"]
    <3>1. /\ s \in GraphStates
          /\ s.next = "report" /\ s.outcome = "REJECTED" /\ s.cid = mem[t].cid
      BY <2>1 DEF GraphStates, Nodes, Outcomes
    <3>2. Return(t, s)
      BY <2>2
    <3> HIDE DEF s
    <3>3. GraphAgrees(s)
      BY <2>0, <2>2, <3>1, GateValue DEF GraphAgrees, OutcomeOK, AtThePlant
    <3>. QED
      BY <1>0, <2>0, <3>1, <3>2, <3>3, ReturnAgrees DEF Past
  <2>3. ASSUME value[t].decision \in {"APPROVE", "AMEND"},
               Return(t, [passed EXCEPT !.next = "commit", !.outcome = "PROPOSED"])
        PROVE  ThreadsAgree'
    <3> DEFINE s == [passed EXCEPT !.next = "commit", !.outcome = "PROPOSED"]
    <3>1. /\ s \in GraphStates
          /\ s.next = "commit" /\ s.cid = mem[t].cid /\ s.vins = BoundsAfterGate(t)
      BY <2>1 DEF GraphStates, Nodes, Outcomes
    <3>2. Return(t, s)
      BY <2>3
    <3> HIDE DEF s
    <3>3. DecidedAs(mem[t].cid, BoundsAfterGate(t))
      <4>1. CASE value[t].decision = "APPROVE" /\ OnlyOne(mem[t].cid)
        <5>1. row[mem[t].cid].decision = "APPROVE"
          BY <2>0, <4>1, GateValue
        <5>2. mem[t].vins = row[mem[t].cid].vins
          BY <1>0, <2>0, <5>1 DEF GraphAgrees
        <5>. QED
          BY <2>0, <4>1, <5>1, <5>2 DEF DecidedAs, Approved, Scope, BoundsAfterGate
      <4>2. CASE value[t].decision = "AMEND" /\ OnlyOne(mem[t].cid)
        BY <2>0, <4>2, GateValue DEF DecidedAs, Approved, Scope, BoundsAfterGate, WithTrigger
      <4>. QED
        BY <2>3, <4>1, <4>2 DEF DecidedAs
    <3>4. GraphAgrees(s)
      BY <3>1, <3>3 DEF GraphAgrees, AtThePlant
    <3>. QED
      BY <1>0, <2>0, <3>1, <3>2, <3>4, ReturnAgrees DEF Past
  <2>. QED
    BY <1>0, <1>2, <2>2, <2>3, RaiseAgrees DEF Gate, passed
<1>3. CASE RetryGate(t)
  <2> DEFINE s == [mem[t] EXCEPT !.waiting = FALSE, !.next = "commit"]
  <2>1. mem[t].next = "retry_gate" /\ Return(t, s)
    BY <1>3 DEF RetryGate, AtNode
  <2>2. /\ s \in GraphStates
        /\ s.next = "commit" /\ s.cid = mem[t].cid /\ s.vins = mem[t].vins
    BY <1>0 DEF GraphStates, Nodes
  <2> HIDE DEF s
  <2>3. GraphAgrees(s)
    BY <1>0, <2>1, <2>2 DEF GraphAgrees, AtThePlant
  <2>. QED
    BY <1>0, <2>1, <2>2, <2>3, ReturnAgrees DEF Past
<1>. QED
  BY <1>1, <1>2, <1>3

LEMMA CommitAgrees ==
    ASSUME IInv, AInv, Stable, NEW t \in Thread,
           CommitAttempt(t) \/ CommitExhausted(t) \/ CommitRefused(t)
    PROVE  ThreadsAgree'
<1>0. /\ mem[t] \in GraphStates /\ UNCHANGED ckpt /\ mem[t].next = "commit"
      /\ GraphOK(t, mem[t]) /\ GraphAgrees(mem[t])
  BY DEF IInv, TypeOK, ThreadsOK, AInv, ThreadsAgree, CommitAttempt, CommitExhausted,
         CommitRefused, AtNode
<1>1. ASSUME Mes!CreateOrReplay(mem[t].cid, mem[t].vins),
             Return(t, [mem[t] EXCEPT !.next = "report", !.outcome = "COMMITTED"])
      PROVE  ThreadsAgree'
  <2> DEFINE s == [mem[t] EXCEPT !.next = "report", !.outcome = "COMMITTED"]
  <2>1. /\ s \in GraphStates
        /\ s.next = "report" /\ s.outcome = "COMMITTED" /\ s.cid = mem[t].cid
    BY <1>0 DEF GraphStates, Nodes, Outcomes
  <2>2. Return(t, s)
    BY <1>1
  <2> HIDE DEF s
  <2>3. mem'[t] = s /\ value'[t] = NoValue
    BY <2>2 DEF Return, IInv, TypeOK
  <2>4. hold'[mem[t].cid] # {}
    <3>1. mem[t].cid \in Cid /\ mem[t].vins # {}
      BY <1>0 DEF GraphOK, RowsOf, Existing
    <3>. QED
      BY <1>1, <3>1 DEF Mes!CreateOrReplay, IInv, TypeOK
  <2>5. GraphAgrees(mem[t])'
    BY <2>1, <2>3, <2>4 DEF GraphAgrees, OutcomeOK, Mes!Held, AtThePlant
  <2>. QED
    BY <1>0, <2>2, <2>3, <2>5, ThreadKeeps, OneThreadAgrees DEF Return, IInv, TypeOK
<1>2. CASE Park(t)
  <2> DEFINE s == [mem[t] EXCEPT !.next = "pending", !.outcome = "COMMIT_PENDING"]
  <2>1. /\ s \in GraphStates
        /\ s.next = "pending" /\ s.cid = mem[t].cid /\ s.vins = mem[t].vins
    BY <1>0 DEF GraphStates, Nodes, Outcomes
  <2>2. Return(t, s)
    BY <1>2 DEF Park
  <2> HIDE DEF s
  <2>3. GraphAgrees(s)
    BY <1>0, <2>1 DEF GraphAgrees, AtThePlant
  <2>. QED
    BY <1>0, <2>1, <2>2, <2>3, ReturnAgrees DEF Past
<1>. QED
  BY <1>0, <1>1, <1>2, RaiseAgrees, NoThreadAgrees
     DEF CommitAttempt, CommitExhausted, CommitRefused

LEMMA PatchAgrees ==
    ASSUME IInv, AInv, Stable, NEW t \in Thread, Pending(t) \/ Report(t)
    PROVE  ThreadsAgree'
<1>0. /\ mem[t] \in GraphStates /\ mem[t].next \in {"pending", "report"}
      /\ GraphOK(t, mem[t]) /\ GraphAgrees(mem[t])
  BY DEF IInv, TypeOK, ThreadsOK, AInv, ThreadsAgree, Pending, Report, AtNode
<1>1. PICK state \in PatchStates, final \in BOOLEAN, next \in {"retry_gate", "END"} :
         /\ Patch(t, state, final, next)
         /\ next = "retry_gate" => mem[t].next = "pending"
  BY <1>0 DEF Pending, Report, AtNode, GraphOK, PatchStates
<1>2. UNCHANGED ckpt
  BY <1>1 DEF Patch, Raise
<1>3. ASSUME Return(t, [mem[t] EXCEPT !.next = next])
      PROVE  ThreadsAgree'
  <2> DEFINE s == [mem[t] EXCEPT !.next = next]
  <2>1. s \in GraphStates /\ s.next = next /\ s.cid = mem[t].cid /\ s.vins = mem[t].vins
    BY <1>0 DEF GraphStates, Nodes
  <2>2. Return(t, s)
    BY <1>3
  <2> HIDE DEF s
  <2>3. GraphAgrees(s)
    BY <1>0, <1>1, <2>1 DEF GraphAgrees, AtThePlant
  <2>. QED
    BY <1>0, <1>2, <2>1, <2>2, <2>3, ReturnAgrees DEF Past
<1>. QED
  BY <1>1, <1>3, RaiseAgrees DEF Patch

LEMMA NextThreadsAgree ==
    ASSUME IInv, AInv, Stable, [Next]_vars
    PROVE  ThreadsAgree'
<1>1. ASSUME NEW t \in Thread, Node(t) PROVE ThreadsAgree'
  BY <1>1, InvestigateAgrees, PostAgrees, GatesAgree, CommitAgrees, PatchAgrees DEF Node
<1>2. CASE Crash
  <2>1. \A t \in Thread : mem'[t] = ckpt[t] /\ ckpt'[t] = ckpt[t] /\ value'[t] = NoValue
    BY <1>2 DEF Crash
  <2>. QED
    BY <2>1, ThreadKeeps DEF ThreadsAgree
<1>3. ASSUME \/ \E r \in late : Deliver(r)
             \/ Restart \/ SweepResend \/ UNCHANGED vars
             \/ \E c \in Cid, action \in {"APPROVE", "AMEND", "REJECT"} : HumanDecision(c, action)
             \/ \E due \in SUBSET Cid : SweepExpire(due)
      PROVE  ThreadsAgree'
  <2>1. UNCHANGED <<mem, ckpt, value>>
    BY <1>3 DEF Deliver, Restart, SweepResend, HumanDecision, SweepExpire, vars, agentVars
  <2>. QED
    BY <2>1, NoThreadAgrees
<1>. QED
  BY <1>1, <1>2, <1>3, ClaimsAgree, HandlerAgrees DEF Next

-----------------------------------------------------------------------------
(* The theorems. *)

LEMMA InitAgrees == Init => AInv
<1> SUFFICES ASSUME Init PROVE AInv
  OBVIOUS
<1> USE DEF Init, StoreInit, Mes!HoldInit
<1>1. \A c \in Cid : row[c] = NoRow /\ hold[c] = {}
  OBVIOUS
<1>2. RowsAgree
  BY <1>1 DEF RowsAgree, RowAgrees, NoRow, Mes!Held
<1>3. ThreadsAgree /\ MessagesAgree
  BY <1>1 DEF ThreadsAgree, MessagesAgree, GraphAgrees, ValueAgrees, NoGraph, NoValue, AtThePlant
<1>. QED
  BY <1>2, <1>3 DEF AInv

LEMMA NextAgrees ==
    ASSUME IInv, DInv, AInv, [Next]_vars
    PROVE  AInv' /\ GateStep
<1>1. Stable
  BY Stands
<1>2. RowsAgree' /\ GateStep
  BY <1>1, StepsOfTheStore, StoreAgrees
<1>3. ThreadsAgree'
  BY <1>1, NextThreadsAgree
<1>4. MessagesAgree'
  BY <1>1, LateAgrees, WakesAgree DEF MessagesAgree
<1>. QED
  BY <1>2, <1>3, <1>4 DEF AInv

\* Whatever carries a decision or a scope agrees with the row it is about.
THEOREM DecisionInvariance == Spec => [](IInv /\ DInv /\ AInv)
<1>1. Preserved => IInv'
  BY DEF Preserved
<1>2. IInv /\ DInv /\ [Next]_vars => DInv'
  BY NextDurable
<1>3. IInv /\ DInv /\ AInv /\ [Next]_vars => AInv'
  BY NextAgrees
<1>. QED
  BY <1>1, <1>2, <1>3, InitInvariant, InitDurable, InitAgrees, NextPreserves, PTL DEF Spec

\* The plant holds exactly what the human decided for the containment of a
\* triage that has no other, however often decisions are re-sent and commits
\* retried (nodes.gate, nodes.commit, api main.sweep).
THEOREM HeldAsDecided == Spec => []HoldIsTheDecision
<1>1. AInv => HoldIsTheDecision
  BY DEF AInv, RowsAgree, RowAgrees, Scope, HoldIsTheDecision
<1>. QED
  BY <1>1, DecisionInvariance, PTL

\* Every attempt to commit such a containment sends the same vehicles, so the
\* plant never answers 409 (nodes.commit, mock-mes main.create_hold).
THEOREM NoConflict == Spec => []CommitNeverConflicts
<1>1. IInv /\ AInv => CommitNeverConflicts
  <2> SUFFICES ASSUME IInv, AInv, NEW t \in Thread, mem[t].next = "commit", OnlyOne(mem[t].cid)
               PROVE  hold[mem[t].cid] \in {{}, mem[t].vins}
    BY DEF CommitNeverConflicts, Mes!Conflict
  <2>1. mem[t].cid \in Cid
    BY DEF IInv, ThreadsOK, GraphOK, RowsOf, Existing
  <2>2. mem[t].vins = Scope(mem[t].cid) /\ RowAgrees(mem[t].cid)
    BY <2>1 DEF AInv, ThreadsAgree, GraphAgrees, DecidedAs, RowsAgree, AtThePlant
  <2>. QED
    BY <2>2 DEF RowAgrees, Mes!Held
<1>. QED
  BY <1>1, DecisionInvariance, PTL

\* Its audit row is closed only when the plant and the verdict agree
\* (nodes.report, store.record_outcome).
THEOREM ClosedRight == Spec => []ClosedAgreesWithPlant
<1>1. AInv => ClosedAgreesWithPlant
  <2> SUFFICES ASSUME AInv, NEW c \in Cid, row[c].reported, OnlyOne(c)
               PROVE  Approved(c) <=> Mes!Held(c)
    BY DEF ClosedAgreesWithPlant
  <2>1. RowAgrees(c)
    BY DEF AInv, RowsAgree
  <2>2. SomeRefused(c) => Refused(c)
    BY DEF SomeRefused, OnlyOne
  <2>. QED
    BY <2>1, <2>2 DEF RowAgrees, Approved, Refused
<1>. QED
  BY <1>1, DecisionInvariance, PTL

\* The whole system, with its threads, checkpoints, crashes, retries, repeated
\* proposals and late calls, implements the gate of GateSpec: each step is one
\* of the abstract gate's or changes nothing it can see.
THEOREM GateImplemented == Spec => ImplementsGate
<1>1. Init => Abstract!GateInit
  <2> SUFFICES ASSUME Init PROVE Abstract!GateInit
    OBVIOUS
  <2>1. \A c \in Cid : row[c] = NoRow /\ hold[c] = {}
    BY DEF Init, StoreInit, Mes!HoldInit
  <2>2. NoRow.decision = "NONE" /\ NoRow.reported = FALSE /\ NoRow.thread = None
    BY DEF NoRow
  <2>3. \A c \in Cid : Mes!Held(c) = FALSE
    BY <2>1 DEF Mes!Held
  <2>. QED
    BY <2>1, <2>2, <2>3, Verdicts DEF Abstract!GateInit
<1>2. IInv /\ DInv /\ AInv /\ [Next]_vars => [Abstract!GateNext]_(Abstract!gateVars)
  BY NextAgrees DEF GateStep
<1>. QED
  BY <1>1, <1>2, DecisionInvariance, PTL DEF Spec, ImplementsGate, Abstract!GateSafety

===============================================================================

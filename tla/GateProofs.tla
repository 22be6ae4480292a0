------------------------------ MODULE GateProofs ------------------------------
(***************************************************************************)
(* GateSystem's safety for any number of threads, containments, vehicles,  *)
(* attempts, workers and failures, with and without late calls, and for    *)
(* both checkpoint modes.                                                  *)
(*                                                                         *)
(* The argument: whatever carries an approval towards the plant (a resume  *)
(* on its way, a value a worker holds, a graph state past the gate in      *)
(* memory or in the checkpoint, a hold request whose caller gave up)       *)
(* belongs to a thread a human approved, and approvals are never taken     *)
(* back.  So a step only has to preserve that its own thread is approved;  *)
(* everything else stays right because the store and the plant only grow.  *)
(***************************************************************************)
EXTENDS GateProperties, TLAPS

-----------------------------------------------------------------------------
(* The inductive invariant. *)

RowsOf == [t \in Thread |-> {c \in Existing : row[c].thread = t}]
ApprovedThreads == {t \in Thread : HumanApproved(t)}
HeldCids == {c \in Cid : Mes!Held(c)}

\* What a row's state says about its decision and about the plant.
RowOK(c) ==
    /\ row[c].state = "ABSENT" => row[c].decision = "NONE"
    /\ row[c].state # "ABSENT" => row[c].thread \in Thread
    /\ row[c].state = "PROPOSED" => row[c].decision = "PENDING"
    /\ row[c].state = "APPROVED" => row[c].decision = "APPROVE"
    /\ row[c].state = "AMENDED" => row[c].decision = "AMEND"
    /\ row[c].state = "COMMITTED" => c \in HeldCids /\ row[c].mes_ref

HoldOK(c) == Trigger \in hold[c] /\ \E t \in ApprovedThreads : c \in RowsOf[t]

StoreOK ==
    /\ row \in [Cid -> Rows]
    /\ hold \in [Cid -> SUBSET Vin]
    /\ \A c \in Cid : RowOK(c)
    /\ \A c \in HeldCids : HoldOK(c)

PatchStates == {"COMMIT_PENDING", "ESCALATED", "REJECTED", "COMMITTED"}

\* A graph state of thread t, in memory or durable.
GraphOK(t, g) ==
    /\ g.next \in {"gate", "commit", "pending", "retry_gate", "report"} => g.cid \in RowsOf[t]
    /\ g.next \in {"commit", "pending", "retry_gate"} => t \in ApprovedThreads
    /\ g.next \in {"submit", "gate", "commit", "pending", "retry_gate"} => Trigger \in g.vins
    /\ g.next = "report" => g.outcome \in PatchStates
    /\ g.next = "report" /\ g.outcome = "COMMITTED" => g.cid \in HeldCids

ValueOK(t, v) == v.decision \in {"APPROVE", "AMEND"} => t \in ApprovedThreads

RequestOK(r) ==
    /\ r.op = "post" => r.state \in {"PROPOSED", "ESCALATED"}
    /\ r.op # "post" => r.cid \in RowsOf[r.thread]
    /\ r.op = "patch" => r.state \in PatchStates
    /\ r.op = "patch" /\ r.state = "COMMITTED" => r.cid \in HeldCids
    /\ r.op = "hold" => r.thread \in ApprovedThreads /\ Trigger \in r.vins

ThreadsOK == \A t \in Thread : GraphOK(t, mem[t]) /\ GraphOK(t, ckpt[t]) /\ ValueOK(t, value[t])
MessagesOK ==
    /\ \A m \in wake : ValueOK(m.thread, m)
    /\ \A r \in late : RequestOK(r)

IInv == TypeOK /\ StoreOK /\ ThreadsOK /\ MessagesOK

-----------------------------------------------------------------------------
(* What the store and the plant do to it. *)

\* No row changes hands, no approval is withdrawn, no hold is released.
Grows ==
    /\ \A t \in Thread : RowsOf[t] \subseteq RowsOf'[t]
    /\ ApprovedThreads \subseteq ApprovedThreads'
    /\ HeldCids \subseteq HeldCids'

DecisionsStay ==
    \A c \in Cid :
        row[c].decision \notin {"NONE", "PENDING"} => row'[c].decision = row[c].decision

\* Rows keep their thread and their decision, and holds stay.
RowsStay ==
    \A c \in Existing :
        /\ row'[c].state # "ABSENT"
        /\ row'[c].thread = row[c].thread
        /\ row[c].decision \notin {"NONE", "PENDING"} => row'[c].decision = row[c].decision
HoldsStay == \A c \in Cid : hold[c] # {} => hold'[c] = hold[c]

LEMMA StayGrows ==
    ASSUME StoreOK, RowsStay, HoldsStay
    PROVE  Grows /\ DecisionsStay
<1>1. \A t \in Thread : RowsOf[t] \subseteq RowsOf'[t]
  BY DEF RowsStay, RowsOf, Existing
<1>2. ApprovedThreads \subseteq ApprovedThreads'
  BY DEF RowsStay, ApprovedThreads, HumanApproved, Existing, Approved
<1>3. HeldCids \subseteq HeldCids'
  BY DEF HoldsStay, HeldCids, Mes!Held
<1>4. DecisionsStay
  BY DEF DecisionsStay, RowsStay, StoreOK, RowOK, Existing
<1>. QED
  BY <1>1, <1>2, <1>3, <1>4 DEF Grows

\* A step that only adds to the store and to the plant.
LEMMA StoreStep ==
    ASSUME StoreOK, RowsStay, HoldsStay,
           row' \in [Cid -> Rows], hold' \in [Cid -> SUBSET Vin],
           \A c \in Cid : RowOK(c)',
           \A c \in Cid : hold[c] = {} /\ hold'[c] # {} => HoldOK(c)'
    PROVE  StoreOK' /\ Grows /\ DecisionsStay
<1>1. Grows /\ DecisionsStay
  BY StayGrows
<1>2. ASSUME NEW c \in HeldCids' PROVE HoldOK(c)'
  <2>1. c \in Cid /\ hold'[c] # {}
    BY <1>2 DEF HeldCids, Mes!Held
  <2>2. CASE hold[c] # {}
    <3>1. c \in HeldCids /\ hold'[c] = hold[c]
      BY <2>1, <2>2 DEF HoldsStay, HeldCids, Mes!Held
    <3>2. HoldOK(c)
      BY <3>1 DEF StoreOK
    <3>. QED
      BY <1>1, <3>1, <3>2 DEF HoldOK, Grows, ApprovedThreads
  <2>. QED
    BY <2>1, <2>2
<1>. QED
  BY <1>1, <1>2 DEF StoreOK

LEMMA NothingStored ==
    ASSUME StoreOK, row' = row, hold' = hold
    PROVE  StoreOK' /\ Grows /\ DecisionsStay
<1>1. RowsStay /\ HoldsStay
  BY DEF RowsStay, HoldsStay, Existing
<1>2. row' \in [Cid -> Rows] /\ hold' \in [Cid -> SUBSET Vin]
  BY DEF StoreOK
<1>3. HeldCids' = HeldCids
  BY DEF HeldCids, Mes!Held
<1>4. \A c \in Cid : RowOK(c)'
  BY <1>3 DEF StoreOK, RowOK
<1>. QED
  BY <1>1, <1>2, <1>4, StoreStep

LEMMA ProposeStep ==
    ASSUME StoreOK, hold' = hold,
           NEW c \in Cid, NEW t \in Thread, NEW state \in {"PROPOSED", "ESCALATED"},
           NEW vins \in SUBSET Vin, Propose(c, t, state, vins)
    PROVE  StoreOK' /\ Grows /\ DecisionsStay /\ c \in RowsOf'[t]
<1> DEFINE new == [thread   |-> t,
                   state    |-> state,
                   decision |-> IF state = "PROPOSED" THEN "PENDING" ELSE state,
                   vins     |-> vins,
                   mes_ref  |-> FALSE,
                   reported |-> FALSE]
<1>1. row[c].state = "ABSENT" /\ row' = [row EXCEPT ![c] = new]
  BY DEF Propose
<1>2. new \in Rows
  BY DEF Rows, RowStates, AuditDecisions
<1>3. row \in [Cid -> Rows] /\ \A d \in Cid : RowOK(d)
  BY DEF StoreOK
<1>4. row'[c] = new /\ \A d \in Cid \ {c} : row'[d] = row[d]
  BY <1>1, <1>3
<1> HIDE DEF new
<1>5. new.state = state /\ new.thread = t /\ (state = "PROPOSED" => new.decision = "PENDING")
  BY DEF new
<1>6. RowsStay /\ HoldsStay
  BY <1>1, <1>4 DEF RowsStay, HoldsStay, Existing
<1>7. row' \in [Cid -> Rows] /\ hold' \in [Cid -> SUBSET Vin]
  BY <1>1, <1>2, <1>3 DEF StoreOK
<1>8. HeldCids' = HeldCids
  BY DEF HeldCids, Mes!Held
<1>9. ASSUME NEW d \in Cid PROVE RowOK(d)'
  BY <1>3, <1>4, <1>5, <1>8 DEF RowOK
<1>10. c \in RowsOf'[t]
  BY <1>4, <1>5 DEF RowsOf, Existing
<1>. QED
  BY <1>6, <1>7, <1>9, <1>10, StoreStep

LEMMA RecordStep ==
    ASSUME StoreOK, hold' = hold,
           NEW t \in Thread, NEW c \in RowsOf[t], NEW state \in PatchStates,
           NEW final \in BOOLEAN, RecordOutcome(c, state, final),
           state = "COMMITTED" => c \in HeldCids
    PROVE  StoreOK' /\ Grows /\ DecisionsStay
<1>1. row \in [Cid -> Rows] /\ \A d \in Cid : RowOK(d)
  BY DEF StoreOK
<1>2. c \in Cid /\ row[c].state # "ABSENT" /\ row[c] \in Rows
  BY <1>1 DEF RowsOf, Existing
<1>3. /\ row'[c].state = state
      /\ row'[c].thread = row[c].thread
      /\ row'[c].decision = row[c].decision
      /\ row'[c].vins = row[c].vins
      /\ row'[c].mes_ref = (row[c].mes_ref \/ state = "COMMITTED")
  BY <1>1, <1>2 DEF RecordOutcome, Rows
<1>4. \A d \in Cid \ {c} : row'[d] = row[d]
  BY <1>1, <1>2 DEF RecordOutcome
<1>5. RowsStay /\ HoldsStay
  BY <1>3, <1>4 DEF RowsStay, HoldsStay, Existing, PatchStates
<1>6. row' \in [Cid -> Rows] /\ hold' \in [Cid -> SUBSET Vin]
  <2>1. (row[c].mes_ref \/ state = "COMMITTED") \in BOOLEAN /\ (row[c].reported \/ final) \in BOOLEAN
    OBVIOUS
  <2>2. state \in RowStates
    BY DEF PatchStates, RowStates
  <2>. QED
    BY <1>1, <1>2, <2>1, <2>2 DEF StoreOK, RecordOutcome, Rows
<1>7. HeldCids' = HeldCids
  BY DEF HeldCids, Mes!Held
<1>8. ASSUME NEW d \in Cid PROVE RowOK(d)'
  <2>1. CASE d = c
    BY <1>1, <1>2, <1>3, <1>7, <2>1 DEF RowOK, PatchStates
  <2>2. CASE d # c
    BY <1>1, <1>4, <1>7, <2>2 DEF RowOK
  <2>. QED
    BY <2>1, <2>2
<1>. QED
  BY <1>5, <1>6, <1>8, StoreStep

LEMMA DecideStep ==
    ASSUME StoreOK, hold' = hold,
           NEW c \in Cid, NEW action \in {"APPROVE", "AMEND", "REJECT"},
           NEW vins \in SUBSET Vin, Decide(c, action, vins)
    PROVE  /\ StoreOK' /\ Grows /\ DecisionsStay
           /\ row[c].thread \in Thread
           /\ action # "REJECT" => row[c].thread \in ApprovedThreads'
<1>1. row \in [Cid -> Rows] /\ \A d \in Cid : RowOK(d)
  BY DEF StoreOK
<1>2. row[c].state = "PROPOSED" /\ row[c].decision = "PENDING" /\ row[c].thread \in Thread
  BY <1>1 DEF Decide, Decidable, RowOK
<1> DEFINE state == CASE action = "APPROVE" -> "APPROVED"
                      [] action = "AMEND"   -> "AMENDED"
                      [] action = "REJECT"  -> "REJECTED"
<1>3. row' = [row EXCEPT ![c].state = state, ![c].decision = action, ![c].vins = vins]
  BY DEF Decide
<1>4. /\ action = "APPROVE" => state = "APPROVED"
      /\ action = "AMEND" => state = "AMENDED"
      /\ action = "REJECT" => state = "REJECTED"
  OBVIOUS
<1> HIDE DEF state
<1>5. /\ row'[c].state = state /\ row'[c].decision = action
      /\ row'[c].thread = row[c].thread
  BY <1>1, <1>3 DEF Rows
<1>6. \A d \in Cid \ {c} : row'[d] = row[d]
  BY <1>1, <1>3
<1>7. RowsStay /\ HoldsStay
  BY <1>2, <1>4, <1>5, <1>6 DEF RowsStay, HoldsStay, Existing
<1>8. row' \in [Cid -> Rows] /\ hold' \in [Cid -> SUBSET Vin]
  <2>1. state \in RowStates /\ action \in AuditDecisions
    BY <1>4 DEF RowStates, AuditDecisions
  <2>2. row' = [row EXCEPT ![c] = row'[c]]
    BY <1>1, <1>3
  <2>3. row'[c] = [row[c] EXCEPT !.state = state, !.decision = action, !.vins = vins]
    BY <1>1, <1>3
  <2>4. row'[c] \in Rows
    BY <1>1, <2>1, <2>3 DEF Rows
  <2>5. row' \in [Cid -> Rows]
    BY <1>1, <2>2, <2>4
  <2>. QED
    BY <2>5 DEF StoreOK
<1>9. HeldCids' = HeldCids
  BY DEF HeldCids, Mes!Held
<1>10. ASSUME NEW d \in Cid PROVE RowOK(d)'
  BY <1>1, <1>2, <1>4, <1>5, <1>6, <1>9 DEF RowOK
<1>11. action # "REJECT" => row[c].thread \in ApprovedThreads'
  BY <1>2, <1>4, <1>5 DEF ApprovedThreads, HumanApproved, Existing, Approved
<1>. QED
  BY <1>2, <1>7, <1>8, <1>10, <1>11, StoreStep

LEMMA SweepStep ==
    ASSUME StoreOK, hold' = hold, NEW due \in SUBSET Cid, SweepExpired(due)
    PROVE  StoreOK' /\ Grows /\ DecisionsStay
<1>1. row \in [Cid -> Rows] /\ \A d \in Cid : RowOK(d)
  BY DEF StoreOK
<1>2. \A c \in due : row[c].decision = "PENDING" /\ row[c].thread \in Thread
  BY <1>1 DEF SweepExpired, Decidable, RowOK
<1>3. \A c \in Cid \ due : row'[c] = row[c]
  BY DEF SweepExpired
<1>4. \A c \in due : row'[c] = [row[c] EXCEPT !.state = "EXPIRED", !.decision = "EXPIRED"]
  BY DEF SweepExpired
<1>5. ASSUME NEW c \in due
      PROVE  row'[c].state = "EXPIRED" /\ row'[c].thread = row[c].thread /\ row'[c] \in Rows
  <2>1. row[c] \in Rows
    BY <1>1
  <2>. QED
    BY <1>4, <2>1 DEF Rows, RowStates, AuditDecisions
<1>6. RowsStay /\ HoldsStay
  BY <1>2, <1>3, <1>5 DEF RowsStay, HoldsStay, Existing
<1>7. row' \in [Cid -> Rows] /\ hold' \in [Cid -> SUBSET Vin]
  <2>1. row' = [c \in Cid |-> row'[c]]
    BY DEF SweepExpired
  <2>. QED
    BY <1>1, <1>3, <1>5, <2>1 DEF StoreOK
<1>8. HeldCids' = HeldCids
  BY DEF HeldCids, Mes!Held
<1>9. ASSUME NEW d \in Cid PROVE RowOK(d)'
  BY <1>1, <1>2, <1>3, <1>5, <1>8 DEF RowOK
<1>. QED
  BY <1>6, <1>7, <1>9, StoreStep

LEMMA HoldStep ==
    ASSUME StoreOK, row' = row,
           NEW t \in ApprovedThreads, NEW c \in RowsOf[t],
           NEW vins \in SUBSET Vin, Trigger \in vins, Mes!CreateOrReplay(c, vins)
    PROVE  StoreOK' /\ Grows /\ DecisionsStay /\ c \in HeldCids'
<1>0. t \in Thread
  BY DEF ApprovedThreads
<1>1. c \in Cid
  BY <1>0 DEF RowsOf, Existing
<1>2. hold \in [Cid -> SUBSET Vin]
  BY DEF StoreOK
<1>3. hold'[c] = vins /\ hold[c] \in {{}, vins} /\ \A d \in Cid \ {c} : hold'[d] = hold[d]
  BY <1>1, <1>2 DEF Mes!CreateOrReplay
<1>4. RowsStay /\ HoldsStay
  BY <1>3 DEF RowsStay, HoldsStay, Existing
<1>5. row' \in [Cid -> Rows] /\ hold' \in [Cid -> SUBSET Vin]
  BY <1>2 DEF StoreOK, Mes!CreateOrReplay
<1>6. c \in HeldCids' /\ HeldCids \subseteq HeldCids'
  BY <1>1, <1>3, <1>4 DEF HeldCids, HoldsStay, Mes!Held
<1>7. ASSUME NEW d \in Cid PROVE RowOK(d)'
  <2>1. RowOK(d)
    BY DEF StoreOK
  <2>. QED
    BY <1>6, <2>1 DEF RowOK
<1>8. ASSUME NEW d \in Cid, hold[d] = {}, hold'[d] # {} PROVE HoldOK(d)'
  <2>1. d = c
    BY <1>3, <1>8
  <2>2. t \in ApprovedThreads' /\ c \in RowsOf'[t]
    BY <1>0 DEF ApprovedThreads, HumanApproved, Approved, Existing, RowsOf
  <2>. QED
    BY <1>3, <2>1, <2>2 DEF HoldOK
<1>. QED
  BY <1>4, <1>5, <1>6, <1>7, <1>8, StoreStep

\* A request that takes effect, on time or late.
LEMMA ApplyStep ==
    ASSUME StoreOK, NEW r \in Requests, RequestOK(r), Apply(r)
    PROVE  StoreOK' /\ Grows /\ DecisionsStay
<1>1. CASE r.op = "post" /\ (\E c \in Cid : Propose(c, r.thread, r.state, r.vins)) /\ UNCHANGED hold
  BY <1>1, ProposeStep DEF Requests, RequestOK
<1>2. CASE r.op = "patch" /\ RecordOutcome(r.cid, r.state, r.final) /\ UNCHANGED hold
  BY <1>2, RecordStep DEF Requests, RequestOK
<1>3. CASE r.op = "hold" /\ row' = row /\ Mes!CreateOrReplay(r.cid, r.vins)
  BY <1>3, HoldStep DEF Requests, RequestOK
<1>4. CASE r.op = "hold" /\ row' = row /\ UNCHANGED hold
  BY <1>4, NothingStored
<1>. QED
  BY <1>1, <1>2, <1>3, <1>4 DEF Apply

-----------------------------------------------------------------------------
(* What carries over when the store and the plant grow. *)

LEMMA OneThread ==
    ASSUME ThreadsOK, Grows, NEW t \in Thread,
           \A u \in Thread \ {t} : mem'[u] = mem[u] /\ ckpt'[u] = ckpt[u] /\ value'[u] = value[u],
           GraphOK(t, mem[t])', GraphOK(t, ckpt[t])', ValueOK(t, value[t])'
    PROVE  ThreadsOK'
BY DEF ThreadsOK, GraphOK, ValueOK, Grows

\* The thread's states, wherever they go next.
LEMMA GraphKept ==
    ASSUME ThreadsOK, Grows, NEW t \in Thread
    PROVE  /\ mem'[t] \in {mem[t], ckpt[t]} => GraphOK(t, mem[t])'
           /\ ckpt'[t] \in {mem[t], ckpt[t]} => GraphOK(t, ckpt[t])'
           /\ value'[t] \in {value[t], NoValue} => ValueOK(t, value[t])'
BY DEF ThreadsOK, GraphOK, ValueOK, Grows, NoValue

LEMMA MessagesKept ==
    ASSUME TypeOK, MessagesOK, Grows,
           \A m \in wake' \ wake : ValueOK(m.thread, m)',
           \A r \in late' \ late : RequestOK(r)'
    PROVE  MessagesOK'
<1>1. ASSUME NEW m \in wake' PROVE ValueOK(m.thread, m)'
  BY DEF MessagesOK, ValueOK, Grows
<1>2. ASSUME NEW r \in late' PROVE RequestOK(r)'
  <2>1. CASE r \in late
    <3>1. RequestOK(r) /\ r.thread \in Thread
      BY <2>1 DEF MessagesOK, TypeOK, Requests
    <3>. QED
      BY <3>1 DEF RequestOK, Grows
  <2>. QED
    BY <2>1
<1>. QED
  BY <1>1, <1>2 DEF MessagesOK

-----------------------------------------------------------------------------
(* Types. *)

AgentTypes ==
    /\ mem \in [Thread -> GraphStates]
    /\ phase \in [Thread -> {"idle", "queued", "live", "leaving"}]
    /\ value \in [Thread -> Values]
    /\ attempts \in [Thread -> 0..ATTEMPTS]
    /\ triaged \subseteq Thread
    /\ up \in BOOLEAN

LEMMA Payloads ==
    /\ NoGraph \in GraphStates
    /\ NoValue \in Values
    /\ [decision |-> "START", vins |-> {}] \in Values
    /\ 0 \in 0..ATTEMPTS
BY BoundAssumption DEF NoGraph, GraphStates, Nodes, Outcomes, NoValue, Values

LEMMA ReturnTypes ==
    ASSUME TypeOK, NEW t \in Thread, NEW s \in GraphStates, Return(t, s)
    PROVE  AgentTypes'
BY Payloads DEF Return, TypeOK, AgentTypes

LEMMA RaiseTypes ==
    ASSUME TypeOK, NEW t \in Thread, Raise(t)
    PROVE  AgentTypes' /\ ckpt' \in [Thread -> GraphStates]
BY DEF Raise, TypeOK, AgentTypes

LEMMA FaultType == TypeOK /\ Fault => faults' \in 0..MaxFaults
BY BoundAssumption DEF TypeOK, Fault

LEMMA RequestTypes ==
    ASSUME TypeOK, NEW t \in Thread
    PROVE  /\ HoldRequest(t) \in Requests
           /\ \A state \in RowStates, vins \in SUBSET Vin : PostRequest(t, state, vins) \in Requests
           /\ \A state \in RowStates, final \in BOOLEAN : PatchRequest(t, state, final) \in Requests
<1>1. mem[t].cid \in Cid \cup {None} /\ mem[t].vins \in SUBSET Vin
  BY DEF TypeOK, GraphStates
<1>2. "ABSENT" \in RowStates
  BY DEF RowStates
<1>. QED
  BY <1>1, <1>2 DEF HoldRequest, PostRequest, PatchRequest, Requests

-----------------------------------------------------------------------------
(* Every step preserves the invariant and leaves decisions alone. *)

Preserved == IInv' /\ DecisionsStay

\* The claims on threads: nothing is stored.
LEMMA ClaimSteps ==
    ASSUME IInv, NEW t \in Thread, Triage(t) \/ Begin(t) \/ Persist(t) \/ Release(t)
    PROVE  Preserved
<1> USE DEF IInv
<1>0. row' = row /\ hold' = hold /\ wake' = wake /\ late' = late /\ faults' = faults /\ up' = up
  BY DEF Triage, Begin, Persist, Release
<1>1. StoreOK' /\ Grows /\ DecisionsStay
  BY <1>0, NothingStored
<1>2. MessagesOK'
  BY <1>0, <1>1, MessagesKept
<1>3. CASE Triage(t)
  <2>1. AgentTypes' /\ ckpt' = ckpt
    BY <1>3, Payloads DEF Triage, Start, TypeOK, AgentTypes
  <2>2. mem' = mem /\ value'[t].decision = "START"
    BY <1>3 DEF Triage, Start, TypeOK
  <2>3. ValueOK(t, value[t])'
    BY <2>2 DEF ValueOK
  <2>4. ThreadsOK'
    BY <1>1, <1>3, <2>1, <2>2, <2>3, GraphKept, OneThread DEF Triage, Start
  <2>. QED
    BY <1>0, <1>1, <1>2, <2>1, <2>4 DEF TypeOK, AgentTypes, StoreOK, Preserved
<1>4. CASE Begin(t)
  <2>1. ckpt[t] \in GraphStates /\ [ckpt[t] EXCEPT !.next = "investigate"] \in GraphStates
    BY DEF TypeOK, GraphStates, Nodes
  <2>2. AgentTypes' /\ ckpt' = ckpt
    BY <1>4, <2>1, Payloads DEF Begin, TypeOK, AgentTypes
  <2>3. GraphOK(t, mem[t])'
    <3>1. CASE value[t].decision = "START"
      <4>1. mem'[t].next = "investigate"
        BY <1>4, <2>1, <3>1 DEF Begin, TypeOK, GraphStates
      <4>. QED
        BY <4>1 DEF GraphOK
    <3>2. CASE value[t].decision # "START"
      BY <1>1, <1>4, <3>2, GraphKept DEF Begin, TypeOK
    <3>. QED
      BY <3>1, <3>2
  <2>4. value'[t] \in {value[t], NoValue}
    BY <1>4 DEF Begin, TypeOK
  <2>5. ThreadsOK'
    BY <1>1, <1>4, <2>2, <2>3, <2>4, GraphKept, OneThread DEF Begin, TypeOK
  <2>. QED
    BY <1>0, <1>1, <1>2, <2>2, <2>5 DEF TypeOK, AgentTypes, StoreOK, Preserved
<1>5. CASE Persist(t)
  <2>1. AgentTypes' /\ ckpt' \in [Thread -> GraphStates]
    BY <1>5 DEF Persist, TypeOK, AgentTypes
  <2>2. ThreadsOK'
    BY <1>1, <1>5, GraphKept, OneThread DEF Persist, TypeOK
  <2>. QED
    BY <1>0, <1>1, <1>2, <2>1, <2>2 DEF TypeOK, AgentTypes, StoreOK, Preserved
<1>6. CASE Release(t)
  <2>1. AgentTypes' /\ ckpt' \in [Thread -> GraphStates]
    BY <1>6, Payloads DEF Release, TypeOK, AgentTypes
  <2>2. ThreadsOK'
    BY <1>1, <1>6, GraphKept, OneThread DEF Release, TypeOK
  <2>. QED
    BY <1>0, <1>1, <1>2, <2>1, <2>2 DEF TypeOK, AgentTypes, StoreOK, Preserved
<1>. QED
  BY <1>3, <1>4, <1>5, <1>6

\* The resume handler: what it passes on is the decision it was sent.
LEMMA HandlerSteps ==
    ASSUME IInv, NEW m \in wake, ResumeHandler(m)
    PROVE  Preserved
<1> USE DEF IInv
<1>0. row' = row /\ hold' = hold /\ late' = late /\ ckpt' = ckpt /\ mem' = mem /\ up' = up
  BY DEF ResumeHandler, Snapshot, Claim, Refuse, LoseWake, agentVars
<1>1. StoreOK' /\ Grows /\ DecisionsStay
  BY <1>0, NothingStored
<1>2. m \in Wakes /\ m.thread \in Thread /\ ValueOK(m.thread, m)
  BY DEF TypeOK, Wakes, MessagesOK
<1>3. faults' \in 0..MaxFaults
  BY FaultType DEF ResumeHandler, Snapshot, Claim, Refuse, LoseWake, TypeOK
<1>4. CASE Snapshot(m)
  <2>1. \A n \in wake' \ wake : n \in Wakes /\ n.decision = m.decision /\ n.thread = m.thread
    BY <1>2, <1>4 DEF Snapshot, Modes, Wakes
  <2>2. wake' \subseteq Wakes
    BY <1>4, <2>1 DEF Snapshot, TypeOK
  <2>3. \A n \in wake' \ wake : ValueOK(n.thread, n)'
    BY <1>1, <1>2, <2>1 DEF ValueOK, Grows
  <2>4. MessagesOK'
    BY <1>0, <1>1, <2>3, MessagesKept
  <2>5. ThreadsOK'
    BY <1>1, <1>0, <1>2, <1>4, GraphKept, OneThread DEF Snapshot, agentVars
  <2>. QED
    BY <1>0, <1>1, <1>3, <1>4, <2>2, <2>4, <2>5 DEF TypeOK, StoreOK, Preserved, Snapshot, agentVars
<1>5. CASE Claim(m)
  <2> DEFINE v == [decision |-> IF m.mode = "value" THEN m.decision ELSE "CONTINUE",
                   vins     |-> IF m.mode = "value" THEN m.vins ELSE {}]
  <2>1. v \in Values /\ (v.decision = m.decision \/ v.decision = "CONTINUE")
    BY <1>2 DEF Wakes, Values
  <2>2. /\ phase' = [phase EXCEPT ![m.thread] = "queued"]
        /\ value' = [value EXCEPT ![m.thread] = v]
    BY <1>5 DEF Claim, Start
  <2> HIDE DEF v
  <2>3. ValueOK(m.thread, value[m.thread])'
    BY <1>1, <1>2, <2>1, <2>2 DEF ValueOK, Grows, TypeOK
  <2>4. ThreadsOK'
    BY <1>0, <1>1, <1>2, <2>2, <2>3, GraphKept, OneThread
  <2>5. MessagesOK' /\ wake' \subseteq Wakes
    BY <1>0, <1>1, <1>5, MessagesKept DEF Claim, TypeOK
  <2>. QED
    BY <1>0, <1>1, <1>2, <1>3, <1>5, <2>1, <2>2, <2>4, <2>5 DEF TypeOK, StoreOK, Preserved, Claim
<1>6. CASE Refuse(m) \/ LoseWake(m)
  <2>1. MessagesOK' /\ wake' \subseteq Wakes
    BY <1>0, <1>1, <1>6, MessagesKept DEF Refuse, LoseWake, TypeOK
  <2>2. ThreadsOK' /\ UNCHANGED agentVars
    BY <1>0, <1>1, <1>2, <1>6, GraphKept, OneThread DEF Refuse, LoseWake, agentVars
  <2>. QED
    BY <1>0, <1>1, <1>3, <2>1, <2>2 DEF TypeOK, StoreOK, Preserved, agentVars
<1>. QED
  BY <1>4, <1>5, <1>6 DEF ResumeHandler

LEMMA UnansweredStep ==
    ASSUME IInv, NEW r \in Requests, RequestOK(r), Unanswered(r), wake' = wake
    PROVE  /\ StoreOK' /\ Grows /\ DecisionsStay
           /\ MessagesOK' /\ late' \subseteq Requests /\ faults' \in 0..MaxFaults
<1> USE DEF IInv
<1>1. StoreOK' /\ Grows /\ DecisionsStay
  BY ApplyStep, NothingStored DEF Unanswered
<1>2. late' \subseteq late \cup {r}
  BY DEF Unanswered
<1>3. r.thread \in Thread
  BY DEF Requests
<1>4. \A q \in late' \ late : RequestOK(q)'
  BY <1>1, <1>2, <1>3 DEF RequestOK, Grows
<1>. QED
  BY <1>1, <1>2, <1>4, MessagesKept, FaultType DEF Unanswered, TypeOK

\* A node that stores nothing returns a state that is right for its thread.
LEMMA ReturnStep ==
    ASSUME IInv, NEW t \in Thread, NEW s \in GraphStates, Return(t, s),
           UNCHANGED <<row, hold, ckpt, wake, late>>, faults' \in 0..MaxFaults,
           GraphOK(t, s)
    PROVE  Preserved
<1> USE DEF IInv
<1>1. StoreOK' /\ Grows /\ DecisionsStay
  BY NothingStored
<1>2. AgentTypes'
  BY ReturnTypes
<1>3. mem'[t] = s /\ value'[t] = NoValue
  BY DEF Return, TypeOK
<1>4. GraphOK(t, mem[t])'
  BY <1>1, <1>3 DEF GraphOK, Grows
<1>5. ThreadsOK'
  BY <1>1, <1>3, <1>4, GraphKept, OneThread DEF Return, TypeOK
<1>6. MessagesOK'
  BY <1>1, MessagesKept
<1>. QED
  BY <1>1, <1>2, <1>5, <1>6 DEF TypeOK, AgentTypes, StoreOK, Preserved

\* A node that raises, whatever the call it made did.
LEMMA RaiseStep ==
    ASSUME IInv, NEW t \in Thread, Raise(t), UNCHANGED wake,
           StoreOK', Grows, DecisionsStay,
           MessagesOK', late' \subseteq Requests, faults' \in 0..MaxFaults
    PROVE  Preserved
<1> USE DEF IInv
<1>1. AgentTypes' /\ ckpt' \in [Thread -> GraphStates]
  BY RaiseTypes
<1>2. ThreadsOK'
  BY GraphKept, OneThread DEF Raise
<1>. QED
  BY <1>1, <1>2 DEF TypeOK, AgentTypes, StoreOK, Preserved

LEMMA InvestigateStep ==
    ASSUME IInv, NEW t \in Thread, Investigate(t)
    PROVE  Preserved
<1>0. TypeOK /\ ThreadsOK /\ mem[t] \in GraphStates /\ faults' \in 0..MaxFaults
  BY DEF IInv, TypeOK, Investigate
<1>1. ASSUME NEW S \in ProposedScopes,
             Return(t, [mem[t] EXCEPT !.next = "submit", !.vins = S])
      PROVE  Preserved
  <2> DEFINE s == [mem[t] EXCEPT !.next = "submit", !.vins = S]
  <2>1. s \in GraphStates /\ s.next = "submit" /\ Trigger \in s.vins
    BY <1>0, ScopeAssumption DEF GraphStates, Nodes
  <2> HIDE DEF s
  <2>2. GraphOK(t, s)
    BY <2>1 DEF GraphOK
  <2>3. Return(t, s)
    BY <1>1 DEF s
  <2>. QED
    BY <1>0, <2>1, <2>2, <2>3, ReturnStep DEF Investigate
<1>2. CASE Return(t, [mem[t] EXCEPT !.next = "no_proposal"])
  <2> DEFINE s == [mem[t] EXCEPT !.next = "no_proposal"]
  <2>1. s \in GraphStates /\ s.next = "no_proposal"
    BY <1>0 DEF GraphStates, Nodes
  <2> HIDE DEF s
  <2>2. GraphOK(t, s)
    BY <2>1 DEF GraphOK
  <2>3. Return(t, s)
    BY <1>2 DEF s
  <2>. QED
    BY <1>0, <2>1, <2>2, <2>3, ReturnStep DEF Investigate
<1>3. CASE Raise(t)
  <2>1. StoreOK' /\ Grows /\ DecisionsStay
    BY NothingStored DEF IInv, Investigate
  <2>2. MessagesOK' /\ late' \subseteq Requests
    BY <2>1, MessagesKept DEF IInv, Investigate, TypeOK
  <2>. QED
    BY <1>0, <1>3, <2>1, <2>2, RaiseStep DEF Investigate
<1>. QED
  BY <1>1, <1>2, <1>3 DEF Investigate

\* submit and no_proposal: a new row of the thread's own.
LEMMA PostStep ==
    ASSUME IInv, NEW t \in Thread, mem[t].next \in {"submit", "no_proposal"},
           Submit(t) \/ NoProposal(t)
    PROVE  Preserved
<1> USE DEF IInv
<1>0. PICK state \in {"PROPOSED", "ESCALATED"}, vins \in SUBSET Vin, next \in {"gate", "report"} :
         /\ Post(t, state, vins, next)
         /\ next = "report" => state = "ESCALATED"
         /\ next = "gate" => Trigger \in mem[t].vins
  BY DEF Submit, NoProposal, AtNode, ThreadsOK, GraphOK, TypeOK, GraphStates
<1>1. wake' = wake
  BY DEF Submit, NoProposal
<1>2. ASSUME NEW c \in Cid,
             Propose(c, t, state, vins),
             Return(t, [mem[t] EXCEPT !.next = next, !.cid = c, !.outcome = state]),
             UNCHANGED <<hold, ckpt, late, faults>>
      PROVE  Preserved
  <2> DEFINE s == [mem[t] EXCEPT !.next = next, !.cid = c, !.outcome = state]
  <2>1. /\ s \in GraphStates
        /\ s.next = next /\ s.cid = c /\ s.outcome = state /\ s.vins = mem[t].vins
    BY DEF TypeOK, GraphStates, Nodes, Outcomes
  <2>2. Return(t, s)
    BY <1>2
  <2> HIDE DEF s
  <2>3. StoreOK' /\ Grows /\ DecisionsStay /\ c \in RowsOf'[t]
    BY <1>2, ProposeStep
  <2>4. AgentTypes'
    BY <2>1, <2>2, ReturnTypes DEF TypeOK
  <2>5. mem'[t] = s /\ value'[t] = NoValue
    BY <2>2 DEF Return, TypeOK
  <2>6. GraphOK(t, mem[t])'
    BY <1>0, <2>1, <2>3, <2>5 DEF GraphOK, PatchStates
  <2>7. ThreadsOK'
    BY <1>2, <2>2, <2>3, <2>5, <2>6, GraphKept, OneThread DEF Return, TypeOK
  <2>8. MessagesOK'
    BY <1>1, <1>2, <2>3, MessagesKept
  <2>. QED
    BY <1>1, <1>2, <2>3, <2>4, <2>7, <2>8 DEF TypeOK, AgentTypes, StoreOK, Preserved
<1>3. ASSUME Raise(t), Unanswered(PostRequest(t, state, vins))
      PROVE  Preserved
  <2>1. PostRequest(t, state, vins) \in Requests /\ RequestOK(PostRequest(t, state, vins))
    <3>1. state \in RowStates
      BY DEF RowStates
    <3>. QED
      BY <3>1, RequestTypes DEF RequestOK, PostRequest
  <2>. QED
    BY <1>1, <1>3, <2>1, UnansweredStep, RaiseStep
<1>. QED
  BY <1>0, <1>2, <1>3 DEF Post

\* The interrupts and what follows them: past the gate only with an approval.
LEMMA GateSteps ==
    ASSUME IInv, NEW t \in Thread, Interrupt(t) \/ Gate(t) \/ RetryGate(t)
    PROVE  Preserved
<1>0. /\ TypeOK /\ mem[t] \in GraphStates /\ GraphOK(t, mem[t]) /\ ValueOK(t, value[t])
      /\ value[t] \in Values /\ faults' \in 0..MaxFaults
  BY DEF IInv, TypeOK, ThreadsOK, Interrupt, Gate, RetryGate
<1>1. CASE Interrupt(t)
  <2>1. StoreOK' /\ Grows /\ DecisionsStay
    BY <1>1, NothingStored DEF IInv, Interrupt
  <2>2. mem'[t] = [mem[t] EXCEPT !.waiting = TRUE] /\ mem'[t] \in GraphStates
    BY <1>0, <1>1 DEF Interrupt, TypeOK, GraphStates
  <2>3. GraphOK(t, mem[t])'
    BY <1>0, <2>1, <2>2 DEF GraphOK, Grows, GraphStates
  <2>4. ThreadsOK'
    BY <1>1, <2>1, <2>3, GraphKept, OneThread DEF IInv, Interrupt, TypeOK
  <2>5. MessagesOK'
    BY <1>1, <2>1, MessagesKept DEF IInv, Interrupt
  <2>6. mem' \in [Thread -> GraphStates]
        /\ phase' \in [Thread -> {"idle", "queued", "live", "leaving"}]
    BY <1>0, <1>1, <2>2 DEF Interrupt, TypeOK
  <2>. QED
    BY <1>1, <2>1, <2>4, <2>5, <2>6 DEF IInv, TypeOK, StoreOK, Preserved, Interrupt
<1>2. CASE Gate(t)
  <2> DEFINE passed == [mem[t] EXCEPT !.waiting = FALSE, !.vins = BoundsAfterGate(t)]
  <2>0. mem[t].next = "gate"
    BY <1>2 DEF Gate, AtNode
  <2>1. passed \in GraphStates /\ passed.cid = mem[t].cid /\ Trigger \in passed.vins
    <3>1. BoundsAfterGate(t) \in SUBSET Vin /\ Trigger \in BoundsAfterGate(t)
      BY <1>0, <2>0, ScopeAssumption
         DEF BoundsAfterGate, WithTrigger, Values, GraphStates, GraphOK
    <3>. QED
      BY <1>0, <3>1 DEF GraphStates
  <2> HIDE DEF passed
  <2>2. ASSUME value[t].decision = "REJECT",
               Return(t, [passed EXCEPT !.next = "report", !.outcome = "REJECTED"])
        PROVE  Preserved
    <3> DEFINE s == [passed EXCEPT !.next = "report", !.outcome = "REJECTED"]
    <3>1. /\ s \in GraphStates
          /\ s.next = "report" /\ s.outcome = "REJECTED" /\ s.cid = mem[t].cid
      BY <2>1 DEF GraphStates, Nodes, Outcomes
    <3> HIDE DEF s
    <3>2. GraphOK(t, s)
      BY <1>0, <2>0, <3>1 DEF GraphOK, PatchStates
    <3>3. Return(t, s)
      BY <2>2 DEF s
    <3>. QED
      BY <1>0, <1>2, <3>1, <3>2, <3>3, ReturnStep DEF Gate
  <2>3. ASSUME value[t].decision \in {"APPROVE", "AMEND"},
               Return(t, [passed EXCEPT !.next = "commit", !.outcome = "PROPOSED"])
        PROVE  Preserved
    <3> DEFINE s == [passed EXCEPT !.next = "commit", !.outcome = "PROPOSED"]
    <3>1. /\ s \in GraphStates
          /\ s.next = "commit" /\ s.cid = mem[t].cid /\ Trigger \in s.vins
      BY <2>1 DEF GraphStates, Nodes, Outcomes
    <3> HIDE DEF s
    <3>2. t \in ApprovedThreads
      BY <1>0, <2>3 DEF ValueOK
    <3>3. GraphOK(t, s)
      BY <1>0, <2>0, <3>1, <3>2 DEF GraphOK
    <3>4. Return(t, s)
      BY <2>3 DEF s
    <3>. QED
      BY <1>0, <1>2, <3>1, <3>3, <3>4, ReturnStep DEF Gate
  <2>4. CASE Raise(t)
    <3>1. StoreOK' /\ Grows /\ DecisionsStay
      BY <1>2, NothingStored DEF IInv, Gate
    <3>2. MessagesOK' /\ late' \subseteq Requests
      BY <1>2, <3>1, MessagesKept DEF IInv, Gate, TypeOK
    <3>. QED
      BY <1>0, <1>2, <2>4, <3>1, <3>2, RaiseStep DEF Gate
  <2>. QED
    BY <1>2, <2>2, <2>3, <2>4 DEF Gate, passed
<1>3. CASE RetryGate(t)
  <2> DEFINE s == [mem[t] EXCEPT !.waiting = FALSE, !.next = "commit"]
  <2>0. mem[t].next = "retry_gate"
    BY <1>3 DEF RetryGate, AtNode
  <2>1. /\ s \in GraphStates
        /\ s.next = "commit" /\ s.cid = mem[t].cid /\ s.vins = mem[t].vins
    BY <1>0 DEF GraphStates, Nodes
  <2>2. Return(t, s)
    BY <1>3 DEF RetryGate
  <2> HIDE DEF s
  <2>3. GraphOK(t, s)
    BY <1>0, <2>0, <2>1 DEF GraphOK
  <2>. QED
    BY <1>0, <1>3, <2>1, <2>2, <2>3, ReturnStep DEF RetryGate
<1>. QED
  BY <1>1, <1>2, <1>3

\* The commit: the only node that reaches the plant.
LEMMA CommitSteps ==
    ASSUME IInv, NEW t \in Thread,
           CommitAttempt(t) \/ CommitExhausted(t) \/ CommitRefused(t)
    PROVE  Preserved
<1>0. /\ TypeOK /\ mem[t] \in GraphStates /\ mem[t].next = "commit"
      /\ mem[t].vins \in SUBSET Vin /\ Trigger \in mem[t].vins
      /\ mem[t].cid \in RowsOf[t] /\ t \in ApprovedThreads
  BY DEF IInv, TypeOK, GraphStates, ThreadsOK, GraphOK, CommitAttempt, CommitExhausted,
         CommitRefused, AtNode
<1>1. wake' = wake /\ ckpt' = ckpt
  BY DEF CommitAttempt, CommitExhausted, CommitRefused
<1>2. ASSUME Mes!CreateOrReplay(mem[t].cid, mem[t].vins),
             Return(t, [mem[t] EXCEPT !.next = "report", !.outcome = "COMMITTED"]),
             UNCHANGED <<row, late, faults>>
      PROVE  Preserved
  <2> DEFINE s == [mem[t] EXCEPT !.next = "report", !.outcome = "COMMITTED"]
  <2>1. /\ s \in GraphStates
        /\ s.next = "report" /\ s.outcome = "COMMITTED" /\ s.cid = mem[t].cid
    BY <1>0 DEF GraphStates, Nodes, Outcomes
  <2>2. Return(t, s)
    BY <1>2
  <2> HIDE DEF s
  <2>3. StoreOK' /\ Grows /\ DecisionsStay /\ mem[t].cid \in HeldCids'
    BY <1>0, <1>2, HoldStep DEF IInv
  <2>4. AgentTypes' /\ mem'[t] = s /\ value'[t] = NoValue
    BY <1>0, <2>1, <2>2, ReturnTypes DEF Return, TypeOK
  <2>5. GraphOK(t, mem[t])'
    BY <1>0, <2>1, <2>3, <2>4 DEF GraphOK, Grows, PatchStates
  <2>6. ThreadsOK'
    BY <1>0, <1>1, <2>2, <2>3, <2>4, <2>5, GraphKept, OneThread DEF IInv, Return, TypeOK
  <2>7. MessagesOK'
    BY <1>1, <1>2, <2>3, MessagesKept DEF IInv
  <2>. QED
    BY <1>1, <1>2, <2>3, <2>4, <2>6, <2>7 DEF IInv, TypeOK, AgentTypes, StoreOK, Preserved
<1>3. ASSUME Raise(t), UNCHANGED <<row, hold, late, faults>>
      PROVE  Preserved
  <2>1. StoreOK' /\ Grows /\ DecisionsStay
    BY <1>3, NothingStored DEF IInv
  <2>. QED
    BY <1>1, <1>3, <2>1, MessagesKept, RaiseStep DEF IInv, TypeOK
<1>4. ASSUME Unanswered(HoldRequest(t)), MayAttempt(t),
             attempts' = [attempts EXCEPT ![t] = @ + 1],
             UNCHANGED <<mem, phase, value, triaged, up>>
      PROVE  Preserved
  <2>1. HoldRequest(t) \in Requests /\ RequestOK(HoldRequest(t))
    BY <1>0, RequestTypes DEF RequestOK, HoldRequest
  <2>2. /\ StoreOK' /\ Grows /\ DecisionsStay
        /\ MessagesOK' /\ late' \subseteq Requests /\ faults' \in 0..MaxFaults
    BY <1>1, <1>4, <2>1, UnansweredStep
  <2>3. ThreadsOK'
    BY <1>1, <1>4, <2>2, GraphKept, OneThread DEF IInv
  <2>4. attempts' \in [Thread -> 0..ATTEMPTS]
    BY <1>0, <1>4, BoundAssumption DEF TypeOK, MayAttempt
  <2>. QED
    BY <1>0, <1>1, <1>4, <2>2, <2>3, <2>4 DEF IInv, TypeOK, StoreOK, Preserved
<1>5. ASSUME Park(t), UNCHANGED <<row, hold, late>>, faults' \in 0..MaxFaults
      PROVE  Preserved
  <2> DEFINE s == [mem[t] EXCEPT !.next = "pending", !.outcome = "COMMIT_PENDING"]
  <2>1. /\ s \in GraphStates
        /\ s.next = "pending" /\ s.cid = mem[t].cid /\ s.vins = mem[t].vins
    BY <1>0 DEF GraphStates, Nodes, Outcomes
  <2>2. Return(t, s)
    BY <1>5 DEF Park
  <2> HIDE DEF s
  <2>3. GraphOK(t, s)
    BY <1>0, <2>1 DEF GraphOK
  <2>. QED
    BY <1>1, <1>5, <2>1, <2>2, <2>3, ReturnStep
<1>6. CASE CommitAttempt(t)
  <2>1. ASSUME Unanswered(HoldRequest(t)), Raise(t)
        PROVE  Preserved
    <3>1. HoldRequest(t) \in Requests /\ RequestOK(HoldRequest(t))
      BY <1>0, RequestTypes DEF RequestOK, HoldRequest
    <3>. QED
      BY <1>1, <2>1, <3>1, UnansweredStep, RaiseStep
  <2>. QED
    BY <1>2, <1>3, <1>4, <1>6, <2>1 DEF CommitAttempt
<1>7. CASE CommitExhausted(t)
  BY <1>0, <1>5, <1>7 DEF CommitExhausted, TypeOK
<1>8. CASE CommitRefused(t)
  BY <1>0, <1>5, <1>8, FaultType DEF CommitRefused
<1>. QED
  BY <1>6, <1>7, <1>8

\* pending and report: a PATCH of the thread's own row.
LEMMA PatchSteps ==
    ASSUME IInv, NEW t \in Thread, Pending(t) \/ Report(t)
    PROVE  Preserved
<1>0. PICK state \in PatchStates, final \in BOOLEAN, next \in {"retry_gate", "END"} :
         /\ Patch(t, state, final, next)
         /\ state = "COMMITTED" => mem[t].cid \in HeldCids
         /\ next = "retry_gate" => t \in ApprovedThreads /\ Trigger \in mem[t].vins
         /\ mem[t].cid \in RowsOf[t]
  BY DEF IInv, ThreadsOK, GraphOK, Pending, Report, AtNode, PatchStates
<1>1. wake' = wake
  BY DEF Pending, Report
<1>2. ASSUME RecordOutcome(mem[t].cid, state, final),
             Return(t, [mem[t] EXCEPT !.next = next]),
             UNCHANGED <<hold, ckpt, late, faults>>
      PROVE  Preserved
  <2> DEFINE s == [mem[t] EXCEPT !.next = next]
  <2>1. s \in GraphStates /\ s.next = next /\ s.cid = mem[t].cid /\ s.vins = mem[t].vins
    BY DEF IInv, TypeOK, GraphStates, Nodes
  <2>2. Return(t, s)
    BY <1>2
  <2> HIDE DEF s
  <2>3. StoreOK' /\ Grows /\ DecisionsStay
    BY <1>0, <1>2, RecordStep DEF IInv
  <2>4. AgentTypes' /\ mem'[t] = s /\ value'[t] = NoValue
    BY <2>1, <2>2, ReturnTypes DEF IInv, Return, TypeOK
  <2>5. GraphOK(t, mem[t])'
    BY <1>0, <2>1, <2>3, <2>4 DEF GraphOK, Grows
  <2>6. ThreadsOK'
    BY <1>2, <2>2, <2>3, <2>4, <2>5, GraphKept, OneThread DEF IInv, Return, TypeOK
  <2>7. MessagesOK'
    BY <1>1, <1>2, <2>3, MessagesKept DEF IInv
  <2>. QED
    BY <1>1, <1>2, <2>3, <2>4, <2>6, <2>7 DEF IInv, TypeOK, AgentTypes, StoreOK, Preserved
<1>3. ASSUME Unanswered(PatchRequest(t, state, final)), Raise(t)
      PROVE  Preserved
  <2>1. PatchRequest(t, state, final) \in Requests /\ RequestOK(PatchRequest(t, state, final))
    <3>1. state \in RowStates
      BY DEF PatchStates, RowStates
    <3>. QED
      BY <1>0, <3>1, RequestTypes DEF IInv, RequestOK, PatchRequest
  <2>. QED
    BY <1>1, <1>3, <2>1, UnansweredStep, RaiseStep
<1>. QED
  BY <1>0, <1>2, <1>3 DEF Patch

\* A request whose caller is long gone.
LEMMA DeliverStep ==
    ASSUME IInv, NEW r \in late, Deliver(r)
    PROVE  Preserved
<1>1. StoreOK' /\ Grows /\ DecisionsStay
  BY ApplyStep DEF IInv, TypeOK, MessagesOK, Deliver
<1>2. MessagesOK'
  BY <1>1, MessagesKept DEF IInv, Deliver
<1>3. ThreadsOK'
  BY <1>1 DEF IInv, Deliver, agentVars, ThreadsOK, GraphOK, ValueOK, Grows
<1>. QED
  BY <1>1, <1>2, <1>3 DEF IInv, TypeOK, StoreOK, Preserved, Deliver, agentVars

\* A crash leaves what was durable.
LEMMA ProcessSteps ==
    ASSUME IInv, Crash \/ Restart
    PROVE  Preserved
<1>1. StoreOK' /\ Grows /\ DecisionsStay
  BY NothingStored DEF IInv, Crash, Restart
<1>2. MessagesOK' /\ wake' \subseteq Wakes
  BY <1>1, MessagesKept DEF IInv, Crash, Restart, TypeOK
<1>3. CASE Crash
  <2>1. \A t \in Thread : mem'[t] = ckpt[t] /\ ckpt'[t] = ckpt[t] /\ value'[t] = NoValue
    BY <1>3 DEF Crash
  <2>2. ThreadsOK'
    BY <1>1, <2>1, GraphKept DEF IInv, ThreadsOK
  <2>. QED
    BY <1>1, <1>2, <1>3, <2>2, Payloads, FaultType DEF IInv, TypeOK, StoreOK, Preserved, Crash
<1>4. CASE Restart
  <2>1. ThreadsOK'
    BY <1>1, <1>4, GraphKept DEF IInv, ThreadsOK, Restart
  <2>. QED
    BY <1>1, <1>2, <1>4, <2>1 DEF IInv, TypeOK, StoreOK, Preserved, Restart
<1>. QED
  BY <1>3, <1>4

\* The api sends decisions only to the threads of the rows that carry them.
LEMMA SendStep ==
    ASSUME IInv, StoreOK', Grows, DecisionsStay, UNCHANGED <<agentVars, late, faults>>,
           NEW msgs \in SUBSET Wakes, Send(msgs), \A m \in msgs : ValueOK(m.thread, m)'
    PROVE  Preserved
<1>1. wake' \subseteq wake \cup msgs
  BY DEF Send
<1>2. MessagesOK'
  BY <1>1, MessagesKept DEF IInv, agentVars
<1>3. ThreadsOK'
  BY DEF IInv, agentVars, ThreadsOK, GraphOK, ValueOK, Grows
<1>. QED
  BY <1>1, <1>2, <1>3 DEF IInv, TypeOK, StoreOK, Preserved, agentVars

LEMMA HumanStep ==
    ASSUME IInv, NEW c \in Cid, NEW action \in {"APPROVE", "AMEND", "REJECT"},
           HumanDecision(c, action)
    PROVE  Preserved
<1>1. PICK vins \in SUBSET Vin : Decide(c, action, vins) /\ Send({Resume(c, action, vins)})
  BY DEF HumanDecision
<1>2. /\ StoreOK' /\ Grows /\ DecisionsStay
      /\ row[c].thread \in Thread
      /\ action # "REJECT" => row[c].thread \in ApprovedThreads'
  BY <1>1, DecideStep DEF IInv, HumanDecision
<1>3. Resume(c, action, vins) \in Wakes
  BY <1>2 DEF Resume, Wakes
<1>4. \A m \in {Resume(c, action, vins)} : ValueOK(m.thread, m)'
  BY <1>2 DEF ValueOK, Resume
<1>. QED
  BY <1>1, <1>2, <1>3, <1>4, SendStep DEF HumanDecision

LEMMA SweeperSteps ==
    ASSUME IInv, (\E due \in SUBSET Cid : SweepExpire(due)) \/ SweepResend
    PROVE  Preserved
<1>0. row \in [Cid -> Rows] /\ \A c \in Cid : RowOK(c)
  BY DEF IInv, StoreOK
<1>1. ASSUME NEW due \in SUBSET Cid, SweepExpire(due)
      PROVE  Preserved
  <2> DEFINE msgs == {Resume(c, "REJECT", {}) : c \in due}
  <2>1. StoreOK' /\ Grows /\ DecisionsStay
    BY <1>1, SweepStep DEF IInv, SweepExpire
  <2>2. \A c \in due : row[c].thread \in Thread
    BY <1>0, <1>1 DEF SweepExpire, SweepExpired, Decidable, RowOK
  <2>3. msgs \in SUBSET Wakes /\ \A m \in msgs : m.decision = "REJECT"
    BY <2>2 DEF Resume, Wakes
  <2>4. Send(msgs)
    BY <1>1 DEF SweepExpire
  <2> HIDE DEF msgs
  <2>5. \A m \in msgs : ValueOK(m.thread, m)'
    BY <2>3 DEF ValueOK
  <2>. QED
    BY <1>1, <2>1, <2>3, <2>4, <2>5, SendStep DEF SweepExpire
<1>2. CASE SweepResend
  <2> DEFINE retries == {Resume(c, "RETRY", {}) : c \in Parked}
  <2>1. StoreOK' /\ Grows /\ DecisionsStay
    BY <1>2, NothingStored DEF IInv, SweepResend
  <2>2. ASSUME NEW m \in DecidedResumes
        PROVE  m \in Wakes /\ ValueOK(m.thread, m)'
    <3>1. PICK c \in Unreported : m = Resume(c, ActionOf(row[c].state), row[c].vins)
      BY <2>2 DEF DecidedResumes
    <3>2. /\ c \in Cid /\ RowOK(c) /\ row[c] \in Rows
          /\ row[c].state \in {"APPROVED", "AMENDED", "REJECTED", "EXPIRED"}
      BY <1>0 DEF Unreported
    <3>3. /\ row[c].state = "APPROVED" => ActionOf(row[c].state) = "APPROVE"
          /\ row[c].state = "AMENDED" => ActionOf(row[c].state) = "AMEND"
          /\ row[c].state \in {"REJECTED", "EXPIRED"} => ActionOf(row[c].state) = "REJECT"
      BY DEF ActionOf
    <3>4. row[c].thread \in Thread /\ row[c].vins \in SUBSET Vin
      BY <3>2 DEF RowOK, Rows
    <3>5. m \in Wakes
      BY <3>1, <3>2, <3>3, <3>4 DEF Resume, Wakes
    <3>6. ActionOf(row[c].state) \in {"APPROVE", "AMEND"} => row[c].thread \in ApprovedThreads
      BY <3>2, <3>3, <3>4
         DEF RowOK, ApprovedThreads, HumanApproved, Existing, Approved
    <3>7. m.thread = row[c].thread /\ m.decision = ActionOf(row[c].state)
      BY <3>1 DEF Resume
    <3>. QED
      BY <2>1, <3>5, <3>6, <3>7 DEF ValueOK, Grows
  <2>3. \A m \in retries : m \in Wakes /\ m.decision = "RETRY"
    BY <1>0 DEF Parked, Resume, Wakes, RowOK
  <2>4. Send(DecidedResumes \cup retries)
    BY <1>2 DEF SweepResend
  <2> HIDE DEF retries
  <2>5. \A m \in DecidedResumes \cup retries : m \in Wakes /\ ValueOK(m.thread, m)'
    BY <2>2, <2>3 DEF ValueOK
  <2>. QED
    BY <1>2, <2>1, <2>4, <2>5, SendStep DEF SweepResend
<1>. QED
  BY <1>1, <1>2

LEMMA Stuttering == ASSUME IInv, UNCHANGED vars PROVE Preserved
<1>1. StoreOK' /\ Grows /\ DecisionsStay
  BY NothingStored DEF IInv, vars
<1>2. MessagesOK' /\ ThreadsOK'
  BY <1>1, MessagesKept, GraphKept DEF IInv, vars, agentVars, ThreadsOK
<1>. QED
  BY <1>1, <1>2 DEF IInv, TypeOK, StoreOK, Preserved, vars, agentVars

LEMMA InitInvariant == Init => IInv
<1> SUFFICES ASSUME Init PROVE IInv
  OBVIOUS
<1> USE DEF Init, StoreInit, Mes!HoldInit
<1>1. NoRow \in Rows /\ NoRow.state = "ABSENT" /\ NoRow.decision = "NONE"
  BY DEF NoRow, Rows, RowStates, AuditDecisions
<1>2. TypeOK
  BY <1>1, Payloads, BoundAssumption DEF TypeOK
<1>3. HeldCids = {}
  BY DEF HeldCids, Mes!Held
<1>4. StoreOK
  BY <1>1, <1>2, <1>3 DEF StoreOK, RowOK, TypeOK
<1>5. ThreadsOK /\ MessagesOK
  BY DEF ThreadsOK, MessagesOK, GraphOK, ValueOK, NoGraph, NoValue
<1>. QED
  BY <1>2, <1>4, <1>5 DEF IInv

LEMMA NextPreserves == IInv /\ [Next]_vars => Preserved
<1> SUFFICES ASSUME IInv, [Next]_vars PROVE Preserved
  OBVIOUS
<1>1. ASSUME NEW t \in Thread, Node(t) PROVE Preserved
  <2>1. CASE Submit(t) \/ NoProposal(t)
    <3>1. mem[t].next \in {"submit", "no_proposal"}
      BY <2>1 DEF Submit, NoProposal, AtNode
    <3>. QED
      BY <2>1, <3>1, PostStep
  <2>. QED
    BY <1>1, <2>1, InvestigateStep, GateSteps, CommitSteps, PatchSteps DEF Node
<1>. QED
  BY <1>1, ClaimSteps, HandlerSteps, DeliverStep, ProcessSteps, HumanStep, SweeperSteps,
     Stuttering DEF Next

-----------------------------------------------------------------------------
(* The theorems. *)

\* What carries an approval (a resume, a graph state, a hold request) belongs to
\* a thread a human approved, at every moment, under every fault of the model.
THEOREM Invariance == Spec => []IInv
<1>1. Preserved => IInv'
  BY DEF Preserved
<1>. QED
  BY <1>1, InitInvariant, NextPreserves, PTL DEF Spec

\* Every variable of the gate stays in its type.
THEOREM TypeCorrect == Spec => []TypeOK
<1>1. IInv => TypeOK
  BY DEF IInv
<1>. QED
  BY <1>1, Invariance, PTL

\* Nothing reaches the plant without a human (graph.py, nodes.gate,
\* api main.sweep), whatever fails and whatever comes late.
THEOREM HumanFirst == Spec => []HoldNeedsHuman
<1>1. IInv => HoldNeedsHuman
  <2> SUFFICES ASSUME IInv, NEW c \in Cid, Mes!Held(c)
               PROVE  c \in Existing /\ HumanApproved(row[c].thread)
    BY DEF HoldNeedsHuman
  <2>1. PICK t \in ApprovedThreads : c \in RowsOf[t]
    BY DEF IInv, StoreOK, HoldOK, HeldCids
  <2>. QED
    BY <2>1 DEF ApprovedThreads, RowsOf
<1>. QED
  BY <1>1, Invariance, PTL

\* The failing vehicle is part of every hold (nodes.gate, store.scope_vins).
THEOREM TriggerHeld == Spec => []TriggerAlwaysHeld
<1>1. IInv => TriggerAlwaysHeld
  BY DEF IInv, StoreOK, HoldOK, HeldCids, TriggerAlwaysHeld
<1>. QED
  BY <1>1, Invariance, PTL

\* A row says COMMITTED only when the plant holds it (nodes.commit, nodes.report).
THEOREM CommittedIsHeld == Spec => []CommittedMeansHeld
<1>1. IInv => CommittedMeansHeld
  BY DEF IInv, StoreOK, RowOK, HeldCids, CommittedMeansHeld
<1>. QED
  BY <1>1, Invariance, PTL

\* No step takes a decision back or takes it again (store.decide, sweep_expired,
\* record_outcome).
THEOREM DecisionsAreFinal == Spec => DecisionIsFinal
<1>1. Preserved =>
        \A c \in Cid :
          row[c].decision \notin {"NONE", "PENDING"} => row'[c].decision = row[c].decision
  BY DEF Preserved, DecisionsStay
<1>. QED
  BY <1>1, Invariance, NextPreserves, PTL DEF Spec, DecisionIsFinal

===============================================================================

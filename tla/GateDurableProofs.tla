--------------------------- MODULE GateDurableProofs ---------------------------
(***************************************************************************)
(* One hold for one triage, under every fault of the model: also when a    *)
(* proposal was sent twice and a thread has several rows.                  *)
(*                                                                         *)
(* The argument: a value reaches the gate only over a checkpoint that      *)
(* records the interrupt.  From that checkpoint on the thread's durable    *)
(* state names the one containment it waited for, whatever is lost: what   *)
(* a crash brings back is a state past submit with the same id.  So every  *)
(* commit, retried, continued or applied late, uses that id.               *)
(***************************************************************************)
EXTENDS GateProofs

-----------------------------------------------------------------------------
(* The inductive invariant, next to IInv. *)

\* The nodes that only a thread with a containment id can be at.
Past == {"gate", "commit", "pending", "retry_gate", "report", "END"}
AtThePlant == {"commit", "pending", "retry_gate"}
Decisions == {"APPROVE", "AMEND", "REJECT", "RETRY"}

Driving(t) == phase[t] \in {"live", "leaving"}

\* Which containment thread t has come to wait for, if it is durable.
Names(t, c) == ckpt[t].next \in Past /\ ckpt[t].cid = c

WaitsOK(g) == g.waiting => g.next \in {"gate", "retry_gate"}

DurableOK(t) ==
    \* memory is never behind the checkpoint, nor with another id
    /\ ckpt[t].next \in Past => mem[t].next \in Past /\ mem[t].cid = ckpt[t].cid
    /\ WaitsOK(mem[t]) /\ WaitsOK(ckpt[t])
    \* a decision is only handed to a thread whose wait is durable
    /\ Driving(t) /\ value[t].decision \in Decisions => ckpt[t].next \in Past
    /\ mem[t].next \in AtThePlant => ckpt[t].next \in Past
    \* a thread starts once, before anything else happens to it
    /\ value[t].decision = "START" => phase[t] = "queued" /\ ckpt[t].next = "absent"
    /\ t \notin triaged =>
          /\ mem[t].next = "absent" /\ ckpt[t].next = "absent"
          /\ value[t].decision # "START"

HoldsNamed == \A c \in HeldCids : Names(row[c].thread, c)
LateHoldsNamed == \A r \in late : r.op = "hold" => Names(r.thread, r.cid)

DInv == (\A t \in Thread : DurableOK(t)) /\ HoldsNamed /\ LateHoldsNamed

-----------------------------------------------------------------------------
(* What a step can do to the rows and to the plant. *)

\* The request that the node thread t is at makes.
NodeRequests(t) ==
    {r \in Requests :
        \/ mem[t].next = "submit" /\ r = PostRequest(t, "PROPOSED", mem[t].vins)
        \/ mem[t].next = "no_proposal" /\ r = PostRequest(t, "ESCALATED", {})
        \/ mem[t].next = "commit" /\ r = HoldRequest(t)
        \/ mem[t].next = "pending" /\ r = PatchRequest(t, "COMMIT_PENDING", FALSE)
        \/ mem[t].next = "report" /\ r = PatchRequest(t, mem[t].outcome, TRUE)}

InFlight == late \cup UNION {NodeRequests(t) : t \in Thread}

\* The requests that may outlive their callers.
GivenUp == late \cup {r \in InFlight : r.op \in LateCalls}

Decided ==
    \E c \in Cid, action \in {"APPROVE", "AMEND", "REJECT"}, vins \in SUBSET Vin :
        Decide(c, action, vins)

StoreSteps ==
    \/ UNCHANGED <<row, hold>>
    \/ \E r \in InFlight : Apply(r)
    \/ Decided /\ UNCHANGED hold
    \/ (\E due \in SUBSET Cid : SweepExpired(due)) /\ UNCHANGED hold

LEMMA InFlightOK ==
    ASSUME IInv, NEW r \in InFlight
    PROVE  r \in Requests /\ RequestOK(r)
<1>1. CASE r \in late
  BY <1>1 DEF IInv, TypeOK, MessagesOK
<1>2. ASSUME NEW t \in Thread, r \in NodeRequests(t)
      PROVE  r \in Requests /\ RequestOK(r)
  <2>1. GraphOK(t, mem[t])
    BY DEF IInv, ThreadsOK
  <2>. QED
    BY <1>2, <2>1
       DEF NodeRequests, RequestOK, GraphOK, PostRequest, PatchRequest, HoldRequest, PatchStates
<1>. QED
  BY <1>1, <1>2 DEF InFlight

\* A call that nobody answers is one that the node makes, at once or late.
LEMMA UnansweredCall ==
    ASSUME NEW t \in Thread, NEW r \in NodeRequests(t), Unanswered(r)
    PROVE  StoreSteps /\ late' \subseteq GivenUp
BY DEF Unanswered, StoreSteps, InFlight, GivenUp

LEMMA StepsOfTheStore ==
    ASSUME IInv, [Next]_vars
    PROVE  StoreSteps /\ late' \subseteq GivenUp
<1> USE DEF IInv
<1>1. ASSUME NEW t \in Thread, Submit(t) \/ NoProposal(t)
      PROVE  StoreSteps /\ late' \subseteq GivenUp
  <2>1. PICK state \in {"PROPOSED", "ESCALATED"}, vins \in SUBSET Vin, next \in {"gate", "report"} :
           Post(t, state, vins, next) /\ PostRequest(t, state, vins) \in NodeRequests(t)
    BY <1>1, RequestTypes
       DEF Submit, NoProposal, AtNode, NodeRequests, TypeOK, GraphStates, RowStates
  <2>2. CASE UNCHANGED <<row, hold, late>>
    BY <2>2 DEF StoreSteps, GivenUp
  <2>3. CASE Unanswered(PostRequest(t, state, vins))
    BY <2>1, <2>3, UnansweredCall
  <2>4. CASE (\E c \in Cid : Propose(c, t, state, vins)) /\ UNCHANGED <<hold, late>>
    <3>1. Apply(PostRequest(t, state, vins))
      BY <2>4 DEF Apply, PostRequest
    <3>. QED
      BY <2>1, <2>4, <3>1 DEF StoreSteps, InFlight, GivenUp
  <2>. QED
    BY <2>1, <2>2, <2>3, <2>4 DEF Post
<1>2. ASSUME NEW t \in Thread, Pending(t) \/ Report(t)
      PROVE  StoreSteps /\ late' \subseteq GivenUp
  <2>1. mem[t].next = "report" => mem[t].outcome \in PatchStates
    BY DEF ThreadsOK, GraphOK
  <2>2. PICK state \in PatchStates, final \in BOOLEAN, next \in {"retry_gate", "END"} :
           Patch(t, state, final, next) /\ PatchRequest(t, state, final) \in NodeRequests(t)
    BY <1>2, <2>1, RequestTypes
       DEF Pending, Report, AtNode, NodeRequests, PatchStates, RowStates
  <2>3. CASE Unanswered(PatchRequest(t, state, final))
    BY <2>2, <2>3, UnansweredCall
  <2>4. CASE RecordOutcome(mem[t].cid, state, final) /\ UNCHANGED <<hold, late>>
    <3>1. Apply(PatchRequest(t, state, final))
      BY <2>4 DEF Apply, PatchRequest
    <3>. QED
      BY <2>2, <2>4, <3>1 DEF StoreSteps, InFlight, GivenUp
  <2>. QED
    BY <2>2, <2>3, <2>4 DEF Patch
<1>3. ASSUME NEW t \in Thread, CommitAttempt(t)
      PROVE  StoreSteps /\ late' \subseteq GivenUp
  <2>1. HoldRequest(t) \in NodeRequests(t)
    BY <1>3, RequestTypes DEF CommitAttempt, AtNode, NodeRequests
  <2>2. CASE UNCHANGED <<row, hold, late>>
    BY <2>2 DEF StoreSteps, GivenUp
  <2>3. CASE Unanswered(HoldRequest(t))
    BY <2>1, <2>3, UnansweredCall
  <2>4. CASE Mes!CreateOrReplay(mem[t].cid, mem[t].vins) /\ UNCHANGED <<row, late>>
    <3>1. Apply(HoldRequest(t))
      BY <2>4 DEF Apply, HoldRequest, Mes!Conflict, Mes!CreateOrReplay
    <3>. QED
      BY <2>1, <2>4, <3>1 DEF StoreSteps, InFlight, GivenUp
  <2>. QED
    BY <1>3, <2>2, <2>3, <2>4 DEF CommitAttempt
<1>4. ASSUME NEW t \in Thread,
             \/ Triage(t) \/ Begin(t) \/ Persist(t) \/ Release(t)
             \/ Investigate(t) \/ Interrupt(t) \/ Gate(t) \/ RetryGate(t)
             \/ CommitExhausted(t) \/ CommitRefused(t)
      PROVE  StoreSteps /\ late' \subseteq GivenUp
  BY <1>4 DEF Triage, Begin, Persist, Release, Investigate, Interrupt, Gate, RetryGate,
              CommitExhausted, CommitRefused, StoreSteps, GivenUp
<1>5. ASSUME NEW m \in wake, ResumeHandler(m)
      PROVE  StoreSteps /\ late' \subseteq GivenUp
  BY <1>5 DEF ResumeHandler, Snapshot, Claim, Refuse, LoseWake, StoreSteps, GivenUp
<1>6. ASSUME NEW r \in late, Deliver(r)
      PROVE  StoreSteps /\ late' \subseteq GivenUp
  BY <1>6 DEF Deliver, StoreSteps, InFlight, GivenUp
<1>7. CASE Crash \/ Restart \/ SweepResend \/ UNCHANGED vars
  BY <1>7 DEF Crash, Restart, SweepResend, vars, StoreSteps, GivenUp
<1>8. ASSUME NEW c \in Cid, NEW action \in {"APPROVE", "AMEND", "REJECT"}, HumanDecision(c, action)
      PROVE  StoreSteps /\ late' \subseteq GivenUp
  BY <1>8 DEF HumanDecision, Decided, StoreSteps, GivenUp
<1>9. ASSUME NEW due \in SUBSET Cid, SweepExpire(due)
      PROVE  StoreSteps /\ late' \subseteq GivenUp
  BY <1>9 DEF SweepExpire, StoreSteps, GivenUp
<1>. QED
  BY <1>1, <1>2, <1>3, <1>4, <1>5, <1>6, <1>7, <1>8, <1>9 DEF Next, Node

\* No row is deleted or changes hands, no decision is taken back, and only an
\* amendment changes what a row covers.
Kept ==
    \A c \in Cid : row[c].state # "ABSENT" =>
        /\ row'[c].state # "ABSENT"
        /\ row'[c].thread = row[c].thread
        /\ row[c].decision \notin {"NONE", "PENDING"} =>
              row'[c].decision = row[c].decision /\ row'[c].vins = row[c].vins
        /\ row'[c].decision # "AMEND" => row'[c].vins = row[c].vins

\* What the plant newly holds is what a hold request in flight names.
HoldsRequested ==
    \A c \in Cid :
        \/ hold'[c] = hold[c]
        \/ \E r \in InFlight : r.op = "hold" /\ r.cid = c /\ hold[c] = {} /\ hold'[c] = r.vins

LEMMA RowsAreKept ==
    ASSUME IInv, StoreSteps
    PROVE  Kept /\ HoldsRequested
<1>0. row \in [Cid -> Rows] /\ hold \in [Cid -> SUBSET Vin] /\ \A c \in Cid : RowOK(c)
  BY DEF IInv, StoreOK
<1>1. CASE UNCHANGED <<row, hold>>
  BY <1>1 DEF Kept, HoldsRequested
<1>2. ASSUME NEW c \in Cid, NEW t \in Thread, NEW state \in RowStates, NEW vins \in SUBSET Vin,
             Propose(c, t, state, vins)
      PROVE  Kept
  BY <1>0, <1>2 DEF Propose, Kept
<1>3. ASSUME NEW c \in Cid, NEW state \in PatchStates, NEW final \in BOOLEAN,
             RecordOutcome(c, state, final)
      PROVE  Kept
  <2>1. \A d \in Cid \ {c} : row'[d] = row[d]
    BY <1>0, <1>3 DEF RecordOutcome
  <2>2. row'[c].state = state /\ row'[c].thread = row[c].thread
        /\ row'[c].decision = row[c].decision /\ row'[c].vins = row[c].vins
    BY <1>0, <1>3 DEF RecordOutcome, Rows
  <2>. QED
    BY <2>1, <2>2 DEF Kept, PatchStates
<1>4. ASSUME NEW c \in Cid, NEW action \in {"APPROVE", "AMEND", "REJECT"},
             NEW vins \in SUBSET Vin, Decide(c, action, vins)
      PROVE  Kept
  <2>1. \A d \in Cid \ {c} : row'[d] = row[d]
    BY <1>0, <1>4 DEF Decide
  <2>2. /\ row[c].decision = "PENDING"
        /\ action # "AMEND" => vins = row[c].vins
    BY <1>0, <1>4 DEF Decide, Decidable, RowOK
  <2>3. /\ row'[c].state \in {"APPROVED", "AMENDED", "REJECTED"}
        /\ row'[c].thread = row[c].thread
        /\ row'[c].decision = action /\ row'[c].vins = vins
    BY <1>0, <1>4 DEF Decide, Rows
  <2>. QED
    BY <2>1, <2>2, <2>3 DEF Kept
<1>5. ASSUME NEW due \in SUBSET Cid, SweepExpired(due)
      PROVE  Kept
  <2>1. \A c \in due : row[c].decision = "PENDING"
    BY <1>0, <1>5 DEF SweepExpired, Decidable, RowOK
  <2>2. \A c \in due : row'[c].state = "EXPIRED" /\ row'[c].thread = row[c].thread
                       /\ row'[c].vins = row[c].vins
    BY <1>0, <1>5 DEF SweepExpired, Rows
  <2>3. \A c \in Cid \ due : row'[c] = row[c]
    BY <1>5 DEF SweepExpired
  <2>. QED
    BY <2>1, <2>2, <2>3 DEF Kept
<1>6. ASSUME NEW r \in InFlight, Apply(r)
      PROVE  Kept /\ HoldsRequested
  <2>0. r \in Requests /\ RequestOK(r)
    BY InFlightOK
  <2>1. CASE r.op = "post" /\ (\E c \in Cid : Propose(c, r.thread, r.state, r.vins)) /\ UNCHANGED hold
    BY <1>2, <2>0, <2>1 DEF Requests, HoldsRequested
  <2>2. CASE r.op = "patch" /\ RecordOutcome(r.cid, r.state, r.final) /\ UNCHANGED hold
    <3>1. r.cid \in Cid /\ r.state \in PatchStates /\ r.final \in BOOLEAN
      BY <2>0, <2>2 DEF Requests, RequestOK, RowsOf, Existing
    <3>. QED
      BY <1>3, <2>2, <3>1 DEF HoldsRequested
  <2>3. CASE r.op = "hold" /\ row' = row /\ Mes!CreateOrReplay(r.cid, r.vins)
    BY <1>0, <2>3 DEF Kept, HoldsRequested, Mes!CreateOrReplay
  <2>4. CASE r.op = "hold" /\ row' = row /\ UNCHANGED hold
    BY <2>4 DEF Kept, HoldsRequested
  <2>5. CASE r.op = "post"
    BY <1>6, <2>1, <2>5 DEF Apply
  <2>6. CASE r.op = "patch"
    BY <1>6, <2>2, <2>6 DEF Apply
  <2>7. CASE r.op = "hold"
    BY <1>6, <2>3, <2>4, <2>7 DEF Apply
  <2>. QED
    BY <2>0, <2>5, <2>6, <2>7 DEF Requests
<1>7. UNCHANGED hold => HoldsRequested
  BY DEF HoldsRequested
<1>. QED
  BY <1>1, <1>4, <1>5, <1>6, <1>7 DEF StoreSteps, Decided

-----------------------------------------------------------------------------
(* What a step can do to the threads. *)

DurableStays ==
    \A t \in Thread :
        ckpt[t].next \in Past => ckpt'[t].next \in Past /\ ckpt'[t].cid = ckpt[t].cid

Durable == (\A t \in Thread : DurableOK(t)') /\ DurableStays

LEMMA OneThreadMoves ==
    ASSUME DInv, NEW t \in Thread,
           \A u \in Thread \ {t} :
              /\ mem'[u] = mem[u] /\ ckpt'[u] = ckpt[u]
              /\ value'[u] = value[u] /\ phase'[u] = phase[u]
              /\ u \in triaged <=> u \in triaged',
           DurableOK(t)',
           ckpt[t].next \in Past => ckpt'[t].next \in Past /\ ckpt'[t].cid = ckpt[t].cid
    PROVE  Durable
BY DEF DInv, Durable, DurableOK, DurableStays, Driving

LEMMA NoThreadMoves ==
    ASSUME DInv, UNCHANGED agentVars
    PROVE  Durable
BY DEF DInv, Durable, DurableOK, DurableStays, Driving, agentVars

\* A node that returns s without an answer of its own from the checkpointer.
LEMMA ReturnMoves ==
    ASSUME IInv, DInv, NEW t \in Thread, NEW s \in GraphStates,
           Return(t, s), UNCHANGED ckpt,
           mem[t].next # "absent", WaitsOK(s),
           ckpt[t].next \in Past => s.next \in Past /\ s.cid = ckpt[t].cid,
           s.next \in AtThePlant => ckpt[t].next \in Past
    PROVE  Durable
<1>1. mem'[t] = s /\ value'[t] = NoValue /\ triaged' = triaged
  BY DEF IInv, TypeOK, Return
<1>2. DurableOK(t)
  BY DEF DInv
<1>3. DurableOK(t)'
  BY <1>1, <1>2 DEF DurableOK, WaitsOK, NoValue, Decisions
<1>. QED
  BY <1>3, OneThreadMoves DEF IInv, TypeOK, Return

\* A node that raises.
LEMMA RaiseMoves ==
    ASSUME IInv, DInv, NEW t \in Thread, phase[t] = "live", Raise(t)
    PROVE  Durable
<1>1. phase'[t] = "leaving" /\ UNCHANGED <<ckpt, mem, value, triaged>>
  BY DEF IInv, TypeOK, Raise
<1>2. DurableOK(t)
  BY DEF DInv
<1>3. DurableOK(t)'
  BY <1>1, <1>2 DEF DurableOK, WaitsOK, Driving
<1>. QED
  BY <1>1, <1>3, OneThreadMoves DEF IInv, TypeOK, Raise

\* The claims: a thread starts from nothing, a value is kept for a wait.
LEMMA ClaimsMove ==
    ASSUME IInv, DInv, NEW t \in Thread, Triage(t) \/ Begin(t) \/ Persist(t) \/ Release(t)
    PROVE  Durable
<1> USE DEF IInv, TypeOK
<1>0. DurableOK(t)
  BY DEF DInv
<1>1. CASE Triage(t)
  <2>1. /\ value'[t].decision = "START" /\ phase'[t] = "queued" /\ t \in triaged'
        /\ UNCHANGED <<mem, ckpt>> /\ t \notin triaged
    BY <1>1 DEF Triage, Start
  <2>2. DurableOK(t)'
    BY <1>0, <2>1 DEF DurableOK, WaitsOK, Driving, Past, AtThePlant
  <2>. QED
    BY <1>1, <2>1, <2>2, OneThreadMoves DEF Triage, Start
<1>2. CASE Begin(t)
  <2>1. /\ phase[t] = "queued" /\ phase'[t] \in {"live", "leaving"}
        /\ UNCHANGED <<ckpt, triaged>>
    BY <1>2 DEF Begin
  <2>2. CASE value[t].decision = "START"
    <3>1. ckpt[t].next = "absent" /\ ~ckpt[t].waiting /\ t \in triaged
      BY <1>0, <2>2 DEF DurableOK, WaitsOK, GraphStates
    <3>2. /\ mem'[t].next = "investigate" /\ mem'[t].waiting = ckpt[t].waiting
          /\ value'[t] = NoValue
      BY <1>2, <2>2, <3>1 DEF Begin, GraphStates
    <3>3. DurableOK(t)'
      BY <1>0, <2>1, <3>1, <3>2 DEF DurableOK, WaitsOK, NoValue, Decisions, Past, AtThePlant
    <3>. QED
      BY <1>2, <2>1, <3>3, OneThreadMoves DEF Begin
  <2>3. CASE value[t].decision # "START"
    <3>1. /\ mem'[t] = ckpt[t]
          /\ value'[t] = NoValue \/ (value'[t] = value[t] /\ ckpt[t].waiting)
      BY <1>2, <2>3 DEF Begin
    <3>2. ckpt[t].waiting => ckpt[t].next \in Past
      BY <1>0 DEF DurableOK, WaitsOK, Past
    <3>3. /\ value'[t].decision \in Decisions => ckpt[t].next \in Past
          /\ value'[t].decision # "START"
      BY <2>3, <3>1, <3>2 DEF NoValue, Decisions
    <3>4. DurableOK(t)'
      BY <1>0, <2>1, <3>1, <3>2, <3>3 DEF DurableOK, WaitsOK, Past, AtThePlant
    <3>. QED
      BY <1>2, <2>1, <3>4, OneThreadMoves DEF Begin
  <2>. QED
    BY <2>2, <2>3
<1>3. CASE Persist(t)
  <2>1. /\ ckpt'[t] = mem[t] /\ UNCHANGED <<mem, phase, value, triaged>> /\ phase[t] = "live"
    BY <1>3 DEF Persist
  <2>2. DurableOK(t)'
    BY <1>0, <2>1 DEF DurableOK, WaitsOK, Driving, Past, AtThePlant
  <2>. QED
    BY <1>0, <1>3, <2>1, <2>2, OneThreadMoves DEF Persist, DurableOK
<1>4. CASE Release(t)
  <2>1. /\ ckpt'[t] = mem[t] /\ phase'[t] = "idle" /\ value'[t] = NoValue
        /\ UNCHANGED <<mem, triaged>>
    BY <1>4 DEF Release
  <2>2. DurableOK(t)'
    BY <1>0, <2>1 DEF DurableOK, WaitsOK, Driving, NoValue, Past, AtThePlant
  <2>. QED
    BY <1>0, <1>4, <2>1, <2>2, OneThreadMoves DEF Release, DurableOK
<1>. QED
  BY <1>1, <1>2, <1>3, <1>4

\* The handler claims a thread with a decision, or to continue it; never to start it.
LEMMA HandlerMoves ==
    ASSUME IInv, DInv, NEW m \in wake, ResumeHandler(m)
    PROVE  Durable
<1>1. CASE Snapshot(m) \/ Refuse(m) \/ LoseWake(m)
  BY <1>1, NoThreadMoves DEF Snapshot, Refuse, LoseWake
<1>2. CASE Claim(m)
  <2>1. m.thread \in Thread /\ m.decision # "START"
    BY DEF IInv, TypeOK, Wakes
  <2> DEFINE v == [decision |-> IF m.mode = "value" THEN m.decision ELSE "CONTINUE",
                   vins     |-> IF m.mode = "value" THEN m.vins ELSE {}]
  <2>2. /\ phase' = [phase EXCEPT ![m.thread] = "queued"]
        /\ value' = [value EXCEPT ![m.thread] = v]
        /\ v.decision \in {m.decision, "CONTINUE"}
        /\ UNCHANGED <<mem, ckpt, triaged>>
    BY <1>2 DEF Claim, Start
  <2> HIDE DEF v
  <2>3. phase'[m.thread] = "queued" /\ value'[m.thread].decision # "START"
    BY <2>1, <2>2 DEF IInv, TypeOK
  <2>4. DurableOK(m.thread)'
    BY <2>1, <2>2, <2>3 DEF DInv, DurableOK, Driving, WaitsOK
  <2>. QED
    BY <2>1, <2>2, <2>4, OneThreadMoves DEF IInv, TypeOK
<1>. QED
  BY <1>1, <1>2 DEF ResumeHandler

\* The nodes before the gate: nothing durable names a containment yet.
LEMMA EarlyNodesMove ==
    ASSUME IInv, DInv, NEW t \in Thread, Investigate(t) \/ Submit(t) \/ NoProposal(t)
    PROVE  Durable
<1> USE DEF IInv, TypeOK
<1>0. /\ DurableOK(t) /\ mem[t] \in GraphStates /\ phase[t] = "live"
      /\ mem[t].next \in {"investigate", "submit", "no_proposal"}
  BY DEF DInv, Investigate, Submit, NoProposal, AtNode
<1>1. ~mem[t].waiting /\ ckpt[t].next \notin Past /\ t \in triaged
  BY <1>0 DEF DurableOK, WaitsOK, Past
<1>2. ASSUME NEW s \in GraphStates, Return(t, s), ~s.waiting, s.next \notin AtThePlant,
             UNCHANGED ckpt
      PROVE  Durable
  BY <1>0, <1>1, <1>2, ReturnMoves DEF WaitsOK
<1>3. ASSUME NEW S \in ProposedScopes, UNCHANGED ckpt,
             Return(t, [mem[t] EXCEPT !.next = "submit", !.vins = S])
      PROVE  Durable
  <2> DEFINE s == [mem[t] EXCEPT !.next = "submit", !.vins = S]
  <2>1. s \in GraphStates /\ ~s.waiting /\ s.next \notin AtThePlant
    BY <1>0, <1>1, ScopeAssumption DEF GraphStates, Nodes, AtThePlant
  <2>. QED
    BY <1>2, <1>3, <2>1
<1>4. ASSUME Return(t, [mem[t] EXCEPT !.next = "no_proposal"]), UNCHANGED ckpt
      PROVE  Durable
  <2> DEFINE s == [mem[t] EXCEPT !.next = "no_proposal"]
  <2>1. s \in GraphStates /\ ~s.waiting /\ s.next \notin AtThePlant
    BY <1>0, <1>1 DEF GraphStates, Nodes, AtThePlant
  <2>. QED
    BY <1>2, <1>4, <2>1
<1>5. ASSUME NEW c \in Cid, NEW next \in {"gate", "report"}, NEW state \in {"PROPOSED", "ESCALATED"},
             Return(t, [mem[t] EXCEPT !.next = next, !.cid = c, !.outcome = state]),
             UNCHANGED ckpt
      PROVE  Durable
  <2> DEFINE s == [mem[t] EXCEPT !.next = next, !.cid = c, !.outcome = state]
  <2>1. s \in GraphStates /\ ~s.waiting /\ s.next = next
    BY <1>0, <1>1 DEF GraphStates, Nodes, Outcomes
  <2>2. Return(t, s)
    BY <1>5
  <2> HIDE DEF s
  <2>. QED
    BY <1>2, <1>5, <2>1, <2>2 DEF AtThePlant
<1>6. CASE Raise(t)
  BY <1>0, <1>6, RaiseMoves
<1>. QED
  BY <1>3, <1>4, <1>5, <1>6 DEF Investigate, Submit, NoProposal, Post

\* From the gate on the durable state names the thread's containment.
LEMMA LateNodesMove ==
    ASSUME IInv, DInv, NEW t \in Thread,
           \/ Interrupt(t) \/ Gate(t) \/ RetryGate(t)
           \/ CommitAttempt(t) \/ CommitExhausted(t) \/ CommitRefused(t)
           \/ Pending(t) \/ Report(t)
    PROVE  Durable
<1> USE DEF IInv, TypeOK
<1>0. /\ DurableOK(t) /\ mem[t] \in GraphStates /\ phase[t] = "live"
      /\ mem[t].next \in Past \ {"END"}
  BY DEF DInv, Interrupt, Gate, RetryGate, CommitAttempt, CommitExhausted, CommitRefused,
         Pending, Report, AtNode, Past
<1>1. ckpt[t].next \in Past => mem[t].cid = ckpt[t].cid
  BY <1>0 DEF DurableOK
<1>2. ASSUME NEW s \in GraphStates, Return(t, s), UNCHANGED ckpt, ~s.waiting,
             s.next \in Past, s.cid = mem[t].cid,
             s.next \in AtThePlant => ckpt[t].next \in Past
      PROVE  Durable
  BY <1>0, <1>1, <1>2, ReturnMoves DEF WaitsOK, Past
<1>3. CASE Raise(t)
  BY <1>0, <1>3, RaiseMoves
<1>4. CASE Interrupt(t)
  <2>1. mem'[t] = [mem[t] EXCEPT !.waiting = TRUE] /\ mem[t].next \in {"gate", "retry_gate"}
        /\ phase'[t] = "leaving" /\ value[t] = NoValue
        /\ UNCHANGED <<ckpt, value, triaged>>
    BY <1>4 DEF Interrupt, AtNode
  <2>2. mem'[t].next = mem[t].next /\ mem'[t].cid = mem[t].cid
    BY <1>0, <2>1 DEF GraphStates
  <2>3. DurableOK(t)'
    BY <1>0, <2>1, <2>2 DEF DurableOK, WaitsOK, Driving, NoValue, Decisions, Past, AtThePlant
  <2>. QED
    BY <1>4, <2>1, <2>3, OneThreadMoves DEF Interrupt
<1>5. CASE Gate(t)
  <2> DEFINE passed == [mem[t] EXCEPT !.waiting = FALSE, !.vins = BoundsAfterGate(t)]
  <2>1. passed \in GraphStates /\ passed.cid = mem[t].cid /\ ~passed.waiting
    <3>1. BoundsAfterGate(t) \in SUBSET Vin
      BY <1>0, ScopeAssumption DEF BoundsAfterGate, WithTrigger, Values, GraphStates
    <3>. QED
      BY <1>0, <3>1 DEF GraphStates
  <2> HIDE DEF passed
  <2>2. ASSUME Return(t, [passed EXCEPT !.next = "report", !.outcome = "REJECTED"])
        PROVE  Durable
    <3> DEFINE s == [passed EXCEPT !.next = "report", !.outcome = "REJECTED"]
    <3>1. s \in GraphStates /\ s.next = "report" /\ s.cid = mem[t].cid /\ ~s.waiting
      BY <2>1 DEF GraphStates, Nodes, Outcomes
    <3>2. Return(t, s) /\ UNCHANGED ckpt
      BY <1>5, <2>2 DEF Gate
    <3> HIDE DEF s
    <3>. QED
      BY <1>2, <3>1, <3>2 DEF Past, AtThePlant
  <2>3. ASSUME value[t].decision \in {"APPROVE", "AMEND"},
               Return(t, [passed EXCEPT !.next = "commit", !.outcome = "PROPOSED"])
        PROVE  Durable
    <3> DEFINE s == [passed EXCEPT !.next = "commit", !.outcome = "PROPOSED"]
    <3>1. s \in GraphStates /\ s.next = "commit" /\ s.cid = mem[t].cid /\ ~s.waiting
      BY <2>1 DEF GraphStates, Nodes, Outcomes
    <3>2. Return(t, s) /\ UNCHANGED ckpt
      BY <1>5, <2>3 DEF Gate
    <3>3. ckpt[t].next \in Past
      BY <1>0, <2>3 DEF DurableOK, Driving, Decisions
    <3> HIDE DEF s
    <3>. QED
      BY <1>2, <3>1, <3>2, <3>3 DEF Past
  <2>. QED
    BY <1>3, <1>5, <2>2, <2>3 DEF Gate, passed
<1>6. ASSUME mem[t].next \in AtThePlant
      PROVE  ckpt[t].next \in Past /\ (mem[t].next # "retry_gate" => ~mem[t].waiting)
  BY <1>0, <1>6 DEF DurableOK, WaitsOK, AtThePlant
<1>7. CASE RetryGate(t)
  <2> DEFINE s == [mem[t] EXCEPT !.waiting = FALSE, !.next = "commit"]
  <2>1. s \in GraphStates /\ s.next = "commit" /\ s.cid = mem[t].cid /\ ~s.waiting
    BY <1>0 DEF GraphStates, Nodes
  <2>2. Return(t, s) /\ UNCHANGED ckpt /\ ckpt[t].next \in Past
    BY <1>6, <1>7 DEF RetryGate, AtNode, AtThePlant
  <2> HIDE DEF s
  <2>. QED
    BY <1>2, <2>1, <2>2 DEF Past
<1>8. CASE CommitAttempt(t) \/ CommitExhausted(t) \/ CommitRefused(t)
  <2>0. mem[t].next = "commit" /\ ckpt[t].next \in Past /\ ~mem[t].waiting /\ UNCHANGED ckpt
    BY <1>6, <1>8 DEF CommitAttempt, CommitExhausted, CommitRefused, AtNode, AtThePlant
  <2>1. ASSUME NEW next \in {"report", "pending"}, NEW outcome \in {"COMMITTED", "COMMIT_PENDING"},
               Return(t, [mem[t] EXCEPT !.next = next, !.outcome = outcome])
        PROVE  Durable
    <3> DEFINE s == [mem[t] EXCEPT !.next = next, !.outcome = outcome]
    <3>1. s \in GraphStates /\ s.next = next /\ s.cid = mem[t].cid /\ ~s.waiting
      BY <1>0, <2>0 DEF GraphStates, Nodes, Outcomes
    <3>2. Return(t, s)
      BY <2>1
    <3> HIDE DEF s
    <3>. QED
      BY <1>2, <2>0, <3>1, <3>2 DEF Past
  <2>2. ASSUME UNCHANGED <<mem, ckpt, phase, value, triaged>>
        PROVE  Durable
    BY <2>2 DEF DInv, Durable, DurableOK, DurableStays, Driving
  <2>. QED
    BY <1>3, <1>8, <2>0, <2>1, <2>2 DEF CommitAttempt, CommitExhausted, CommitRefused, Park
<1>9. CASE Pending(t) \/ Report(t)
  <2>1. PICK state \in RowStates, final \in BOOLEAN, next \in {"retry_gate", "END"} :
           /\ Patch(t, state, final, next)
           /\ next = "retry_gate" => ckpt[t].next \in Past
           /\ mem[t].next \in {"pending", "report"}
    <3>1. mem[t].next = "report" => mem[t].outcome \in RowStates
      BY DEF ThreadsOK, GraphOK, PatchStates, RowStates
    <3>. QED
      BY <1>6, <1>9, <3>1 DEF Pending, Report, AtNode, RowStates, AtThePlant
  <2>2. ASSUME Return(t, [mem[t] EXCEPT !.next = next]), UNCHANGED ckpt
        PROVE  Durable
    <3> DEFINE s == [mem[t] EXCEPT !.next = next]
    <3>1. s \in GraphStates /\ s.next = next /\ s.cid = mem[t].cid /\ ~s.waiting
      BY <1>0, <2>1 DEF GraphStates, Nodes, DurableOK, WaitsOK
    <3>2. Return(t, s)
      BY <2>2
    <3> HIDE DEF s
    <3>. QED
      BY <1>2, <2>1, <2>2, <3>1, <3>2 DEF Past, AtThePlant
  <2>. QED
    BY <1>3, <2>1, <2>2 DEF Patch
<1>. QED
  BY <1>4, <1>5, <1>7, <1>8, <1>9

LEMMA ThreadsMove ==
    ASSUME IInv, DInv, [Next]_vars
    PROVE  Durable
<1>1. CASE Crash
  <2>1. /\ \A t \in Thread : mem'[t] = ckpt[t] /\ ckpt'[t] = ckpt[t]
                             /\ phase'[t] = "idle" /\ value'[t] = NoValue
        /\ triaged' = triaged
    BY <1>1 DEF Crash
  <2>. QED
    BY <2>1 DEF DInv, Durable, DurableOK, DurableStays, Driving, NoValue, WaitsOK, Past, AtThePlant
<1>2. CASE Restart
  BY <1>2 DEF Restart, DInv, Durable, DurableOK, DurableStays, Driving
<1>3. ASSUME NEW r \in late, Deliver(r) PROVE Durable
  BY <1>3, NoThreadMoves DEF Deliver
<1>4. ASSUME NEW c \in Cid, NEW action \in {"APPROVE", "AMEND", "REJECT"}, HumanDecision(c, action)
      PROVE  Durable
  BY <1>4, NoThreadMoves DEF HumanDecision
<1>5. ASSUME NEW due \in SUBSET Cid, SweepExpire(due) PROVE Durable
  BY <1>5, NoThreadMoves DEF SweepExpire
<1>6. CASE SweepResend \/ UNCHANGED vars
  BY <1>6, NoThreadMoves DEF SweepResend, vars
<1>. QED
  BY <1>1, <1>2, <1>3, <1>4, <1>5, <1>6, ClaimsMove, HandlerMoves, EarlyNodesMove, LateNodesMove
     DEF Next, Node

-----------------------------------------------------------------------------
(* One hold. *)

LEMMA InitDurable == Init => DInv
<1> SUFFICES ASSUME Init PROVE DInv
  OBVIOUS
<1>1. \A t \in Thread : DurableOK(t)
  BY DEF Init, DurableOK, WaitsOK, Driving, NoGraph, NoValue, Past, AtThePlant, Decisions
<1>2. HeldCids = {} /\ late = {}
  BY DEF Init, Mes!HoldInit, HeldCids, Mes!Held
<1>. QED
  BY <1>1, <1>2 DEF DInv, HoldsNamed, LateHoldsNamed

\* A hold request names what its thread waits for.
LEMMA RequestsNamed ==
    ASSUME IInv, DInv, NEW r \in InFlight, r.op = "hold"
    PROVE  r.thread \in Thread /\ Names(r.thread, r.cid) /\ r.cid \in RowsOf[r.thread]
<1>1. r \in Requests /\ RequestOK(r)
  BY InFlightOK
<1>2. CASE r \in late
  BY <1>1, <1>2 DEF DInv, LateHoldsNamed, Requests, RequestOK
<1>3. ASSUME NEW t \in Thread, r \in NodeRequests(t)
      PROVE  Names(r.thread, r.cid)
  <2>1. mem[t].next = "commit" /\ r = HoldRequest(t)
    BY <1>3 DEF NodeRequests, PostRequest, PatchRequest
  <2>2. ckpt[t].next \in Past /\ ckpt[t].cid = mem[t].cid
    BY <2>1 DEF DInv, DurableOK, AtThePlant
  <2>. QED
    BY <2>1, <2>2 DEF Names, HoldRequest
<1>. QED
  BY <1>1, <1>2, <1>3 DEF InFlight, Requests, RequestOK

LEMMA NextDurable ==
    ASSUME IInv, DInv, [Next]_vars
    PROVE  DInv'
<1>1. Durable
  BY ThreadsMove
<1>2. Kept /\ HoldsRequested /\ late' \subseteq GivenUp
  BY StepsOfTheStore, RowsAreKept
<1>3. \A t \in Thread, c \in Cid : Names(t, c) => Names(t, c)'
  BY <1>1 DEF Durable, DurableStays, Names
<1>4. HoldsNamed'
  <2> SUFFICES ASSUME NEW c \in Cid, hold'[c] # {}
               PROVE  Names(row[c].thread, c)'
    BY DEF HoldsNamed, HeldCids, Mes!Held
  <2>1. CASE hold[c] # {}
    <3>1. c \in HeldCids
      BY <2>1 DEF HeldCids, Mes!Held
    <3>2. PICK t \in ApprovedThreads : c \in RowsOf[t]
      BY <3>1 DEF IInv, StoreOK, HoldOK
    <3>3. t \in Thread /\ row[c].state # "ABSENT" /\ row[c].thread = t
      BY <3>2 DEF ApprovedThreads, RowsOf, Existing
    <3>4. Names(t, c) /\ row'[c].thread = t
      BY <1>2, <3>1, <3>3 DEF DInv, HoldsNamed, Kept
    <3>. QED
      BY <1>3, <3>3, <3>4
  <2>2. CASE hold[c] = {}
    <3>1. PICK r \in InFlight : r.op = "hold" /\ r.cid = c
      BY <1>2, <2>2 DEF HoldsRequested
    <3>2. r.thread \in Thread /\ Names(r.thread, c) /\ c \in RowsOf[r.thread]
      BY <3>1, RequestsNamed
    <3>3. row'[c].thread = r.thread
      BY <1>2, <3>2 DEF RowsOf, Existing, Kept
    <3>. QED
      BY <1>3, <3>2, <3>3
  <2>. QED
    BY <2>1, <2>2
<1>5. LateHoldsNamed'
  <2> SUFFICES ASSUME NEW r \in late', r.op = "hold"
               PROVE  Names(r.thread, r.cid)'
    BY DEF LateHoldsNamed
  <2>1. r \in InFlight
    BY <1>2 DEF InFlight, GivenUp
  <2>2. r.thread \in Thread /\ r.cid \in Cid /\ Names(r.thread, r.cid)
    BY <2>1, RequestsNamed DEF RowsOf, Existing
  <2>. QED
    BY <1>3, <2>2
<1>. QED
  BY <1>1, <1>4, <1>5 DEF DInv, Durable

\* A row is new only for a thread whose checkpoint is before the proposal.
LEMMA InsertsEarly ==
    ASSUME IInv, DInv, [Next]_vars,
           NEW c \in Cid, row[c].state = "ABSENT", row'[c].state # "ABSENT"
    PROVE  \/ ckpt[row'[c].thread].next \notin Proposed
           \/ \E r \in late : r.op = "post" /\ r.thread = row'[c].thread
<1>0. row \in [Cid -> Rows] /\ StoreSteps
  BY StepsOfTheStore DEF IInv, StoreOK
<1>1. PICK r \in InFlight : Apply(r) /\ r.op = "post"
  <2>1. ASSUME NEW r \in InFlight, Apply(r), r.op # "post" PROVE FALSE
    <3>1. r \in Requests /\ RequestOK(r)
      BY InFlightOK
    <3>2. CASE r.op = "hold"
      BY <2>1, <3>2 DEF Apply
    <3>3. CASE r.op = "patch"
      <4>1. r.cid \in Cid /\ row[r.cid].state # "ABSENT" /\ RecordOutcome(r.cid, r.state, r.final)
        BY <2>1, <3>1, <3>3 DEF RequestOK, Requests, RowsOf, Existing, Apply
      <4>. QED
        BY <1>0, <4>1 DEF RecordOutcome
    <3>. QED
      BY <2>1, <3>1, <3>2, <3>3 DEF Requests
  <2>2. ~Decided /\ ~\E due \in SUBSET Cid : SweepExpired(due)
    BY <1>0 DEF Decided, Decide, SweepExpired, Decidable
  <2>. QED
    BY <1>0, <2>1, <2>2 DEF StoreSteps
<1>2. row'[c].thread = r.thread
  <2>1. PICK d \in Cid : Propose(d, r.thread, r.state, r.vins)
    BY <1>1 DEF Apply
  <2>. QED
    BY <1>0, <2>1 DEF Propose
<1>3. ASSUME NEW t \in Thread, r \in NodeRequests(t)
      PROVE  r.thread = t /\ ckpt[t].next \notin Proposed
  <2>1. mem[t].next \in {"submit", "no_proposal"} /\ r.thread = t
    BY <1>1, <1>3 DEF NodeRequests, PostRequest, PatchRequest, HoldRequest
  <2>. QED
    BY <2>1 DEF DInv, DurableOK, Past, Proposed
<1>. QED
  BY <1>1, <1>2, <1>3 DEF InFlight

\* The durable state of a thread names the one containment it may ever hold.
THEOREM DurableInvariance == Spec => [](IInv /\ DInv)
<1>1. Preserved => IInv'
  BY DEF Preserved
<1>2. IInv /\ DInv /\ [Next]_vars => DInv'
  BY NextDurable
<1>. QED
  BY <1>1, <1>2, InitInvariant, InitDurable, NextPreserves, PTL DEF Spec

\* A triage whose proposal is on record never proposes again, unless a request
\* its caller had given up arrives (nodes.submit, graph.py).
THEOREM ProposedOnce == Spec => ProposesOnce
<1>1. IInv /\ DInv /\ [Next]_vars =>
        \A c \in Cid :
          row[c].state = "ABSENT" /\ row'[c].state # "ABSENT" =>
             \/ ckpt[row'[c].thread].next \notin Proposed
             \/ \E r \in late : r.op = "post" /\ r.thread = row'[c].thread
  BY InsertsEarly
<1>. QED
  BY <1>1, DurableInvariance, PTL DEF Spec, ProposesOnce

\* The plant never gets two holds for one triage (nodes.commit, graph.py): also
\* when the triage was proposed twice and both proposals were approved.
THEOREM HeldOnce == Spec => []OneHoldPerThread
<1>1. IInv /\ DInv => OneHoldPerThread
  <2> SUFFICES ASSUME DInv, NEW c \in Existing, NEW d \in Existing,
                      Mes!Held(c), Mes!Held(d), row[c].thread = row[d].thread
               PROVE  c = d
    BY DEF OneHoldPerThread
  <2>1. c \in HeldCids /\ d \in HeldCids
    BY DEF Existing, HeldCids
  <2>2. Names(row[c].thread, c) /\ Names(row[c].thread, d)
    BY <2>1 DEF DInv, HoldsNamed
  <2>. QED
    BY <2>2 DEF Names
<1>. QED
  BY <1>1, DurableInvariance, PTL

===============================================================================

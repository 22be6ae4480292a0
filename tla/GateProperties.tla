---------------------------- MODULE GateProperties ----------------------------
(***************************************************************************)
(* What GateSystem must guarantee.  Every safety property is required      *)
(* under every fault the model has.  A triage whose proposal got no answer *)
(* may propose again and have two containments: the properties that relate *)
(* a hold to its own row speak of a containment as long as it is its       *)
(* triage's only one.  The liveness properties are required when           *)
(* checkpoints are durable before the next node starts (~AsyncCheckpoints) *)
(* and no PATCH is applied late.  The last group states what the           *)
(* documentation says and the code does not do.                            *)
(***************************************************************************)
EXTENDS GateSystem

TypeOK ==
    /\ row \in [Cid -> Rows]
    /\ hold \in [Cid -> SUBSET Vin]
    /\ ckpt \in [Thread -> GraphStates]
    /\ mem \in [Thread -> GraphStates]
    /\ phase \in [Thread -> {"idle", "queued", "live", "leaving"}]
    /\ value \in [Thread -> Values]
    /\ attempts \in [Thread -> 0..ATTEMPTS]
    /\ triaged \subseteq Thread
    /\ up \in BOOLEAN
    /\ wake \subseteq Wakes
    /\ late \subseteq Requests
    /\ faults \in 0..MaxFaults

Existing == {c \in Cid : row[c].state # "ABSENT"}
Approved(c) == row[c].decision \in {"APPROVE", "AMEND"}
Refused(c) == row[c].decision \in {"REJECT", "EXPIRED"}

\* A human has approved, or approved with amendments, a proposal of thread t.
HumanApproved(t) == \E c \in Existing : row[c].thread = t /\ Approved(c)

-----------------------------------------------------------------------------
(* Under every fault. *)

\* Nothing reaches the plant without a human: whatever is lost, repeated or
\* restarted, a hold exists only for a containment whose thread a human
\* approved (ADR-003: commit is reachable only through a human decision;
\* expiry and the sweeper never approve).
HoldNeedsHuman ==
    \A c \in Cid : Mes!Held(c) => c \in Existing /\ HumanApproved(row[c].thread)

\* The plant never gets two holds for one triage, however often commit, submit
\* or the decision is repeated (ADR-012: the hold is created exactly once).
OneHoldPerThread ==
    \A c, d \in Existing :
        Mes!Held(c) /\ Mes!Held(d) /\ row[c].thread = row[d].thread => c = d

\* A row that says COMMITTED is one the plant holds, with its reference
\* recorded: the report follows the plant's answer, never a guess after a
\* timeout (nodes.commit, nodes.report).
CommittedMeansHeld ==
    \A c \in Cid : row[c].state = "COMMITTED" => Mes!Held(c) /\ row[c].mes_ref

\* The plant's hold always includes the failing vehicle, whatever VIN list an
\* amendment carried (store.scope_vins, nodes.gate: never releases it).
TriggerAlwaysHeld == \A c \in Cid : Mes!Held(c) => Trigger \in hold[c]

\* A decision, once taken, is never taken again or changed: a late click, a
\* second approver, the expiry sweep and the agent's report leave it
\* (ADR-008: a second decision is a 409).
DecisionIsFinal ==
    [][\A c \in Cid :
          row[c].decision \notin {"NONE", "PENDING"} => row'[c].decision = row[c].decision]_vars

-----------------------------------------------------------------------------
(* Decision, row and plant. *)

\* c is the only containment of its triage.
OnlyOne(c) == \A d \in Existing : row[d].thread = row[c].thread => d = c

Proposed == {"gate", "commit", "pending", "retry_gate", "report", "END"}

\* A triage whose proposal is on record does not propose again: whatever is
\* resumed, retried or restarted, a new containment comes from a thread whose
\* checkpoint is still before the proposal, or from a request its caller had
\* given up (nodes.submit has no idempotency key; graph.py never goes back).
ProposesOnce ==
    [][\A c \in Cid :
          row[c].state = "ABSENT" /\ row'[c].state # "ABSENT" =>
             \/ ckpt[row'[c].thread].next \notin Proposed
             \/ \E r \in late : r.op = "post" /\ r.thread = row'[c].thread]_vars

\* The plant holds exactly what the human decided for that containment: its
\* own row was approved, and the held vehicles are the row's plus the trigger.
\* Retries, re-sent decisions and restarts never hold an older scope.
HoldIsTheDecision ==
    \A c \in Cid :
        Mes!Held(c) /\ OnlyOne(c) => Approved(c) /\ hold[c] = row[c].vins \cup {Trigger}

\* commit never meets its own key with another body, which would be a 409 on
\* every retry: each attempt of a containment sends the same vehicles.
CommitNeverConflicts ==
    \A t \in Thread :
        mem[t].next = "commit" /\ OnlyOne(mem[t].cid) =>
            ~Mes!Conflict(mem[t].cid, mem[t].vins)

\* The audit row is closed only when plant and verdict agree: a refused
\* containment is not held, an approved one is (ADR-012: the approval must
\* not be lost).
ClosedAgreesWithPlant ==
    \A c \in Cid :
        row[c].reported /\ OnlyOne(c) => (Approved(c) <=> Mes!Held(c))

\* The gate implements its specification.
Verdict == [d \in AuditDecisions |->
              CASE d = "NONE" -> "none"
                [] d = "PENDING" -> "pending"
                [] d \in {"APPROVE", "AMEND"} -> "approved"
                [] d \in {"REJECT", "EXPIRED"} -> "refused"
                [] d = "ESCALATED" -> "abstained"]

Abstract == INSTANCE GateSpec WITH
    triage  <- [c \in Cid |-> row[c].thread],
    verdict <- [c \in Cid |-> Verdict[row[c].decision]],
    held    <- [c \in Cid |-> Mes!Held(c)],
    closed  <- [c \in Cid |-> row[c].reported]

\* Every step of the system is a step of the abstract gate or changes nothing
\* it can see.
ImplementsGate == Abstract!GateSafety

-----------------------------------------------------------------------------
(* Liveness: failures stop (MaxFaults), the fairness of FairSpec. *)

\* c is the containment its thread has on record, and no other was proposed.
Recorded(c) == OnlyOne(c) /\ \E t \in Thread : row[c].thread = t /\ ckpt[t].cid = c

\* An approved containment ends COMMITTED with a hold in the plant, a refused
\* one is closed without: crashes, lost answers, parked commits and refused
\* resumes only delay it (ADR-012; api main.sweep).  Not promised to a
\* containment whose thread never learned its id and proposes again.
DecisionsReachThePlant ==
    \A c \in Cid :
        /\ Approved(c) /\ Recorded(c) ~> [](row[c].state = "COMMITTED" /\ Mes!Held(c))
        /\ Refused(c) /\ Recorded(c) ~> [](row[c].state = "REJECTED" /\ row[c].reported)

Closed(t) == \E c \in Existing : row[c].thread = t /\ row[c].reported

\* No thread waits forever, at the gate or for the plant: the human or the clock
\* decides, the sweeper sees the thread past its interrupt and its audit row
\* is closed (ADR-008; api main.sweep).
WaitingThreadsAreClosed ==
    \A t \in Thread :
        ckpt[t].waiting ~> [](~ckpt[t].waiting /\ Closed(t))

-----------------------------------------------------------------------------
(* What the documentation says and the code does not do. *)

\* A hold exists only for a containment that was itself approved.
HoldIfItselfApproved == \A c \in Cid : Mes!Held(c) => Approved(c)

\* A proposal that expired stays shown as expired.
ExpiredStaysExpired ==
    [][\A c \in Cid : row[c].state = "EXPIRED" => row'[c].state = "EXPIRED"]_vars

\* An approved containment is eventually held.
ApprovalIsNotLost == \A c \in Cid : Approved(c) ~> Mes!Held(c)

===============================================================================

------------------------------ MODULE GateSystem ------------------------------
(***************************************************************************)
(* The approval gate end to end: the agent's graph threads                 *)
(* (services/agent: graph.py, nodes.py, http.py), the api's decisions and  *)
(* sweeper (services/api: main.py) over the rows of ContainmentStore, and  *)
(* the plant's holds of MesHolds.                                          *)
(*                                                                         *)
(* A thread has two copies of its graph state: mem, what the worker that   *)
(* drives it has in memory, and ckpt, what the checkpointer has made       *)
(* durable.  A node's side effect, its update of mem and the checkpoint    *)
(* are separate steps, and the agent process may die between any two.      *)
(*                                                                         *)
(* A call over HTTP is one step with several outcomes: answered; applied   *)
(* but the answer lost; never applied; or applied later, after the caller  *)
(* gave up (it is then in the set late).                                   *)
(***************************************************************************)
EXTENDS ContainmentStore, FiniteSets, Naturals

CONSTANTS
    ATTEMPTS,         \* mes.ATTEMPTS: tries of one post_hold
    WORKERS,          \* http.WORKERS: threads driven at once
    MaxFaults,        \* bound: crashes, failed calls and refusals in a behaviour
    AsyncCheckpoints, \* TRUE: the next node may start before the checkpoint of
                      \* the last one is durable (what invoke() does by default)
    LateCalls         \* the calls that may take effect after their caller gave up

ASSUME BoundAssumption ==
    /\ ATTEMPTS \in Nat \ {0}
    /\ WORKERS \in Nat \ {0}
    /\ MaxFaults \in Nat
ASSUME ModeAssumption ==
    /\ AsyncCheckpoints \in BOOLEAN
    /\ LateCalls \subseteq {"post", "patch", "hold"}

VARIABLES
    hold,     \* the plant's holds (MesHolds)
    ckpt,     \* durable graph state of each thread
    mem,      \* graph state in the process that drives it
    phase,    \* the agent's claim on a thread: queued on the pool, driven, or
              \* done with its last node but not released yet
    value,    \* the payload graph.invoke was given
    attempts, \* attempts made by the commit node that is running
    triaged,  \* threads whose POST /triage was answered 202
    up,       \* the agent process is running
    wake,     \* resume requests between the api and the agent's handler
    late,     \* api and MES requests whose caller gave up
    faults    \* failures so far, at most MaxFaults

Mes == INSTANCE MesHolds

agentVars == <<ckpt, mem, phase, value, attempts, triaged, up>>
vars == <<row, hold, agentVars, wake, late, faults>>

-----------------------------------------------------------------------------
(* Graph state, payloads and requests. *)

\* The read-only nodes intake .. compose are one, "investigate"; bench_alert
\* and escalate, which make the same call, are "no_proposal".
Nodes == {"absent", "investigate", "no_proposal", "submit", "gate", "commit",
          "pending", "retry_gate", "report", "END"}

Outcomes == {"NONE", "PROPOSED", "ESCALATED", "REJECTED", "COMMIT_PENDING",
             "COMMITTED"}

GraphStates == [next    : Nodes,
                waiting : BOOLEAN,       \* an interrupt of next is recorded
                cid     : Cid \cup {None},
                vins    : SUBSET Vin,    \* bounds.vins
                outcome : Outcomes]

NoGraph == [next |-> "absent", waiting |-> FALSE, cid |-> None,
            vins |-> {}, outcome |-> "NONE"]

Values == [decision : {"NONE", "START", "CONTINUE", "APPROVE", "AMEND",
                       "REJECT", "RETRY"},
           vins     : SUBSET Vin]

NoValue == [decision |-> "NONE", vins |-> {}]

\* mode: posted by the api; or the handler saw an interrupt and will supply a
\* value; or it saw a stalled run and will continue it.
Wakes == [thread   : Thread,
          decision : {"APPROVE", "AMEND", "REJECT", "RETRY"},
          vins     : SUBSET Vin,
          mode     : {"posted", "value", "continue"}]

Requests == [op     : {"post", "patch", "hold"},
             thread : Thread,
             cid    : Cid \cup {None},
             state  : RowStates,
             vins   : SUBSET Vin,
             final  : BOOLEAN]  \* carries the latencies that close the audit row

PostRequest(t, state, vins) ==
    [op |-> "post", thread |-> t, cid |-> None, state |-> state,
     vins |-> vins, final |-> FALSE]
PatchRequest(t, state, final) ==
    [op |-> "patch", thread |-> t, cid |-> mem[t].cid, state |-> state,
     vins |-> {}, final |-> final]
HoldRequest(t) ==
    [op |-> "hold", thread |-> t, cid |-> mem[t].cid, state |-> "ABSENT",
     vins |-> mem[t].vins, final |-> FALSE]

Init ==
    /\ StoreInit
    /\ Mes!HoldInit
    /\ ckpt = [t \in Thread |-> NoGraph]
    /\ mem = [t \in Thread |-> NoGraph]
    /\ phase = [t \in Thread |-> "idle"]
    /\ value = [t \in Thread |-> NoValue]
    /\ attempts = [t \in Thread |-> 0]
    /\ triaged = {}
    /\ up = TRUE
    /\ wake = {}
    /\ late = {}
    /\ faults = 0

Fault == faults < MaxFaults /\ faults' = faults + 1

-----------------------------------------------------------------------------
(* The agent's HTTP surface: claims on threads and the worker pool. *)

\* start(): one claim per thread in this process, then the pool.
Start(t, v) ==
    /\ phase[t] = "idle"
    /\ phase' = [phase EXCEPT ![t] = "queued"]
    /\ value' = [value EXCEPT ![t] = v]

\* POST /triage, from the EOL consumer or by hand, under a fresh thread id.
Triage(t) ==
    /\ up
    /\ t \notin triaged
    /\ triaged' = triaged \cup {t}
    /\ Start(t, [decision |-> "START", vins |-> {}])
    /\ UNCHANGED <<row, hold, ckpt, mem, attempts, up, wake, late, faults>>

Driven == {t \in Thread : phase[t] \in {"live", "leaving"}}

\* A pool worker takes the thread and invokes the graph from its checkpoint: on
\* a finished thread nothing happens, on one that waits for no value the run
\* just continues.
Begin(t) ==
    /\ phase[t] = "queued"
    /\ Cardinality(Driven) < WORKERS
    /\ mem' = [mem EXCEPT ![t] = IF value[t].decision = "START"
                                 THEN [ckpt[t] EXCEPT !.next = "investigate"]
                                 ELSE ckpt[t]]
    /\ value' = IF ckpt[t].waiting /\ value[t].decision # "CONTINUE"
                THEN value
                ELSE [value EXCEPT ![t] = NoValue]
    /\ phase' = [phase EXCEPT ![t] = IF ckpt[t].next = "END" THEN "leaving" ELSE "live"]
    /\ UNCHANGED <<row, hold, ckpt, attempts, triaged, up, wake, late, faults>>

\* The checkpointer makes the state of a running thread durable.
Persist(t) ==
    /\ phase[t] = "live"
    /\ ckpt[t] # mem[t]
    /\ ckpt' = [ckpt EXCEPT ![t] = mem[t]]
    /\ UNCHANGED <<row, hold, mem, phase, value, attempts, triaged, up, wake, late, faults>>

\* run() returns, normally or by an exception: invoke waits for its pending
\* checkpoint writes, then the claim is dropped.
Release(t) ==
    /\ phase[t] = "leaving"
    /\ ckpt' = [ckpt EXCEPT ![t] = mem[t]]
    /\ phase' = [phase EXCEPT ![t] = "idle"]
    /\ value' = [value EXCEPT ![t] = NoValue]
    /\ attempts' = [attempts EXCEPT ![t] = 0]
    /\ UNCHANGED <<row, hold, mem, triaged, up, wake, late, faults>>

\* Mutant: a stalled run is left alone.
ModesWaitingOnly(cp) == IF cp.waiting THEN {"value"} ELSE {}

\* What POST /threads/{id}/resume does about a thread it finds in state cp:
\* supply the value to an interrupt, continue a stalled run, or nothing (404 for
\* an unknown thread, 409 for a finished one).
Modes(cp) == IF cp.waiting THEN {"value"}
             ELSE IF cp.next \in {"absent", "END"} THEN {} ELSE {"continue"}

\* The handler's first half: a snapshot of the thread.
Snapshot(m) ==
    /\ m.mode = "posted"
    /\ wake' = (wake \ {m}) \cup {[m EXCEPT !.mode = mode] : mode \in Modes(ckpt[m.thread])}
    /\ UNCHANGED <<row, hold, agentVars, late, faults>>

\* Second half: claim the thread with the value, or to continue a stalled run.
Claim(m) ==
    /\ m.mode \in {"value", "continue"}
    /\ Start(m.thread,
             [decision |-> IF m.mode = "value" THEN m.decision ELSE "CONTINUE",
              vins     |-> IF m.mode = "value" THEN m.vins ELSE {}])
    /\ wake' = wake \ {m}
    /\ UNCHANGED <<row, hold, ckpt, mem, attempts, triaged, up, late, faults>>

\* 409: this process is driving the thread and did not let go (within 2 s, if
\* the handler has a value to supply).
Refuse(m) ==
    /\ m.mode \in {"value", "continue"}
    /\ phase[m.thread] # "idle"
    /\ wake' = wake \ {m}
    /\ UNCHANGED <<row, hold, agentVars, late, faults>>

-----------------------------------------------------------------------------
(* Nodes.  Each runs in the worker that drives the thread. *)

AtNode(t, node) ==
    /\ phase[t] = "live"
    /\ mem[t].next = node
    /\ AsyncCheckpoints \/ ckpt[t] = mem[t]

\* The node returns: the update is in memory, its checkpoint is under way.
Return(t, state) ==
    /\ mem' = [mem EXCEPT ![t] = state]
    /\ phase' = [phase EXCEPT ![t] = IF state.next = "END" THEN "leaving" ELSE "live"]
    /\ value' = [value EXCEPT ![t] = NoValue]
    /\ attempts' = [attempts EXCEPT ![t] = 0]
    /\ UNCHANGED <<triaged, up>>

\* The node raises: the thread stays before it.
Raise(t) ==
    /\ phase' = [phase EXCEPT ![t] = "leaving"]
    /\ UNCHANGED <<ckpt, mem, value, attempts, triaged, up>>

\* What a request does where it arrives.
Apply(r) ==
    \/ /\ r.op = "post"
       /\ \E c \in Cid : Propose(c, r.thread, r.state, r.vins)
       /\ UNCHANGED hold
    \/ /\ r.op = "patch"
       /\ RecordOutcome(r.cid, r.state, r.final)
       /\ UNCHANGED hold
    \/ /\ r.op = "hold"
       /\ IF Mes!Conflict(r.cid, r.vins) THEN UNCHANGED hold
                                     ELSE Mes!CreateOrReplay(r.cid, r.vins)
       /\ UNCHANGED row

\* A call whose caller sees no answer.
Unanswered(r) ==
    /\ Fault
    /\ \/ Apply(r) /\ UNCHANGED late
       \/ UNCHANGED <<row, hold, late>>
       \/ /\ r.op \in LateCalls
          /\ late' = late \cup {r}
          /\ UNCHANGED <<row, hold>>

\* A request whose caller gave up takes effect after all.
Deliver(r) ==
    /\ Apply(r)
    /\ late' = late \ {r}
    /\ UNCHANGED <<agentVars, wake, faults>>

\* intake .. compose: reads and rules.  They end in a proposal, in a decision
\* not to propose, or in an exception (unknown code, no EOL record in 30 s,
\* detect or the database away).
Investigate(t) ==
    /\ AtNode(t, "investigate")
    /\ \/ \E S \in ProposedScopes :
             Return(t, [mem[t] EXCEPT !.next = "submit", !.vins = S])
       \/ Return(t, [mem[t] EXCEPT !.next = "no_proposal"])
       \/ Raise(t)
    /\ UNCHANGED <<row, hold, ckpt, wake, late, faults>>

\* The POST that creates the row, and the state the node returns with its id.
Post(t, state, vins, next) ==
    \/ /\ \E c \in Cid :
             /\ Propose(c, t, state, vins)
             /\ Return(t, [mem[t] EXCEPT !.next = next, !.cid = c, !.outcome = state])
       /\ UNCHANGED <<hold, ckpt, late, faults>>
    \/ /\ Unanswered(PostRequest(t, state, vins))
       /\ Raise(t)

Submit(t) ==
    /\ AtNode(t, "submit")
    /\ Post(t, "PROPOSED", mem[t].vins, "gate")
    /\ UNCHANGED wake

NoProposal(t) ==
    /\ AtNode(t, "no_proposal")
    /\ Post(t, "ESCALATED", {}, "report")
    /\ UNCHANGED wake

\* gate and retry_gate, without a value: interrupt() records that the thread
\* waits, and the run ends.
Interrupt(t) ==
    /\ AtNode(t, "gate") \/ AtNode(t, "retry_gate")
    /\ value[t] = NoValue
    /\ mem' = [mem EXCEPT ![t].waiting = TRUE]
    /\ phase' = [phase EXCEPT ![t] = "leaving"]
    /\ UNCHANGED <<row, hold, ckpt, value, attempts, triaged, up, wake, late, faults>>

\* Mutant: the amended list is taken as it came.
WithTriggerForgotten(vins) == vins

\* nodes._with: the failing vehicle is in every scope.
WithTrigger(vins) == vins \cup {Trigger}

\* Mutant: an amendment is treated like an approval.
BoundsUnamended(t) == mem[t].vins

\* The bounds the gate passes on.
BoundsAfterGate(t) ==
    IF value[t].decision = "AMEND" THEN WithTrigger(value[t].vins) ELSE mem[t].vins

\* gate with the resume value.  Anything but a human decision fails validation.
Gate(t) ==
    /\ AtNode(t, "gate")
    /\ LET passed == [mem[t] EXCEPT !.waiting = FALSE, !.vins = BoundsAfterGate(t)]
       IN  \/ /\ value[t].decision = "REJECT"
              /\ Return(t, [passed EXCEPT !.next = "report", !.outcome = "REJECTED"])
           \/ /\ value[t].decision \in {"APPROVE", "AMEND"}
              /\ Return(t, [passed EXCEPT !.next = "commit", !.outcome = "PROPOSED"])
           \/ /\ value[t].decision = "RETRY"
              /\ Raise(t)
    /\ UNCHANGED <<row, hold, ckpt, wake, late, faults>>

\* Mutant: a retry goes back to the proposal.
RetryFromSubmit(t) ==
    /\ AtNode(t, "retry_gate")
    /\ value[t] # NoValue
    /\ Return(t, [mem[t] EXCEPT !.waiting = FALSE, !.next = "submit"])
    /\ UNCHANGED <<row, hold, ckpt, wake, late, faults>>

\* retry_gate with any value: one more commit.
RetryGate(t) ==
    /\ AtNode(t, "retry_gate")
    /\ value[t] # NoValue
    /\ Return(t, [mem[t] EXCEPT !.waiting = FALSE, !.next = "commit"])
    /\ UNCHANGED <<row, hold, ckpt, wake, late, faults>>

\* Mutant: no answer from the plant is taken for success.
ReportAnyway(t) == Return(t, [mem[t] EXCEPT !.next = "report", !.outcome = "COMMITTED"])

Park(t) == Return(t, [mem[t] EXCEPT !.next = "pending", !.outcome = "COMMIT_PENDING"])

\* Mutant: one attempt too many.
MayAttemptOnceMore(t) == attempts[t] <= ATTEMPTS

MayAttempt(t) == attempts[t] < ATTEMPTS

\* commit, one attempt of post_hold: a hold, a conflict (raises), no answer (one
\* more attempt, as for a 5xx), or an error post_hold does not catch, such as an
\* answer that cannot be decoded, which the node raises.
CommitAttempt(t) ==
    /\ AtNode(t, "commit")
    /\ MayAttempt(t)
    /\ \/ /\ Mes!CreateOrReplay(mem[t].cid, mem[t].vins)
          /\ Return(t, [mem[t] EXCEPT !.next = "report", !.outcome = "COMMITTED"])
          /\ UNCHANGED <<row, late, faults>>
       \/ /\ Mes!Conflict(mem[t].cid, mem[t].vins)
          /\ Raise(t)
          /\ UNCHANGED <<row, hold, late, faults>>
       \/ /\ Unanswered(HoldRequest(t))
          /\ attempts' = [attempts EXCEPT ![t] = @ + 1]
          /\ UNCHANGED <<mem, phase, value, triaged, up>>
       \/ /\ Unanswered(HoldRequest(t))
          /\ Raise(t)
    /\ UNCHANGED <<ckpt, wake>>

\* commit gives up: every attempt failed.
CommitExhausted(t) ==
    /\ AtNode(t, "commit")
    /\ ~MayAttempt(t)
    /\ Park(t)
    /\ UNCHANGED <<row, hold, ckpt, wake, late, faults>>

\* commit gives up: the breaker (module Breaker) lets no request through.
CommitRefused(t) ==
    /\ AtNode(t, "commit")
    /\ attempts[t] = 0
    /\ Fault
    /\ Park(t)
    /\ UNCHANGED <<row, hold, ckpt, wake, late>>

\* A PATCH of the row, and the state the node returns.
Patch(t, state, final, next) ==
    \/ /\ RecordOutcome(mem[t].cid, state, final)
       /\ Return(t, [mem[t] EXCEPT !.next = next])
       /\ UNCHANGED <<hold, ckpt, late, faults>>
    \/ /\ Unanswered(PatchRequest(t, state, final))
       /\ Raise(t)

Pending(t) ==
    /\ AtNode(t, "pending")
    /\ Patch(t, "COMMIT_PENDING", FALSE, "retry_gate")
    /\ UNCHANGED wake

Report(t) ==
    /\ AtNode(t, "report")
    /\ Patch(t, mem[t].outcome, TRUE, "END")
    /\ UNCHANGED wake

-----------------------------------------------------------------------------
(* The agent process dies: claims, values and requests in its hands are gone,
   and whatever was not durable; then it is started again. *)

Crash ==
    /\ up
    /\ Fault
    /\ up' = FALSE
    /\ mem' = ckpt
    /\ phase' = [t \in Thread |-> "idle"]
    /\ value' = [t \in Thread |-> NoValue]
    /\ attempts' = [t \in Thread |-> 0]
    /\ wake' = {}
    /\ UNCHANGED <<row, hold, ckpt, triaged, late>>

Restart ==
    /\ ~up
    /\ up' = TRUE
    /\ UNCHANGED <<row, hold, ckpt, mem, phase, value, attempts, triaged, wake, late, faults>>

-----------------------------------------------------------------------------
(* The api: human decisions and the sweeper. *)

\* Mutant: the decision goes to some thread, not to the row's.
ResumeSomeThread(c, decision, vins) ==
    [thread |-> CHOOSE t \in Thread : TRUE, decision |-> decision, mode |-> "posted",
     vins |-> IF decision = "AMEND" THEN vins ELSE {}]

\* resume(): a thread is posted a decision, with the row's bounds (only an AMEND
\* makes use of them); an agent that is down gets nothing.
Resume(c, decision, vins) ==
    [thread |-> row[c].thread, decision |-> decision, mode |-> "posted",
     vins |-> IF decision = "AMEND" THEN vins ELSE {}]

Send(msgs) == wake' = IF up THEN wake \cup msgs ELSE wake

\* A posted resume is lost on the way, or never posted because the handler
\* failed first (announce raises, the api dies after its transaction).
LoseWake(m) ==
    /\ Fault
    /\ m.mode = "posted"
    /\ wake' = wake \ {m}
    /\ UNCHANGED <<row, hold, agentVars, late>>

\* approve, amend, reject: persist the decision, then wake the thread with the
\* row's bounds.
HumanDecision(c, action) ==
    /\ \E vins \in SUBSET Vin :
          /\ Decide(c, action, vins)
          /\ Send({Resume(c, action, vins)})
    /\ UNCHANGED <<hold, agentVars, late, faults>>

\* sweep(), first loop: expire, then close the gates.
SweepExpire(due) ==
    /\ SweepExpired(due)
    /\ Send({Resume(c, "REJECT", {}) : c \in due})
    /\ UNCHANGED <<hold, agentVars, late, faults>>

\* Mutant: silence counts as consent.
ActionOfSilence(state) == CASE state = "AMENDED"  -> "AMEND"
                            [] state = "REJECTED" -> "REJECT"
                            [] OTHER              -> "APPROVE"

\* The decision a decided row stands for.
ActionOf(state) == CASE state = "APPROVED" -> "APPROVE"
                     [] state = "AMENDED"  -> "AMEND"
                     [] OTHER              -> "REJECT"

\* Mutant: the re-sent rows come without their VIN lists.
DecidedWithoutVins == {Resume(c, ActionOf(row[c].state), {}) : c \in Unreported}

\* What the second loop re-sends of the decided rows.
DecidedResumes == {Resume(c, ActionOf(row[c].state), row[c].vins) : c \in Unreported}

\* sweep(), second loop: re-send what the agent has not closed, retry parked
\* commits.  A pass whose first loop raised does not get here.
SweepResend ==
    /\ Send(DecidedResumes \cup {Resume(c, "RETRY", {}) : c \in Parked})
    /\ UNCHANGED <<row, hold, agentVars, late, faults>>

-----------------------------------------------------------------------------

Node(t) ==
    \/ Investigate(t) \/ Submit(t) \/ NoProposal(t)
    \/ Interrupt(t) \/ Gate(t) \/ RetryGate(t)
    \/ CommitAttempt(t) \/ CommitExhausted(t) \/ CommitRefused(t)
    \/ Pending(t) \/ Report(t)

ResumeHandler(m) == Snapshot(m) \/ Claim(m) \/ Refuse(m) \/ LoseWake(m)

Next ==
    \/ \E t \in Thread : Triage(t) \/ Begin(t) \/ Persist(t) \/ Release(t) \/ Node(t)
    \/ \E m \in wake : ResumeHandler(m)
    \/ \E r \in late : Deliver(r)
    \/ Crash \/ Restart
    \/ \E c \in Cid, action \in {"APPROVE", "AMEND", "REJECT"} : HumanDecision(c, action)
    \/ \E due \in SUBSET Cid : SweepExpire(due)
    \/ SweepResend

Spec == Init /\ [][Next]_vars

\* What the deployment keeps running: the process manager restarts the agent,
\* pool workers and handlers are scheduled, and the api sweeps every 30 s.  A
\* human is never obliged to decide.
Fairness ==
    /\ WF_vars(Restart)
    /\ WF_vars(SweepResend)
    /\ \A c \in Cid : WF_vars(SweepExpire({c}))
    /\ \A t \in Thread :
          /\ WF_vars(Begin(t))
          /\ WF_vars(Persist(t))
          /\ WF_vars(Release(t))
          /\ WF_vars(Node(t))
          /\ WF_vars(\E m \in wake : m.thread = t /\ Snapshot(m))
          /\ WF_vars(\E m \in wake : m.thread = t /\ Claim(m))

FairSpec == Spec /\ Fairness

===============================================================================

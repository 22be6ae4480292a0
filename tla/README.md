# A formal model of the Q-Gate agent

Q-Gate watches a vehicle line. When a vehicle fails its end-of-line (EOL) test,
an agent investigates, proposes a *containment* (a list of vehicles to put on
hold), waits for a human to approve, amend or reject it, and creates the hold in
the plant's MES. The promise of the system is a gate that cannot be bypassed and
an approval that cannot be lost, kept by four processes, a checkpointer, two
databases' worth of state and an external system, any of which can be down.

Before the gate stands the evidence: what the line reports, how it reaches the
database and the charts, and the rules by which the agent turns it into a
proposal.

This directory models both in TLA+, checks them with TLC on small instances and
proves every safety property it checks, and the refinement of the abstract gate,
with TLAPS for all sizes. Paths below are relative to
`src/`.

## 1. Inventory

| Component | Code | State it keeps | Operations | Hard behaviour | Correct when |
|---|---|---|---|---|---|
| Containment store | `services/api/.../store.py`, `db/queries` | `containments`, `containment_vins`, `audit_log` | propose, decide, sweep_expired, record_outcome, list_by_state, list_unreported | races for one row; a PATCH overwrites any state | a decision is final; a closed audit row agrees with the plant |
| Api and sweeper | `services/api/.../main.py` | none of its own | approve / amend / reject, create, outcome PATCH, expiry and re-send every 30 s | decision persisted, resume lost; one pass fails half way | every decision reaches its thread |
| Agent threads | `services/agent/.../graph.py`, `nodes.py`, `http.py`, `checkpoint.py` | LangGraph checkpoints; claims, pool and payloads in memory | POST /triage, POST /threads/{id}/resume, the nodes, interrupts | crash between a node's effect and its checkpoint; a resume that acts on an old snapshot; stalled runs; four workers | no commit without a human; at most one hold; no thread waits forever |
| Commit and breaker | `services/agent/.../tools/mes.py` | breaker fields behind a lock, gauge labels | allow, succeeded, failed, post_hold's retries | old calls that end while a probe is out; labels written after the lock | probes spaced; none forgotten by any order of verdicts |
| Mock MES | `services/mock-mes/.../main.py` | holds by idempotency key, chaos mode | POST /v1/holds and its chaos | effect without an answer; two requests with one key at once | one hold per key |
| EOL trigger | `services/agent/.../consumer.py` | consumer offsets | poll, POST /triage, commit | offset committed against an in-memory queue; redelivery | each failure is triaged |
| Ingest | `services/ingest` | rows, offsets, producer's queue of dead letters | upsert, park, commit | redelivery; a dead letter not yet delivered when its offset is committed | each message is a row or a dead letter |
| Streaming detection | `services/detect/.../worker.py`, `spc.py` | one window per characteristic, offsets | observe, Western Electric rules, produce | points out of order, window limit, restart, an alert nobody hears back about | an alert iff a rule completes, among the readings since the start, on the point that arrived |
| Detection statistics | `services/detect/.../changepoint.py`, `msa.py`, `api.py` | none | /drift, /bench/{id}/capability | numerics; readings not there yet | a bench is blamed on its own readings only |
| Triage rules | `nodes.py` (read-only nodes), `tools/*.py`, `state.py` | thread state | intake, genealogy, hypothesise, correlate, drift_check, bound, compose, bench_alert, escalate | four reads of a database that ingest is still writing | what is held rests on evidence and covers it; every triage ends |
| Language model layer | `llm.py`, cassettes | none | rank, word | external | it can rank the fault map, never add to it |
| Line simulator | `services/line-sim` (C++) | manifest position, counters, producer queue | schedule, produce, serve reports, flush | full queue, signal, expired messages, a flush that gives up | exit code 0 means delivered, in order |
| Data generator | `packages/qgate-generator` | none | generate: injects, lots, benches, fault codes | - | it is the line the agent looks at |
| Evaluation, pipelines | `eval`, `pipelines` | - | offline | - | - |
| Console | `console` | what it last read | polls, posts decisions | stale screens | the api refuses what is late |
| Auth, records, plumbing, deployment | `qgate_core`, `schemas`, `infra`, `docker` | - | - | restarts | - |

Interactions: the simulator (in the plant, the edge producers) fills three topics,
which ingest writes into Postgres and the detect worker charts; the consumer calls the agent's own HTTP surface; the agent's nodes
read Postgres and detect, POST and PATCH containments at the api, and POST holds
at the MES; the api resumes threads at the agent, after a human's request or from
its sweeper. There is no shared memory between processes, so whatever happens to
an HTTP call can separate what two of them believe. `PROJECT.json` lists every
hazard found, with its line.

## 2. Modules

| Module | Models |
|---|---|
| `ContainmentStore` | the api's tables; each operator is one transaction of `store.py` |
| `MesHolds` | the plant's holds by idempotency key |
| `GateSystem` | EXTENDS the store, INSTANCEs the holds; agent threads, pool, resume handler, checkpoints, nodes, crashes, humans, sweeper |
| `GateSpec` | abstract: what the gate promises per containment and per triage, with no processes |
| `GateProperties` | type invariant, safety, refinement of `GateSpec`, liveness |
| `GateProofs` | proofs about `GateSystem` in its full generality: human first, trigger held, committed is held, decisions final |
| `GateDurableProofs` | EXTENDS it: one hold per thread, and no proposal after one that is on record |
| `GateDecisionProofs` | EXTENDS that: plant, row and decision agree, and `GateSpec` is implemented |
| `Breaker`, `BreakerProofs` | the circuit breaker, its gauge, its proofs |
| `LineConsumers`, `LineProofs` | ingest and the EOL trigger on a partitioned log, their proofs |
| `LineSim` | the edge producer: schedule, librdkafka's bounded queue, delivery reports, exit code |
| `Charts` | the window of a characteristic and the Western Electric rules, and the same question asked of the readings as a set |
| `Stream` | EXTENDS both: readings on a partitioned topic, the detect worker, its crashes |
| `StreamProofs` | proofs about the edge producer: the counters, and what the partitions hold at exit code 0 |
| `ChartProofs` | EXTENDS it: proofs about the worker's window and its alerts |
| `Plant` | the line and what its gauges report, as the generator makes them |
| `Detect` | `detect_change` and `capability` in whole numbers |
| `TriageRules` | `route`, `decide_bounds`, `validate_hypotheses`, `_with`, the properties of `CorrelationResult` |
| `Investigation`, `InvestigationProofs` | EXTENDS the three: one triage, node by node, on a database ingest is still writing; proofs |
| `MCGate`, `MCBreaker`, `MCLine`, `MCStream`, `MCInvestigation` | instances for TLC |

How the state corresponds:

- `row[c]` joins the containment, its VIN list and its audit row, because the
  code writes the three in one transaction. `reported` is "`latency_total_ms` is
  not null", what `list_unreported` asks. Scopes are sets of vehicles relative to
  the triage; `Trigger` is its failing vehicle. Deadlines are not clocked: a
  proposal may be past its deadline at any moment.
- `ckpt[t]` is what the checkpointer has made durable, `mem[t]` what the worker
  that drives the thread holds. A node's side effect and its update of `mem` are
  one step (`Return`); `Persist` makes it durable later, `Release` at the end of
  `invoke`, and a `Crash` may come between any two. LangGraph is not part of the
  repository: `graph.invoke` is called without a `durability`, whose default lets
  the next node start while the last checkpoint is still being written
  (`AsyncCheckpoints = TRUE`); FALSE waits for it.
- `phase[t]` is the claim on the thread: `running` of `http.py` plus where the
  pool has it (queued, live, or finished and about to be released). `value[t]` is
  the payload of `invoke`: a fresh start, a resume value, or "continue".
- An HTTP call is one step with several outcomes: answered; applied, answer
  lost; never applied; or, for the kinds in `LateCalls`, applied after its caller
  gave up (`late`, `Deliver`). A failure costs one of `MaxFaults`.
- Resume requests are messages in `wake`. The handler is two steps, the snapshot
  and the claim, because it waits up to 2 s between them and acts on what it read
  first. A `Command(resume=...)` and a "continue" are different messages.
- `intake` .. `compose` are one step of `GateSystem`, `Investigate`: they read and
  compute, end in a proposal, in none, or raise, which is what `Investigation`
  shows of them node by node (`TriageEnds`); that a proposed scope has the failing
  vehicle in it, `ScopeAssumption` there, is `TriggerInScope` here, and proved. They are re-executed from a checkpoint after a
  crash without an effect anyone sees. `bench_alert` and `escalate` make the same
  call and are `NoProposal`.
- `commit` is one step per attempt of `post_hold`; `CommitExhausted` and
  `CommitRefused` (the breaker) park it. An exception that `post_hold` does not
  catch (`mes.py:85`) leaves the node: the thread stalls and the sweeper continues
  it.
- `Breaker` keeps how long ago it was opened instead of a timestamp, capped at
  `OPEN_S`: nothing depends on more. The gauge is in the model because a worker
  that writes its labels is not yet free to call again; two workers that finish
  close together interleave their writes, and the gauge then shows another state,
  or two, until the next transition (`metrics.py:55` promises one). A refused `allow` changes nothing and is no
  action. A worker calls `allow` again only after it has written its labels,
  because one thread does both. A call ends in a verdict (`Succeeded`, `Failed`) or,
  by that same exception, in none (`Raised`); `unjudged` remembers a probe that did,
  which no code does.
- `LineConsumers` keeps the topics as logs that only grow, with one index per
  group for the broker's offset (`committed`), one for a commit under way
  (`asked`: `commit()` is asynchronous and nobody looks at its result) and one for
  the running consumer (`position`). Ingest and the trigger have the same loop,
  poll, handle, commit, and differ in what they handle. A message is a record of
  what the loops tell apart: a failure, anything else, or bad (undecodable,
  invalid, or refused by a constraint), with its natural key. `queue` is the
  producer's memory, emptied when ingest stops; the full queue raises in `Park`.
  `lost` and `misread` record what no code records, to state the properties.
  `TakenForBad` may happen to any message; the code asks the registry only for
  a schema the process has not seen yet, so the model allows more.
- `LineSim` has one `pc` for `main()`: before an event is due, trying to enqueue it,
  flushing, gone. `clock` is wall time since `start`; `scheduled` is the counter and
  the loop's index at once. `queue` holds what librdkafka has no answer for,
  `answered` the delivery reports nobody has served: both count against
  `QUEUE_MAX`, so that only serving reports makes room, and the full queue looks at
  no signal (the runbook's stop then waits for the broker). An event that cannot be
  enqueued for any other reason is an exception thrown past a joinable thread: the
  process is aborted and never reaches `return 2`. The counter `delivered` is one
  number, not one per topic.
- `Charts` keeps deviations as integers. `z > k` is a comparison of squares: nothing
  is divided and nothing rounded. A point alerts only when it ends the run: a
  late reading in the middle of the window can complete a run that ends at a newer
  one, and no alert is made for it, then or later. `AlertsFollowRules` states
  exactly this. The `z` in an alert's evidence is that of the newest point, not of
  the one alerted on; no property reads it.
- `Stream` reads `LineSim`'s partitions through the worker, whose commits are
  asynchronous: after a crash it reads on up to `MaxRewind` readings back. An alert
  leaves the producer's queue delivered or given up (`AlertLeaves`): `produce` is
  called without a callback, so the worker never learns which, and the offset is
  committed either way.
  `docs/design/2026-09-21-architecture.md:594` has windows rebuilt from Postgres when the
  worker starts; the code starts with empty windows and so does the model (`stream_restart`).
  `seen` is what was charted since.
- `Plant` is the generator's arithmetic in steps of a tolerance band. A scenario
  fixes injects, single defects, and which vehicles were read again; noise of the
  process and the gauges is left out, and a gauge that repeats badly is part of the
  scenario (`scattered`).
- `Investigation` keeps what ingest has not written in `missing`. Records of a
  vehicle on one topic are written in order and topics do not wait for each other,
  so a verdict can precede its build event and its readings. `Land` may come
  between any two nodes and is not fair: ingest owes a triage nothing. Each node
  reads the state it finds, as the code's four separate reads do. Of the line's future
  only build events matter, because `vins_by_lot` has no time bound. Repeats land
  with the reading they repeat. `waited` counts looks until the deadline.
- `Detect` fits a line in whole numbers: the variance and covariance times N
  squared, and every comparison with a sigma made on squares. Which breakpoints
  `ruptures` finds is any set that respects `min_size`; the limit itself counts as
  failed for the onset (`>=`, `changepoint.py:88`) and as within tolerance for a
  fault code.
- In `allowed`, the code's dictionary keeps one candidate per station: of two
  codes that list a station, the last one's characteristics count (`nodes.py:169`).
  Siblings are those with the suspect station's code, which need not be one of the
  trigger's, though the evidence shown calls them "other vehicles with the same
  code" (`nodes.py:257`).

## 3. Runs

| Run | Question | Bounds |
|---|---|---|
| `gate_faults` | Can any failure bypass the gate, make two holds, drop the failing vehicle, or report what is not held; do plant, row and audit agree with the decision; does the system implement `GateSpec`? | 1 thread, 2 containments (it may propose twice), 1 attempt, 2 failures, every call may be late, asynchronous checkpoints |
| `gate_two` | Does a decision reach the thread it was taken for? | 2 threads, 1 worker, no failures |
| `gate_live` | Does every decision reach the plant, and every waiting thread its end? | 1 thread, 1 containment, 3 failures, 2 attempts, synchronous checkpoints, holds may be late |
| `breaker` | Are probes spaced and never forgotten, does it let requests through again, also when calls end without a verdict? | 3 workers, `OPEN_S` = 1, a call lasts up to 2 |
| `line` | Do offsets run ahead of rows, dead letters or posted failures; does redelivery park good messages; is every message settled in the end? | 1 partition, 2 messages with one key, room for 1 dead letter, 3 failures |
| `stream` | Is what exit code 0 says true; does the replay end; are the windows and the alerts those of the readings since the start, in measured order; does the worker catch up? | 6 manifests of up to 10 events, 2 partitions, room for 2 in the queue, 1 expired message, window 9, warm-up 3, 1 crash that loses a commit |
| `investigation` | Does what is proposed rest on evidence and cover it, whatever ingest still lacks and a model answers; does every triage end? | 7 scenarios of 6 or 7 vehicles on 3 stations, 2 benches, 4 characteristics; ingest up to 2 records behind, 1 takt of new ones, 2 looks |
| `gate_double_submit`, `gate_expired`, `gate_lost_approval`, `line_skipped`, `stream_restart` | Does the code do what the quoted line says? | the smallest instance with the counterexample |

Why these bounds are enough to be worth something. All coupling between two
threads is the store, the pool, the handler and the sweeper; rows of different
threads share no field, so two threads on one worker show what can be confused,
and one thread with failures shows what can be lost. Two containments let one
thread propose twice; a third proposal needs a third lost answer and meets no
guard the second did not. Two failures reach every pair: an applied hold whose
answer is lost, then a crash before the report's checkpoint; or a proposal whose
answer is lost, which makes the thread propose again, and a failure of what follows. `Vin` has the failing vehicle and one other: a
scope is with or without each, and an amended list may leave the trigger out
(`ClientScopes`). With `ATTEMPTS` = 1 and 2 a commit gives up on its last attempt
and after a retry; the value is 5 in the code and no guard depends on more. Three
workers are two probes and an old call at once, and `MaxCall` > `OPEN_S` lets a
call outlast the open period. Symmetry is used on containment ids and threads,
which are only compared, and only in safety runs. In `gate_faults` stations, shifts
and lots are not amended (`Rescopes` = {}); the VIN list, which is, can do the
same to a scope, and `gate_two` has both. In `line`, two messages of one key are
a redelivery, a replay, and a bad message in front of or behind a good one; a
second dead letter meets the full queue; three failures are, for instance, a lost
commit, a crash and another lost commit. A second partition shares no state with
the first but the queue, and the proofs cover any number.

In `stream`, the manifests are chosen so that each rule fires and is nearly
missed: a run of eight behind a reading that may come late and find the window
full, so that it is dropped at once; two of three beyond 2 sigma; four of five
beyond 1; a file that is refused, one that is empty, one with blank lines, repeats and a
message that does not decode. Two partitions reorder one characteristic's
readings; a queue of two is full while reports wait. Window and warm-up are 500 and
20 in the code; the rules look back at most eight points, and 9 leaves one more.

In `investigation`, the thresholds are scaled down so that seven vehicles can be a
lot and its spread (three siblings more than two takts apart), a window, or too few
readings of a bench. There is a scenario for each kind of inject, one for a single
defect and one for a gauge that scatters. Two missing records are, for instance, the
trigger's own build event and its verdict, or a sibling's; every failing vehicle of
every scenario triggers in turn.

A triage may have two containments: its proposal had no answer and it proposed again.
Then the row a hold was decided on and the row it is stored under can differ
(`gate_double_submit`), so `HoldIsTheDecision`, `CommitNeverConflicts` and
`ClosedAgreesWithPlant` speak of a containment while it is its triage's only one
(`OnlyOne`), and say nothing of the two once there are two. What is still promised of
them is in `GateSpec`: one hold for both, only after one of them was approved, and no
row closed unless it is held or one of the two was refused. `ProposesOnce` limits how
there can be two: never by a thread whose proposal is in its checkpoint.

`AsyncCheckpoints = FALSE` in `gate_live` is an assumption, not a fact about the code:
with checkpoints behind, approvals can be lost (`gate_lost_approval`). `gate_live` has
one containment id, so a second proposal is not in it; `DecisionsReachThePlant` speaks
of the containment its thread has on record (`Recorded`). It admits late holds but not
late PATCHes: a late COMMIT_PENDING overwrites a newer state, which is the hazard of
`record_outcome` listed without a property.

Deadlock is checked in every run but five. In `line` and `line_skipped` a bounded
log ends, and then the consumers may rightly have nothing left to do;
`EveryMessageSettles` says that they have not stopped too early. In `stream` and `stream_restart` the
replay ends and in `investigation` the triage does; `ReplayEnds`, `ChartsCatchUp` and
`TriageEnds` say that nothing stops before. In `GateSystem` the sweeper can always run, so
it says little there; what stands for it is `WaitingThreadsAreClosed`.

### Fairness

`GateSystem!FairSpec` assumes only what the deployment keeps doing: the process
manager restarts the agent (`docker-compose.yml`, `RUNBOOK.md`), the api sweeps
every 30 s (`SweepResend`, and each overdue proposal is expired:
`SweepExpire({c})` is a deadline that passes), pool workers take queued threads,
a claimed thread's nodes run, checkpoints are written, and the resume handler
serves each thread. All weak. No human ever has to decide, failures are not
fair, lost resumes are not excluded, and a late request need not arrive. Weak
fairness of `Claim` per thread is enough: a refused resume is followed by the
next sweep's. `Breaker!FairSpec` assumes that time passes, that a worker goes on
writing its labels and that a call ends, with a verdict or without; nobody has to
call `allow`.
`LineConsumers!FairSpec` assumes that stopped processes are restarted
(`restart: unless-stopped` in `docker-compose.yml`) and running loops go on, and
strong fairness for what the client library does in the background: a life of
ingest that ends at a full queue is long enough, again and again, for the
library's threads to store an offset or deliver a letter. Without it a full queue
could end ingest each time before anything left the queue.
`LineSim!SimFairness` assumes that the thread runs, time passes, the flush's 30 s
end, and that librdkafka answers for each queued event, with an error when its
message timeout is over: a broker that acknowledges nothing is allowed. The worker
of `Stream` is restarted and reads on (`Read` per partition; messages are in
order, so weak fairness is enough). `Investigation!FairSpec` drives the triage's
worker: it leaves every node but `genealogy` at once, `genealogy` when the records
are there or the deadline has passed, and `Wait` counts the looks. Ingest is not
fair, and calls may raise.

### What the violations show

- `gate_double_submit`. `submit` has no idempotency key. If its answer is lost
  the row exists and the thread is still before `submit`. Deciding that row
  resumes a stalled thread, which proposes a second row; the sweeper re-sends the
  first row's decision, and `commit` holds under the second id. The held row was
  never decided. `HoldNeedsHuman` is the weaker statement that holds anyway, and
  `OneHoldPerThread` shows that the plant is still held once.
- `gate_expired`. Expiry resumes the thread with REJECT, and its report
  overwrites EXPIRED with REJECTED, which the runbook's reader does not expect.
- `gate_lost_approval`. A crash after `pending`'s PATCH and before the checkpoints
  after the gate leaves a COMMIT_PENDING row whose thread waits for a human
  decision. The sweeper only sends RETRY, which is no `HumanDecision`, so `gate`
  raises, on every sweep.
- `line_skipped`. The trigger's group starts with `auto.offset.reset = latest`, on
  every start, on each partition it has not committed to before. A failure that
  arrives during an outage on such a partition is skipped. With offsets on every
  partition (`Known`) nothing is, which is `CommittedIsPosted` and a theorem.

- `stream_restart`. The design has the worker's windows rebuilt from Postgres on start,
  and the checklist ticks it; `run` starts with an empty `Charts`. In the trace the
  worker restarts in the middle of a run of eight; the reading that ends the run finds
  no window and raises no alert, then or later. `AlertsFollowRules` is what does hold:
  the same statement of the readings seen since the last start.

### What the breaker, stream and line properties do not say

`ADR-012:14` lets one probe through, and `mes.py:37` says "exactly one": old calls can
take a probe's flag back, so two may be in flight, and `ProbesAreSpaced` is what
remains. An exception that is neither a transport error nor a `RetryError`, such as an
answer that cannot be decoded, passes `mes.py:85` with the probe's flag still set.
Unless a call admitted before the breaker opened is still to end with a verdict, the
breaker then refuses every commit until the agent is restarted. `ProbeIsInFlight` and
`NeverRefusesForGood` name this ending (`unjudged`) and exclude every other; without
`<>[]unjudged` TLC's counterexample is a failure, the open period, a probe, and
`Raised`.

`ChartsCatchUp` says that the worker takes every reading and that the producer's queue
drains, not that an alert is delivered: a delivery that times out, or a crash before the
queue drains, loses an alert whose offset is committed. `RUNBOOK.md:94` calls the
worker at-least-once; of alerts that does not hold.


Three losses are in the code as it is written, and the properties leave room for
exactly them. A dead letter counts as settled once it is in the producer's queue:
nobody waits for its delivery. A message decoded while the schema registry is
away is treated as a bad one by both loops (`misread`), and so is, by the trigger, a
failure whose POST raises (`consumer.py:43`). And a broker error ends
the trigger's daemon thread while its process stays up, so nothing says that each
failure is posted in the end, only that none is passed over.

### What the evidence properties say and do not say

`OnlyLaggardsEscape` is as much as a hold drawn while ingest lags can promise: a
vehicle within the bounds that is left out has a build event that was not
written yet, and nothing looks again later. The window is half open
(`window.sql:6`): a vehicle that enters the suspect station in the trigger's own
EOL takt is not in it, although its reading is part of the drift evidence, which
goes one takt further. `WideHoldsHaveSiblings` is why a change that a
gauge reports does not hold a shift of good vehicles; it needs `LOT_MIN >
NO_PATTERN` (`RulesAssumption`; 3 and 1 in the code). `SuspectIsOnTheMap` relates the
two halves of a hypothesis: a model that pins a listed characteristic on another
station, whose vehicles would then be held, is off the map. `BenchAlertIsEarned` says
that a bench is not blamed without data that had been written, not that a bad one is always found: when
the wait ends before the trigger's last build event, the bench is judged on an
inline characteristic, and of several readings out of tolerance the first that is not
capable decides, also when it only lacks data. `MissingOnlyAfterTheWait` is why
`genealogy` waits for three records: they come over three topics.

## 4. Proofs

`GateProofs` proves, for any number of threads, containments, vehicles,
attempts, workers and failures, for both checkpoint modes and any kinds of late
call: `TypeOK`, `HoldNeedsHuman`, `TriggerAlwaysHeld`, `CommittedMeansHeld` and
`DecisionIsFinal`. The assumptions are those of the modules: `None` is not a
thread or a containment (`NoneAssumption`), proposed scopes contain the trigger,
as `decide_bounds` makes them (`ScopeAssumption`), the bounds are positive
(`BoundAssumption`), and the modes are of their types (`ModeAssumption`).

None of these invariants is inductive: nothing in "what is held was approved"
speaks of the resume that is on its way, the checkpoint a restart will continue
from, or the hold request whose caller gave up. The strengthening `IInv` says of
each of them what the hold will need: a resume or value that carries an
approval, a graph state past the gate (in memory and in the checkpoint) and a
late hold belong to a thread a human approved; whatever names a containment
names one of its thread; what reports COMMITTED refers to a hold. Each step then
has to show that about its own thread only. All the rest stays true because rows
keep their thread and their decision and holds stay (`Grows`, `StoreStep`): the
store and the plant only grow. There is one lemma per transaction and one step
per action.

`GateDurableProofs` proves `OneHoldPerThread` and `ProposesOnce` under every failure of the
model, with a proposal that may have been sent twice. `IInv` does not know which of a thread's rows
a hold will name. `DInv` does: a value that passes the gate was handed to a worker
only after the interrupt's checkpoint was durable, so once a thread is past `gate` in
memory its checkpoint is past `submit` with the same containment id, and stays so. A
crash then brings back a state with that id, and every commit, retried, continued or
applied after its caller gave up, uses it. TLC checked `DInv` as an invariant under the
constants of `gate_faults` before it was proved.

`GateDecisionProofs` proves `HoldIsTheDecision`, `CommitNeverConflicts`,
`ClosedAgreesWithPlant` and `ImplementsGate`, under every failure and with no assumption
beyond those of the modules. A decision reaches a thread only from a row of that
thread; so as long as a containment is its triage's only one, the decision that reaches
the thread is its own, and once it is not the only one it never is again. The
invariant `AInv` has three parts. `RowsAgree`: the plant, the decision and what was
reported agree, of each row while it is the only one, of the triage's rows as a group
otherwise. `ThreadsAgree`: so does what a thread carries past the gate, in memory and
durably. `MessagesAgree`: so do every resume, every value and every request whose caller
gave up. A decision, once taken, does not change, so agreement is only ever
established, by the human's or the sweeper's transaction and by the hold. For the
refinement the same lemmas show, one per operation of the store and the plant, that it
is a step of `GateSpec` or a stutter; every action of an actor is one of these
operations or leaves what `GateSpec` sees alone (`Unseen`). TLC checked `AInv` under the
constants of `gate_faults` and `gate_two`.

`BreakerProofs` proves `TypeOK`, `ProbesAreSpaced` and `ProbeIsInFlight` for any
number of workers, any open period and any bound on a call
(`TimeAssumption`), with calls that may end without a verdict. The invariant behind it is `OlderThanOpening`: when the open
breaker could let the next request through, every probe still in flight is at
least as old as the opening.

`LineProofs` proves `TypeOK`, `CommittedIsSettled`, `OnlyBadIsParked` and, with `Known`
assumed, `CommittedIsPosted`, for any partitions, keys, lengths of the logs, sizes of
the queue and numbers of failures (`PartitionAssumption`: the EOL partitions are
partitions; `LineBoundAssumption`, `LineModeAssumption`: types of the bounds).
`CommittedIsSettled` is not inductive, since a commit under way and the position of
the running consumer will become offsets. `BehindOK` says it of all three: a message
is behind a group when one of them has passed it and it is not still in the
consumer's hands, and a message behind a group has had its effect. `AtOK` ties the
message in hand to the position, `WithinLog` keeps the indices inside the log, so
that an appended message disturbs nothing, and `OffsetsKnown` is what `Known` means.

`InvestigationProofs` proves `TypeOK` and all seven safety properties of the run, for any line,
scenarios, fault map, model answers, thresholds, backlog and waiting time, from
the assumptions of the four modules (`PlantAssumption`, `DetectAssumption`,
`RulesAssumption`, `InvestigationAssumption`). The state of a triage is written
once by each node, so most steps of most proofs are the frame: `Frame` and
`NodeFrame` say what a step that is not the node in question leaves alone. What is
left is the order of the nodes. `SiblingsAreKnown` carries what `correlate` read to
`bound`: a sibling's build event was written then and stays written (records only
land), which is `EvidenceIsHeld`. `RouteIsKept` carries the decision of `drift_check`:
at `bound` there is no change in the gauge's readings, or there were more than
`NO_PATTERN` siblings. `BoundsAreLast` says that nothing is proposed before `bound`,
and the waiting invariant that past `genealogy` either everything had landed or the
deadline had passed. `IncapableIsEarned` counts a bench's readings: a verdict other
than "insufficient-data" has at least `MIN_VALUES` of them, and only end-of-line
readings name a bench. `TypeOK` is not obvious
either: `SuspectOK` shows that the station and characteristic a hypothesis names exist
(the fault map lists them, or the model's ranking was checked against it), that a
ranking has a first and `decide_bounds` a latest element because the sets they are
taken of are finite and not empty, and that an onset is the time of one of the points
`/drift` was asked about.

`StreamProofs` proves `NothingUnaccounted` and `ExitZeroMeansDelivered` for any
manifests, partitioner, speed and queue. For the first, `Ledger` adds the types and
that exit code 1 means the process is gone, so that while it runs the sum holds
exactly: each of the simulator's steps moves an event between "scheduled", "queued",
"answered" and "counted", never out of their sum. For the second, `TopicOK` says what
the partitions hold before the end: each log is in the order of the manifest and behind
everything still queued for it, and as long as no delivery failed (`Sound`), every
scheduled event is in its log or in the queue. `Flow` follows `main` to the exit code:
0 is only returned with an empty queue and no error counted or waiting to be.

`ChartProofs` proves `TypeOK`, `WindowIsNewest` and `AlertsFollowRules` of `Stream`, for
any window and warm-up (`WindowAssumption`). `WorkerInv` relates the window to the
readings charted since the last start: it is in measured order, contains nothing else, what it
has let go of is older than all it holds, and it lets go of something only when it is
full. `insort` keeps this because the points up to the new one are a prefix. The code
computes each rule on the tail of the list that ends at the new point;
`AlertsFollowRules` asks of the set of readings which runs the point ends. The rules
section connects the two: the point's index counts the points up to it (`IndexIs`),
the list up to it is the readings ordered by time, and each rule on that tail is the
rule on the newest readings up to the point (`RunIsEndsRun`). The mean and the sum of squares
are sums over positions in the code and over readings in the property; that a sum does
not depend on how its terms are indexed is proved from `SumFunction`'s definition
(`SumFunctionSums`). The proof found a flaw in an earlier form of the property,
which picked the first rule that fires with a CASE whose guards overlap: TLA+ leaves
open which arm that is, and only TLC takes the first. `CalledFor` now takes the
smallest.

Arguments by induction on the length of a list are made with `SetInduction`: a set
that contains 0 and is closed under adding 1 contains every natural number. The set
is written out in each place, because the library's induction theorems take an
operator as parameter.

Three assumptions came with these proofs. A manifest ends (`ManifestAssumption`: it
holds a number of events). Of one characteristic there is one reading at a time,
repeats apart (`ReadingsAssumption`): the generator stamps a station's measurements
with the takt of the vehicle in it (`packages/qgate-generator/.../stream.py`,
`generate`). Two readings with one timestamp would leave their order, and with it the
alert, to the order of arrival. And a model's answer is a list with at least one
hypothesis (`InvestigationAssumption`), which is what `state.py` validates
(`min_length=1`); a failed validation is an exception, and `Raise` has it.

A remark on time. With five attempts of up to 10 s each and 1 + 2 + 4 + 8 s between
them, one `post_hold` lasts up to 65 s, longer than the open period. A call
admitted before the breaker opened can fail after a probe was let through and
take its flag back, so two probes may be in flight. `ProbesAreSpaced` is what
remains true of "lets one probe through", and why `MaxCall` exceeds `OPEN_S`.

Only model-checked: the liveness properties, `DecisionsReachThePlant`,
`WaitingThreadsAreClosed`, `NeverRefusesForGood`, `EveryMessageSettles`, `ReplayEnds`,
`ChartsCatchUp` and `TriageEnds`. They rest on fairness, and the prover cannot reason
about ENABLED. Every invariant and action property of the passing runs, and the
refinement, is a theorem. The five expected violations are counterexamples and need no
proof.

Every property has a mutant in `PROJECT.json`: a plausible bug of the code, kept
in the module beside the definition it replaces (comment `Mutant:`), under which
TLC finds the property violated.

## 5. Not modelled, and why

- Floating point: `Detect`, `Charts` and `Plant` compute in whole numbers, so a
  reading that rounding puts on the other side of a threshold is not seen. The PELT
  search of `ruptures` is a library; its breakpoints are any. Confidence and
  severity are shown to the human and no rule reads them.
- The evaluation harness and the pipelines: offline, they drive the public
  endpoints and score the answers.
- Language model calls: external; any answer or an exception. Wording (`compose`,
  `escalate`) is left out, its length and numbers included.
- Authentication, configuration, logging, tracing, schemas: no state.
- The console: its only effect is a decision that may be late.
- Kafka announcements of the api: best effort; one that raises is a lost resume.
- Two MES requests under one key that both pass the lookup before either stores
  (`create_hold` runs in FastAPI's thread pool without a lock).
- Several agent processes on one checkpointer: the deployment runs one.
- The api's own restart: it keeps no state; a restart is a lost resume and a late
  sweep. A restart of Postgres: an outcome of a call.
- Two triages of one vehicle and the database's history beyond `LOOKBACK`: the
  queries' lower bounds are modelled, old rows are not.

## 6. Plan

Done: gate, abstract gate, breaker, line consumers, the replay and the charts, the
investigation and its rules, and the proofs of all their safety properties and of the
refinement. Left, in this order:

1. `MesRace`: two requests with one key inside the mock, implementing `MesHolds`.
2. A queue of parked containments longer than `list_by_state` returns.
3. A worker whose alerts are confirmed before the offset moves, as the abstract
   specification that `Stream` does not implement.

## 7. Running it

    tlc -workers 2 -config MCGateFaults.cfg MCGate.tla
    tlapm GateProofs.tla
    tlc -workers 2 -config MCInvestigation.cfg MCInvestigation.tla
    tlapm GateDecisionProofs.tla
    tlapm LineProofs.tla
    tlapm ChartProofs.tla
    tlapm InvestigationProofs.tla

Passing runs take from 10 s to about two minutes. `tlapm` proves the theorems of the
module it is given, not those of the modules it extends: `GateDurableProofs`,
`BreakerProofs` and `StreamProofs` are called in the same way. The proofs take from ten
seconds to about a minute per module.

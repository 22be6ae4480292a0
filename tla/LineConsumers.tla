----------------------------- MODULE LineConsumers -----------------------------
(***************************************************************************)
(* The two consumers of the line's events (qgate-core: kafka.py): ingest,  *)
(* which writes each message to Postgres or parks it in line.dlq           *)
(* (services/ingest), and the agent's EOL trigger, which posts a triage    *)
(* for each failure (services/agent: consumer.py).                         *)
(*                                                                         *)
(* Both commit the offset of a message after its side effect.  The commit  *)
(* and the delivery of a dead letter are requests the client library       *)
(* carries out later; either process may stop between any two steps, and   *)
(* then reads again from the broker's offsets.                             *)
(***************************************************************************)
EXTENDS Integers, Sequences, FiniteSets

CONSTANTS
    Partition,    \* of the line.* topics
    EolPartition, \* those of line.eol.results
    Key,          \* natural keys of the records
    None,         \* no message
    QUEUE,        \* bound: dead letters the producer holds before it refuses more
    Known,        \* TRUE: the group has an offset on every partition already
    MaxLog,       \* bound: messages of a partition
    MaxFaults     \* bound: stops, outages, lost commits and letters in a behaviour

ASSUME PartitionAssumption == EolPartition \subseteq Partition
ASSUME LineBoundAssumption ==
    /\ QUEUE \in Nat \ {0}
    /\ MaxLog \in Nat
    /\ MaxFaults \in Nat
ASSUME LineModeAssumption == Known \in BOOLEAN

VARIABLES
    log,       \* the messages of each partition
    committed, \* how many of them the broker will not deliver again to a group
    asked,     \* a commit under way
    position,  \* how many the running consumer has been given; 0 when stopped
    stage,     \* where each consumer is in its loop
    at,        \* the message in its hands
    rows,      \* keys that have their row in Postgres
    queue,     \* dead letters in the producer's queue
    dlq,       \* dead letters in line.dlq
    lost,      \* dead letters that left the queue undelivered (nobody records it)
    posted,    \* failures whose POST /triage was answered
    misread,   \* good messages a failure on the way made a loop take for bad ones (likewise)
    faults     \* failures so far, at most MaxFaults

brokerVars == <<committed, asked>>
letterVars == <<queue, dlq, lost>>
vars == <<log, brokerVars, position, stage, at, rows, letterVars, posted, misread, faults>>

Groups == {"ingest", "agent-triage"}
Reads(g) == IF g = "ingest" THEN Partition ELSE EolPartition

\* "bad": undecodable, invalid, or refused by a constraint of the tables.
Messages == [kind : {"fail", "other", "bad"}, key : Key]
Slots == Partition \X (Nat \ {0})
Message(s) == log[s[1]][s[2]]

Unset == -1

\* Where a consumer starts without an offset: ingest at the earliest message, the
\* trigger at the latest.
StartOf(g, p) == IF g = "ingest" THEN 0 ELSE Len(log[p])

Init ==
    /\ log = [p \in Partition |-> <<>>]
    /\ committed = [g \in Groups |-> [p \in Partition |-> IF Known THEN 0 ELSE Unset]]
    /\ asked = [g \in Groups |-> [p \in Partition |-> Unset]]
    /\ position = [g \in Groups |-> [p \in Partition |-> 0]]
    /\ stage = [g \in Groups |-> "idle"]
    /\ at = [g \in Groups |-> None]
    /\ rows = {}
    /\ queue = {}
    /\ dlq = {}
    /\ lost = {}
    /\ posted = {}
    /\ misread = {}
    /\ faults = 0

Fault == faults < MaxFaults /\ faults' = faults + 1

-----------------------------------------------------------------------------

\* A service on the line produces a message; replays repeat keys.
Produce(p, m) ==
    /\ Len(log[p]) < MaxLog
    /\ m.kind = "fail" => p \in EolPartition
    /\ log' = [log EXCEPT ![p] = Append(@, m)]
    /\ UNCHANGED <<brokerVars, position, stage, at, rows, letterVars, posted, misread, faults>>

\* poll() hands over the next message of a partition.
Poll(g, p) ==
    /\ stage[g] = "idle"
    /\ p \in Reads(g)
    /\ position[g][p] < Len(log[p])
    /\ position' = [position EXCEPT ![g][p] = @ + 1]
    /\ at' = [at EXCEPT ![g] = <<p, position[g][p] + 1>>]
    /\ stage' = [stage EXCEPT ![g] = "taken"]
    /\ UNCHANGED <<log, brokerVars, rows, letterVars, posted, misread, faults>>

\* The process stops, or its consumer does: what it held in memory is gone.
Stop(g, where) ==
    /\ stage' = [stage EXCEPT ![g] = where]
    /\ at' = [at EXCEPT ![g] = None]
    /\ position' = [position EXCEPT ![g] = [p \in Partition |-> 0]]
    /\ asked' = [asked EXCEPT ![g] = [p \in Partition |-> Unset]]
    /\ lost' = IF g = "ingest" THEN lost \cup queue ELSE lost
    /\ queue' = IF g = "ingest" THEN {} ELSE queue
    /\ UNCHANGED <<log, committed, dlq>>

Handled(g) == stage' = [stage EXCEPT ![g] = "handled"]

\* send_to_dlq: the letter is in the queue; a full queue raises and ends ingest.
Park ==
    \/ /\ Cardinality(queue) < QUEUE
       /\ queue' = queue \cup {at["ingest"]}
       /\ Handled("ingest")
       /\ UNCHANGED <<log, brokerVars, position, at, dlq, lost>>
    \/ /\ Cardinality(queue) >= QUEUE
       /\ Stop("ingest", "down")

\* Mutant: without "on conflict do nothing" a repeated key is a bad message.
UpsertStrict ==
    IF Message(at["ingest"]).key \in rows
    THEN Park /\ UNCHANGED rows
    ELSE /\ rows' = rows \cup {Message(at["ingest"]).key}
         /\ Handled("ingest")
         /\ UNCHANGED <<log, brokerVars, position, at, letterVars>>

\* upsert and conn.commit().
Upsert ==
    /\ rows' = rows \cup {Message(at["ingest"]).key}
    /\ Handled("ingest")
    /\ UNCHANGED <<log, brokerVars, position, at, letterVars>>

\* handle: a row, or a dead letter.
Ingest ==
    /\ stage["ingest"] = "taken"
    /\ \/ /\ Message(at["ingest"]).kind # "bad"
          /\ Upsert
       \/ /\ Message(at["ingest"]).kind = "bad"
          /\ Park
          /\ UNCHANGED rows
    /\ UNCHANGED <<posted, misread, faults>>

\* handle: the database is lost, before the transaction took effect or after.
DatabaseLost ==
    /\ stage["ingest"] = "taken"
    /\ Fault
    /\ \/ UNCHANGED rows
       \/ /\ Message(at["ingest"]).kind # "bad"
          /\ rows' = rows \cup {Message(at["ingest"]).key}
    /\ Stop("ingest", "down")
    /\ UNCHANGED <<posted, misread>>

\* The trigger: a failure is posted, anything else passes.
Trigger ==
    /\ stage["agent-triage"] = "taken"
    /\ posted' = IF Message(at["agent-triage"]).kind = "fail"
                 THEN posted \cup {at["agent-triage"]} ELSE posted
    /\ Handled("agent-triage")
    /\ UNCHANGED <<log, brokerVars, position, at, rows, letterVars, misread, faults>>

\* decode raises because the registry is away, or the trigger's own POST raises: both
\* loops go on as after a bad message.
TakenForBad(g) ==
    /\ stage[g] = "taken"
    /\ Fault
    /\ misread' = misread \cup {at[g]}
    /\ \/ g = "ingest" /\ Park
       \/ /\ g = "agent-triage"
          /\ Handled(g)
          /\ UNCHANGED <<log, brokerVars, position, at, letterVars>>
    /\ UNCHANGED <<rows, posted>>

\* Mutant: the offset is committed as soon as the message is read.
CommitEarly(g) ==
    /\ stage[g] \in {"taken", "handled"}
    /\ asked' = [asked EXCEPT ![g][at[g][1]] = at[g][2]]
    /\ IF stage[g] = "handled"
       THEN stage' = [stage EXCEPT ![g] = "idle"] /\ at' = [at EXCEPT ![g] = None]
       ELSE UNCHANGED <<stage, at>>
    /\ UNCHANGED <<log, committed, position, rows, letterVars, posted, misread, faults>>

\* commit(message): asynchronous, the loop goes on.
Commit(g) ==
    /\ stage[g] = "handled"
    /\ asked' = [asked EXCEPT ![g][at[g][1]] = at[g][2]]
    /\ stage' = [stage EXCEPT ![g] = "idle"]
    /\ at' = [at EXCEPT ![g] = None]
    /\ UNCHANGED <<log, committed, position, rows, letterVars, posted, misread, faults>>

\* The broker stores the offset, or the request fails and nobody looks.
Store(g, p) ==
    /\ asked[g][p] # Unset
    /\ \/ /\ committed' = [committed EXCEPT ![g][p] = asked[g][p]]
          /\ UNCHANGED faults
       \/ Fault /\ UNCHANGED committed
    /\ asked' = [asked EXCEPT ![g][p] = Unset]
    /\ UNCHANGED <<log, position, stage, at, rows, letterVars, posted, misread>>

\* A letter reaches line.dlq, or its delivery times out; there is no callback.
Deliver(s) ==
    /\ queue' = queue \ {s}
    /\ \/ dlq' = dlq \cup {s} /\ UNCHANGED <<lost, faults>>
       \/ Fault /\ lost' = lost \cup {s} /\ UNCHANGED dlq
    /\ UNCHANGED <<log, brokerVars, position, stage, at, rows, posted, misread>>

Crash(g) ==
    /\ stage[g] # "down"
    /\ Fault
    /\ Stop(g, "down")
    /\ UNCHANGED <<rows, posted, misread>>

\* poll() raises a broker error.  Ingest exits and is restarted; the trigger is a
\* daemon thread, so it is over until the agent itself restarts.
PollError(g) ==
    /\ stage[g] = "idle"
    /\ Fault
    /\ Stop(g, IF g = "ingest" THEN "down" ELSE "ended")
    /\ UNCHANGED <<rows, posted, misread>>

\* Mutant: every group starts at the latest message.
ResumeAtLatest(g, p) == Len(log[p])

\* Mutant: the last committed message is read once more.
ResumeOneBack(g, p) == committed[g][p] - 1

ResumeAt(g, p) == IF committed[g][p] = Unset THEN StartOf(g, p) ELSE committed[g][p]

Restart(g) ==
    /\ stage[g] = "down"
    /\ stage' = [stage EXCEPT ![g] = "idle"]
    /\ position' = [position EXCEPT ![g] = [p \in Partition |-> ResumeAt(g, p)]]
    /\ UNCHANGED <<log, brokerVars, at, rows, letterVars, posted, misread, faults>>

-----------------------------------------------------------------------------

Consumer(g) ==
    \/ \E p \in Partition : Poll(g, p) \/ Store(g, p)
    \/ Commit(g) \/ TakenForBad(g) \/ Crash(g) \/ PollError(g) \/ Restart(g)

Next ==
    \/ \E p \in Partition, m \in Messages : Produce(p, m)
    \/ \E g \in Groups : Consumer(g)
    \/ Ingest \/ DatabaseLost \/ Trigger
    \/ \E s \in queue : Deliver(s)

Spec == Init /\ [][Next]_vars

\* Processes that exit are restarted and running loops go on.  The client library
\* carries out what it was asked also when ingest keeps exiting over a full queue:
\* a life of the process is long enough for its threads, again and again, hence
\* the strong fairness.
Fairness ==
    /\ WF_vars(Ingest)
    /\ WF_vars(Trigger)
    /\ \A g \in Groups :
          /\ WF_vars(Restart(g))
          /\ WF_vars(Commit(g))
          /\ \A p \in Partition : WF_vars(Poll(g, p)) /\ SF_vars(Store(g, p))
    /\ SF_vars(\E s \in queue : Deliver(s))

FairSpec == Spec /\ Fairness

-----------------------------------------------------------------------------

TypeOK ==
    /\ log \in [Partition -> Seq(Messages)]
    /\ committed \in [Groups -> [Partition -> Nat \cup {Unset}]]
    /\ asked \in [Groups -> [Partition -> Nat \cup {Unset}]]
    /\ position \in [Groups -> [Partition -> Nat]]
    /\ stage \in [Groups -> {"idle", "taken", "handled", "down", "ended"}]
    /\ at \in [Groups -> Slots \cup {None}]
    /\ rows \subseteq Key
    /\ queue \subseteq Slots
    /\ dlq \subseteq Slots
    /\ lost \subseteq Slots
    /\ posted \subseteq Slots
    /\ misread \subseteq Slots
    /\ faults \in 0..MaxFaults

Letters == queue \cup dlq \cup lost
Settled(s) == s \in Letters \/ (Message(s).kind # "bad" /\ Message(s).key \in rows)

\* What the broker will not deliver to ingest again is in the database, or was
\* rejected into the queue of dead letters: no crash, lost commit or lost
\* database makes the offsets run ahead of the rows (ingest main.py: the offset
\* is committed only after the row is in the database).
CommittedIsSettled ==
    \A p \in Partition : \A o \in 1..committed["ingest"][p] : Settled(<<p, o>>)

\* Only bad messages are parked, or what was read while the registry was away: a
\* message delivered again because its commit was lost is not taken for a bad one
\* (upsert.py: a redelivery is a no-op).
OnlyBadIsParked == \A s \in Letters : Message(s).kind = "bad" \/ s \in misread

Posted(p, o) == Message(<<p, o>>).kind = "fail" => <<p, o>> \in posted \cup misread

\* Each failure behind the trigger's offset was posted, unless it was read while
\* the registry was away or the POST itself raised (consumer.py: a bad record is
\* skipped; the same except branch swallows those two).
CommittedIsPosted ==
    \A p \in EolPartition : \A o \in 1..committed["agent-triage"][p] : Posted(p, o)

\* Every message of the line is settled in the end, whatever stops on the way.
EveryMessageSettles ==
    \A p \in Partition : \A o \in 1..MaxLog :
        (o <= Len(log[p])) ~> (o <= Len(log[p]) /\ Settled(<<p, o>>))

\* What the documentation says: nothing that arrives during an outage is dropped
\* (ADR-007), also on a partition the trigger had not committed to before.
NothingIsDropped == CommittedIsPosted

===============================================================================

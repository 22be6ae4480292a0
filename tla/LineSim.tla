-------------------------------- MODULE LineSim --------------------------------
(***************************************************************************)
(* The edge producer (services/line-sim, C++): it replays a manifest onto  *)
(* the broker at takt.  One thread schedules, produces and serves the      *)
(* delivery reports; librdkafka's queue is bounded; a signal stops the     *)
(* scheduling; what is queued then gets 30 s to be acknowledged, and the   *)
(* exit code says whether everything was.                                  *)
(***************************************************************************)
EXTENDS Integers, Sequences, FiniteSets

CONSTANTS
    Partition,      \* of the topic
    PartitionOf(_), \* the partitioner: the partition of a key
    Manifests,      \* the files it may be given: sequences of lines
    Speed,          \* simulated time over real time; 0: as fast as possible
    QUEUE_MAX,      \* queue.buffering.max.messages
    MaxErrors       \* bound: messages that expire unacknowledged

ASSUME SimAssumption ==
    /\ Speed \in Nat
    /\ QUEUE_MAX \in Nat \ {0}
    /\ MaxErrors \in Nat

VARIABLES
    manifest,  \* the file
    pc,        \* where main() is
    clock,     \* real time since the replay started
    stop,      \* g_stop
    scheduled, \* the counters of /metrics; scheduled is also the loop's index
    delivered,
    errors,
    queue,     \* events librdkafka has no answer for, oldest first
    answered,  \* delivery reports it has not handed over yet
    log,       \* the broker's partitions: indexes into the events
    exit       \* how the process ended

counters == <<scheduled, delivered, errors>>
simVars == <<manifest, pc, clock, stop, counters, queue, answered, log, exit>>

-----------------------------------------------------------------------------
\* Blank lines are skipped, any malformed one refuses the whole file.
Malformed(file) == \E i \in DOMAIN file : file[i].line = "malformed"

IsEvent(line) == line.line = "event"

read_manifest(file) == SelectSeq(file, IsEvent)

\* A file ends: it holds so many events.
ASSUME ManifestAssumption == \A file \in Manifests : Len(read_manifest(file)) \in Nat

events == read_manifest(manifest)
KeyPartition(i) == PartitionOf(events[i].key)

emit_offset(elapsed) == IF Speed = 0 THEN 0 ELSE elapsed \div Speed

due_at(i) == emit_offset(events[i].at - events[1].at)

\* The next event and whether its time has come.
Upcoming == scheduled + 1
More == scheduled < Len(events)
Due == clock >= due_at(Upcoming)

InQueue == Len(queue) + answered.ok + answered.err

NoAnswers == [ok |-> 0, err |-> 0]

SimInit ==
    /\ manifest \in Manifests
    /\ pc = "setup"
    /\ clock = 0
    /\ stop = FALSE
    /\ scheduled = 0 /\ delivered = 0 /\ errors = 0
    /\ queue = <<>>
    /\ answered = NoAnswers
    /\ log = [p \in Partition |-> <<>>]
    /\ exit = "running"

End(code) ==
    /\ pc' = "exited"
    /\ exit' = code

\* rd_kafka_poll: on_delivery for every report there is.
Poll ==
    /\ delivered' = delivered + answered.ok
    /\ errors' = errors + answered.err
    /\ answered' = NoAnswers

-----------------------------------------------------------------------------
\* Arguments, manifest, schema ids: an exception here is exit code 2.
Setup ==
    /\ pc = "setup"
    /\ \/ ~Malformed(manifest) /\ events = <<>> /\ End("0")
       \/ ~Malformed(manifest) /\ events # <<>> /\ pc' = "due" /\ UNCHANGED exit
       \/ End("2")
    /\ UNCHANGED <<manifest, clock, stop, counters, queue, answered, log>>

Signal ==
    /\ pc # "exited"
    /\ ~stop
    /\ stop' = TRUE
    /\ UNCHANGED <<manifest, pc, clock, counters, queue, answered, log, exit>>

Tick ==
    /\ pc = "due" /\ More /\ ~Due
    /\ clock' = clock + 1
    /\ UNCHANGED <<manifest, pc, stop, counters, queue, answered, log, exit>>

\* Short naps until the event is due.
Nap ==
    /\ pc = "due" /\ More /\ ~stop /\ ~Due
    /\ answered # NoAnswers
    /\ Poll
    /\ UNCHANGED <<manifest, pc, clock, stop, scheduled, queue, log, exit>>

Take ==
    /\ pc = "due" /\ More /\ ~stop /\ Due
    /\ pc' = "send"
    /\ UNCHANGED <<manifest, clock, stop, counters, queue, answered, log, exit>>

Enqueue ==
    /\ pc = "send"
    /\ InQueue < QUEUE_MAX
    /\ queue' = Append(queue, Upcoming)
    /\ scheduled' = scheduled + 1
    /\ Poll
    /\ pc' = "due"
    /\ UNCHANGED <<manifest, clock, stop, log, exit>>

\* Mutant: an event the queue has no room for is given up.
QueueFullDrops ==
    /\ pc = "send"
    /\ InQueue >= QUEUE_MAX
    /\ answered # NoAnswers
    /\ Poll
    /\ scheduled' = scheduled + 1
    /\ pc' = "due"
    /\ UNCHANGED <<manifest, clock, stop, queue, log, exit>>

\* Mutant: the reports are not served while it waits for room.
QueueFullSleeps ==
    /\ pc = "send"
    /\ InQueue >= QUEUE_MAX
    /\ answered # NoAnswers
    /\ UNCHANGED simVars

\* Backpressure: serve reports, try the same event again. The signal is not looked at.
QueueFull ==
    /\ pc = "send"
    /\ InQueue >= QUEUE_MAX
    /\ answered # NoAnswers
    /\ Poll
    /\ UNCHANGED <<manifest, pc, clock, stop, scheduled, queue, log, exit>>

\* Any other error is thrown past the joinable metrics thread: std::terminate.
ProduceFails ==
    /\ pc = "send"
    /\ End("aborted")
    /\ UNCHANGED <<manifest, clock, stop, counters, queue, answered, log>>

Leave ==
    /\ pc = "due"
    /\ stop \/ ~More
    /\ pc' = "flush"
    /\ UNCHANGED <<manifest, clock, stop, counters, queue, answered, log, exit>>

\* Mutant: the reports flush serves are not looked at.
ExitCodeFlushed == "0"

ExitCode == IF errors + answered.err = 0 THEN "0" ELSE "1"

\* rd_kafka_flush has every report.
Flushed ==
    /\ pc = "flush"
    /\ queue = <<>>
    /\ Poll
    /\ End(ExitCode)
    /\ UNCHANGED <<manifest, clock, stop, scheduled, queue, log>>

\* The partition logs after the broker has taken the oldest n queued events.
Taken(n) ==
    LET written[i \in 0..n] ==
            IF i = 0 THEN log
            ELSE [written[i - 1] EXCEPT ![KeyPartition(queue[i])] = Append(@, queue[i])]
    IN  written[n]

\* 30 s are over: the rest of the queue is destroyed; requests on the wire may
\* still be carried out.
FlushTimeout ==
    /\ pc = "flush"
    /\ queue # <<>>
    /\ \E n \in 0..Len(queue) : log' = Taken(n)
    /\ queue' = <<>>
    /\ Poll
    /\ End("1")
    /\ UNCHANGED <<manifest, clock, stop, scheduled>>

-----------------------------------------------------------------------------
\* librdkafka and the broker: a partition's oldest event is acknowledged, or
\* expires, written or not.  The idempotent producer keeps a partition's order.
Oldest(i, p) ==
    /\ KeyPartition(queue[i]) = p
    /\ \A j \in 1..(i - 1) : KeyPartition(queue[j]) # p

Without(i) == SubSeq(queue, 1, i - 1) \o SubSeq(queue, i + 1, Len(queue))

Answer(p, written, report) ==
    /\ pc # "exited"
    /\ \E i \in 1..Len(queue) :
          /\ Oldest(i, p)
          /\ queue' = Without(i)
          /\ log' = IF written THEN [log EXCEPT ![p] = Append(@, queue[i])] ELSE log
    /\ answered' = [answered EXCEPT ![report] = @ + 1]
    /\ UNCHANGED <<manifest, pc, clock, stop, counters, exit>>

Acknowledge(p) == Answer(p, TRUE, "ok")

Expire(p) ==
    /\ errors + answered.err < MaxErrors
    /\ \E written \in BOOLEAN : Answer(p, written, "err")

-----------------------------------------------------------------------------
Main ==
    \/ Setup \/ Nap \/ Take \/ Enqueue \/ QueueFull \/ Leave \/ Flushed

SimNext ==
    \/ Main \/ ProduceFails \/ FlushTimeout
    \/ Signal \/ Tick
    \/ \E p \in Partition : Acknowledge(p) \/ Expire(p)

SimSpec == SimInit /\ [][SimNext]_simVars

\* The thread runs and time passes.  The broker owes nothing but the end of
\* the message timeout: an answer, good or bad, for a queued event.
SimFairness ==
    /\ WF_simVars(Main)
    /\ WF_simVars(Tick)
    /\ WF_simVars(FlushTimeout)
    /\ \A p \in Partition : WF_simVars(Acknowledge(p) \/ Expire(p))

-----------------------------------------------------------------------------
SimTypeOK ==
    /\ manifest \in Manifests
    /\ pc \in {"setup", "due", "send", "flush", "exited"}
    /\ clock \in Nat
    /\ stop \in BOOLEAN
    /\ scheduled \in Nat /\ delivered \in Nat /\ errors \in Nat
    /\ queue \in Seq(Nat)
    /\ answered \in [{"ok", "err"} -> Nat]
    /\ log \in [Partition -> Seq(Nat)]
    /\ exit \in {"running", "0", "1", "2", "aborted"}

\* Nothing is lost between the counters: what was scheduled is delivered,
\* failed, or still on its way, until a flush that gave up drops the rest
\* (README: "scheduled == delivered").
NothingUnaccounted ==
    \/ scheduled = delivered + errors + InQueue
    \/ exit = "1" /\ scheduled > delivered + errors

InOrder(s) == \A i, j \in DOMAIN s : i < j => s[i] < s[j]

ScheduledOn(p) == {i \in 1..scheduled : KeyPartition(i) = p}

\* Exit code 0 means what it says: everything that was scheduled is on the
\* topic, each event once and in manifest order within its partition, also
\* after a signal, a full queue and reports that came late.
ExitZeroMeansDelivered ==
    exit = "0" =>
        \A p \in Partition :
            InOrder(log[p]) /\ {log[p][i] : i \in DOMAIN log[p]} = ScheduledOn(p)

\* The replay ends: a broker that answers nothing keeps it neither in the full
\* queue nor in the flush (main.cpp: backpressure; flush for 30 s).
ReplayEnds == <>(pc = "exited")

===============================================================================

-------------------------------- MODULE Stream --------------------------------
(***************************************************************************)
(* The measurements on their way: LineSim replays them, keyed by vehicle,  *)
(* and the detect worker (services/detect: worker.py, run) charts one      *)
(* characteristic whose readings reach it interleaved across partitions.   *)
(* The charts live in the worker's memory; its offsets are committed       *)
(* asynchronously, after the alert is in the producer's queue.             *)
(***************************************************************************)
EXTENDS LineSim, Charts

CONSTANTS
    MaxRewind,  \* bound: commits of a partition that a crash can lose
    MaxCrashes  \* bound: crashes of the worker in a behaviour

ASSUME StreamAssumption == MaxRewind \in Nat /\ MaxCrashes \in Nat

VARIABLES
    position, \* how many readings of each partition the worker has taken
    chart,    \* Charts.series of the characteristic
    seen,     \* the readings charted since the process started
    outbox,   \* alerts in the producer's queue
    crashes

workerVars == <<position, chart, seen, outbox, crashes>>
vars == <<simVars, workerVars>>

Init ==
    /\ SimInit
    /\ position = [p \in Partition |-> 0]
    /\ chart = <<>>
    /\ seen = {}
    /\ outbox = <<>>
    /\ crashes = 0

NextReading(p) == events[log[p][position[p] + 1]]
Point(e) == [at |-> e.at, dev |-> e.dev]
HasNext(p) == position[p] < Len(log[p])

\* A message that does not decode is skipped, a repeat reading is not charted.
Charted(e) == e.readable /\ e.repeat_no = 1

\* The generator's stream: a station measures one vehicle per takt, so a
\* characteristic has one reading at a time, repeats apart (stream.py, generate).
ASSUME ReadingsAssumption ==
    \A file \in Manifests :
        LET read == read_manifest(file)
        IN  \A i, j \in 1..Len(read) :
                Charted(read[i]) =>
                    /\ read[i].at \in Nat /\ read[i].dev \in Int
                    /\ j # i /\ Charted(read[j]) => read[j].at # read[i].at

Alert(x, rule) == [at |-> x.at, rule |-> rule]

\* Mutant: a message that does not decode is polled again.
ReadAgain(p) ==
    /\ HasNext(p)
    /\ NextReading(p).readable
    /\ position' = [position EXCEPT ![p] = @ + 1]

\* poll, and the commit once the reading is charted.
Read(p) ==
    /\ HasNext(p)
    /\ position' = [position EXCEPT ![p] = @ + 1]

Observe(p) ==
    /\ Read(p)
    /\ LET e == NextReading(p)
           o == observe(chart, Point(e))
       IN  IF Charted(e)
           THEN /\ chart' = o.buf
                /\ seen' = seen \cup {Point(e)}
                /\ outbox' = IF o.rule = 0 THEN outbox
                             ELSE Append(outbox, Alert(Point(e), o.rule))
           ELSE UNCHANGED <<chart, seen, outbox>>
    /\ UNCHANGED <<simVars, crashes>>

\* The producer's thread is done with an alert: acknowledged by the broker, or given
\* up at its delivery timeout. produce was given no callback, so the worker does not
\* learn which, and the offset is committed either way.
AlertLeaves ==
    /\ outbox # <<>>
    /\ outbox' = Tail(outbox)
    /\ UNCHANGED <<simVars, position, chart, seen, crashes>>

\* Mutant: no start of the log to stop at.
RewoundPast(p, n) == position[p] - n

\* Where the restarted worker reads on: its last commits may not have landed.
Rewound(p, n) == IF position[p] < n THEN 0 ELSE position[p] - n

\* A crash, a produce or a poll that raises, and the restart: empty windows, and
\* the alerts still in the producer's queue are gone.
Crash ==
    /\ crashes < MaxCrashes
    /\ \E p \in Partition : position[p] > 0
    /\ \E n \in [Partition -> 0..MaxRewind] :
          position' = [p \in Partition |-> Rewound(p, n[p])]
    /\ chart' = <<>>
    /\ seen' = {}
    /\ outbox' = <<>>
    /\ crashes' = crashes + 1
    /\ UNCHANGED simVars

Next ==
    \/ SimNext /\ UNCHANGED workerVars
    \/ \E p \in Partition : Observe(p)
    \/ AlertLeaves
    \/ Crash

Spec == Init /\ [][Next]_vars

\* The simulator's fairness; the worker is restarted whenever it stops.
FairSpec ==
    /\ Spec
    /\ SimFairness
    /\ \A p \in Partition : WF_position(Read(p))
    /\ WF_vars(AlertLeaves)

-----------------------------------------------------------------------------
TypeOK ==
    /\ SimTypeOK
    /\ position \in [Partition -> Nat]
    /\ \A i \in DOMAIN chart : chart[i] \in [at : Nat, dev : Int]
    /\ \A i \in DOMAIN outbox : outbox[i].rule \in 1..4
    /\ crashes \in 0..MaxCrashes

\* The window holds the newest readings the process has seen, in the order they
\* were measured, whatever the order in which the partitions delivered them.
WindowIsNewest ==
    /\ {chart[i] : i \in DOMAIN chart} = Newest(seen, WINDOW)
    /\ \A i, j \in DOMAIN chart : i < j => chart[i].at < chart[j].at

\* A reading is alerted on exactly when it ends a Western Electric run of the
\* newest readings seen since the worker's last start, in measured order, by the
\* lowest such rule: arrival order, the trimming of the window and repeats do not get
\* in its way, and a reading older than a full window is passed over without stopping
\* the worker. Nothing is said of a run that began before the start.
AlertsFollowRules ==
    [][\A p \in Partition :
         position'[p] = position[p] + 1 =>
            LET x == Point(NextReading(p))
                rule == IF Charted(NextReading(p)) THEN CalledFor(seen', x) ELSE 0
            IN  outbox' = IF rule = 0 THEN outbox ELSE Append(outbox, Alert(x, rule))]_vars

\* Every reading on the topic is taken and the producer's queue drains, each alert
\* delivered or given up: the loop survives what does not decode, what a full window
\* drops and a restart. It does not say that an alert is delivered.
ChartsCatchUp ==
    <>[](outbox = <<>> /\ \A p \in Partition : position[p] = Len(log[p]))

\* The readings the worker has taken from the topic, by whichever of its processes.
SoFar ==
    {Point(e) : e \in
        {events[i] : i \in UNION {Range(SubSeq(log[p], 1, position[p])) : p \in Partition}}
            \cap {e \in Range(events) : Charted(e)}}

\* The design (architecture.md:594) has the windows rebuilt when the worker starts: a
\* reading is then alerted on exactly when it ends a run of the newest readings the
\* worker has taken, before or after its last start. The code starts with no window.
RestartKeepsRuns ==
    [][\A p \in Partition :
         position'[p] = position[p] + 1 =>
            LET x == Point(NextReading(p))
                rule == IF Charted(NextReading(p)) THEN CalledFor(SoFar', x) ELSE 0
            IN  outbox' = IF rule = 0 THEN outbox ELSE Append(outbox, Alert(x, rule))]_vars

===============================================================================

----------------------------- MODULE StreamProofs -----------------------------
(***************************************************************************)
(* LineSim's ledger, for every manifest, partitioner, queue size and speed *)
(* and whatever the broker answers, with the worker beside it.             *)
(***************************************************************************)
EXTENDS Stream, SequenceTheorems, WellFoundedInduction, TLAPS

LedgerTypes ==
    /\ scheduled \in Nat /\ delivered \in Nat /\ errors \in Nat
    /\ queue \in Seq(Nat)
    /\ answered \in [{"ok", "err"} -> Nat]

\* Events answered for, and answers on their way to the counters.
Done == delivered + errors
Reports == answered.ok + answered.err

\* Nothing is counted after the process has ended.
Ledger ==
    /\ LedgerTypes
    /\ exit = "1" => pc = "exited"
    /\ NothingUnaccounted

LEMMA Naturals ==
    ASSUME LedgerTypes
    PROVE  Done \in Nat /\ Reports \in Nat /\ Len(queue) \in Nat
BY DEF LedgerTypes, Done, Reports

LEMMA InQueueIs ==
    ASSUME LedgerTypes
    PROVE  InQueue = Len(queue) + Reports
<1>1. Len(queue) \in Nat /\ answered.ok \in Nat /\ answered.err \in Nat
  BY DEF LedgerTypes
<1>. QED
  BY <1>1 DEF InQueue, Reports

\* While the process runs, every scheduled event has exactly one place.
LEMMA RunningBalances ==
    ASSUME Ledger, pc # "exited"
    PROVE  LedgerTypes /\ exit # "1" /\ scheduled = Done + (Len(queue) + Reports)
<1>1. LedgerTypes /\ exit # "1" /\ scheduled = delivered + errors + InQueue
  BY DEF Ledger, NothingUnaccounted
<1>. QED
  BY <1>1, InQueueIs DEF Done

\* It is enough that the types are kept and that every event has its place again.
LEMMA Balanced ==
    ASSUME LedgerTypes', exit' = "1" => pc' = "exited",
           scheduled' = Done' + (Len(queue') + Reports')
    PROVE  Ledger'
<1>1. Len(queue') \in Nat /\ answered'.ok \in Nat /\ answered'.err \in Nat
  BY DEF LedgerTypes
<1>2. InQueue' = Len(queue') + Reports'
  BY <1>1 DEF InQueue, Reports
<1>. QED
  BY <1>2 DEF Ledger, NothingUnaccounted, Done

-----------------------------------------------------------------------------
(* One lemma for each way the ledger can move.                             *)

\* poll hands over reports: they move from answered to the counters.
LEMMA PollBalances ==
    ASSUME LedgerTypes, Poll
    PROVE  /\ delivered' \in Nat /\ errors' \in Nat
           /\ answered' \in [{"ok", "err"} -> Nat]
           /\ Done' = Done + Reports /\ Reports' = 0
<1>1. answered' = [ok |-> 0, err |-> 0]
  BY DEF Poll, NoAnswers
<1>2. answered' \in [{"ok", "err"} -> Nat] /\ Reports' = 0
  BY <1>1 DEF Reports
<1>3. answered.ok \in Nat /\ answered.err \in Nat
  BY DEF LedgerTypes
<1>4. delivered' = delivered + answered.ok /\ errors' = errors + answered.err
  BY DEF Poll
<1>5. Done' = Done + Reports
  BY <1>3, <1>4 DEF LedgerTypes, Done, Reports
<1>. QED
  BY <1>2, <1>3, <1>4, <1>5 DEF LedgerTypes

\* A poll with the schedule and the queue left alone.
LEMMA ServeKeeps ==
    ASSUME Ledger, pc # "exited", Poll, UNCHANGED <<scheduled, queue>>,
           exit' = "1" => pc' = "exited"
    PROVE  Ledger'
<1>1. LedgerTypes /\ scheduled = Done + (Len(queue) + Reports)
  BY RunningBalances
<1>2. LedgerTypes'
  BY <1>1, PollBalances DEF LedgerTypes
<1>3. scheduled' = Done' + (Len(queue') + Reports')
  BY <1>1, PollBalances, Naturals
<1>. QED
  BY <1>2, <1>3, Balanced

\* A step that moves no message.
LEMMA StillKeeps ==
    ASSUME Ledger, pc # "exited", UNCHANGED <<counters, queue, answered>>,
           exit' = "1" => pc' = "exited"
    PROVE  Ledger'
<1>1. LedgerTypes /\ scheduled = Done + (Len(queue) + Reports)
  BY RunningBalances
<1>2. LedgerTypes' /\ Done' = Done /\ Reports' = Reports
  BY <1>1 DEF LedgerTypes, Done, Reports, counters
<1>3. scheduled' = Done' + (Len(queue') + Reports')
  BY <1>1, <1>2 DEF counters
<1>. QED
  BY <1>2, <1>3, Balanced

LEMMA EnqueueKeeps ==
    ASSUME Ledger, Enqueue
    PROVE  Ledger'
<1>1. pc # "exited" /\ Poll /\ UNCHANGED exit
  BY DEF Enqueue
<1>2. LedgerTypes /\ exit # "1" /\ scheduled = Done + (Len(queue) + Reports)
  BY <1>1, RunningBalances
<1>3. scheduled' = scheduled + 1 /\ queue' = Append(queue, scheduled + 1)
  BY DEF Enqueue, Upcoming
<1>4. queue' \in Seq(Nat) /\ Len(queue') = Len(queue) + 1
  BY <1>2, <1>3 DEF LedgerTypes
<1>5. LedgerTypes'
  <2>1. scheduled' \in Nat
    BY <1>2, <1>3 DEF LedgerTypes
  <2>. QED
    BY <1>1, <1>2, <1>4, <2>1, PollBalances DEF LedgerTypes
<1>6. scheduled' = Done' + (Len(queue') + Reports')
  <2>1. Done' = Done + Reports /\ Reports' = 0
    BY <1>1, <1>2, PollBalances
  <2>2. Len(queue') = Len(queue) + 1
    BY <1>4
  <2>. QED
    BY <1>2, <1>3, <2>1, <2>2, Naturals
<1>. QED
  BY <1>1, <1>2, <1>5, <1>6, Balanced

\* An event leaves the queue for one report, good or bad.
LEMMA AnswerKeeps ==
    ASSUME Ledger, NEW p \in Partition, NEW written \in BOOLEAN, NEW report \in {"ok", "err"},
           Answer(p, written, report)
    PROVE  Ledger'
<1>1. pc # "exited" /\ UNCHANGED <<pc, exit, scheduled, delivered, errors>>
  BY DEF Answer, counters
<1>2. LedgerTypes /\ exit # "1" /\ scheduled = Done + (Len(queue) + Reports)
  BY <1>1, RunningBalances
<1>3. PICK i \in 1..Len(queue) : queue' = Without(i)
  BY DEF Answer
<1>4. queue' \in Seq(Nat) /\ Len(queue') = Len(queue) - 1
  <2> DEFINE front == SubSeq(queue, 1, i - 1)
             back == SubSeq(queue, i + 1, Len(queue))
  <2>1. queue \in Seq(Nat) /\ Len(queue) \in Nat
    BY <1>2 DEF LedgerTypes
  <2>2. front \in Seq(Nat) /\ back \in Seq(Nat)
    BY <2>1, SubSeqProperties
  <2>3. Len(front) = i - 1 /\ Len(back) = Len(queue) - i
    BY <2>1, SubSeqProperties
  <2>4. Without(i) \in Seq(Nat) /\ Len(Without(i)) = Len(front) + Len(back)
    BY <2>2, ConcatProperties DEF Without
  <2>5. Len(Without(i)) = Len(queue) - 1
    <3> HIDE DEF front, back
    <3>. QED
      BY <2>1, <2>3, <2>4
  <2>. QED
    BY <1>3, <2>4, <2>5
<1>5. answered' \in [{"ok", "err"} -> Nat] /\ Reports' = Reports + 1
  <2>1. answered \in [{"ok", "err"} -> Nat]
    BY <1>2 DEF LedgerTypes
  <2>2. answered' = [answered EXCEPT ![report] = @ + 1]
    BY DEF Answer
  <2>3. answered[report] + 1 \in Nat
    BY <2>1
  <2>4. answered' \in [{"ok", "err"} -> Nat]
    BY <2>1, <2>2, <2>3
  <2>5. CASE report = "ok"
    <3>1. answered'.ok = answered.ok + 1 /\ answered'.err = answered.err
      BY <2>1, <2>2, <2>5
    <3>. QED
      BY <2>1, <2>4, <3>1 DEF Reports
  <2>6. CASE report = "err"
    <3>1. answered'.ok = answered.ok /\ answered'.err = answered.err + 1
      BY <2>1, <2>2, <2>6
    <3>. QED
      BY <2>1, <2>4, <3>1 DEF Reports
  <2>. QED
    BY <2>4, <2>5, <2>6
<1>6. LedgerTypes'
  BY <1>1, <1>2, <1>4, <1>5 DEF LedgerTypes
<1>7. scheduled' = Done' + (Len(queue') + Reports')
  <2>1. Done' = Done
    BY <1>1 DEF Done
  <2>2. Len(queue') = Len(queue) - 1 /\ Reports' = Reports + 1
    BY <1>4, <1>5
  <2>. QED
    BY <1>1, <1>2, <2>1, <2>2, Naturals
<1>. QED
  BY <1>1, <1>2, <1>6, <1>7, Balanced

\* A flush that gives up: what is left in the queue is what the counters miss.
LEMMA FlushTimeoutKeeps ==
    ASSUME Ledger, FlushTimeout
    PROVE  Ledger'
<1>1. pc # "exited" /\ queue # <<>> /\ Poll /\ queue' = <<>> /\ scheduled' = scheduled
  BY DEF FlushTimeout
<1>2. pc' = "exited" /\ exit' = "1"
  BY DEF FlushTimeout, End
<1>3. LedgerTypes /\ scheduled = Done + (Len(queue) + Reports)
  BY <1>1, RunningBalances
<1>4. Len(queue) \in Nat /\ Len(queue) > 0
  BY <1>1, <1>3 DEF LedgerTypes
<1>5. LedgerTypes'
  BY <1>1, <1>3, PollBalances DEF LedgerTypes
<1>6. scheduled' > delivered' + errors'
  <2>1. scheduled' > Done'
    BY <1>1, <1>3, <1>4, PollBalances, Naturals
  <2>. QED
    BY <2>1 DEF Done
<1>. QED
  BY <1>2, <1>5, <1>6 DEF Ledger, NothingUnaccounted

-----------------------------------------------------------------------------

LEMMA SimKeeps ==
    ASSUME Ledger, SimNext
    PROVE  Ledger'
<1> USE DEF End
<1>1. CASE Setup \/ Take \/ Leave \/ ProduceFails \/ Signal \/ Tick
  <2>1. pc # "exited" /\ UNCHANGED <<counters, queue, answered>>
    BY <1>1 DEF Setup, Take, Leave, ProduceFails, Signal, Tick
  <2>2. exit' = "1" => pc' = "exited"
    BY <1>1 DEF Setup, Take, Leave, ProduceFails, Signal, Tick, Ledger
  <2>. QED
    BY <2>1, <2>2, StillKeeps
<1>2. CASE Nap \/ QueueFull \/ Flushed
  <2>1. pc # "exited" /\ Poll /\ UNCHANGED <<scheduled, queue>>
    BY <1>2 DEF Nap, QueueFull, Flushed
  <2>2. exit' = "1" => pc' = "exited"
    BY <1>2 DEF Nap, QueueFull, Flushed, Ledger
  <2>. QED
    BY <2>1, <2>2, ServeKeeps
<1>3. CASE Enqueue
  BY <1>3, EnqueueKeeps
<1>4. CASE FlushTimeout
  BY <1>4, FlushTimeoutKeeps
<1>5. CASE \E p \in Partition : Acknowledge(p) \/ Expire(p)
  BY <1>5, AnswerKeeps DEF Acknowledge, Expire
<1>. QED
  BY <1>1, <1>2, <1>3, <1>4, <1>5 DEF SimNext, Main

\* The counters of /metrics account for every scheduled event (main.cpp,
\* on_delivery and the send loop), until a flush that gave up leaves a remainder.
THEOREM NothingUnaccountedHolds == Spec => []NothingUnaccounted
<1>1. Init => Ledger
  <2> SUFFICES ASSUME Init PROVE Ledger
    OBVIOUS
  <2>1. answered \in [{"ok", "err"} -> Nat] /\ answered.ok = 0 /\ answered.err = 0
    BY DEF Init, SimInit, NoAnswers
  <2>. QED
    BY <2>1 DEF Init, SimInit, Ledger, LedgerTypes, NothingUnaccounted, InQueue
<1>2. Ledger /\ [Next]_vars => Ledger'
  <2> SUFFICES ASSUME Ledger, [Next]_vars PROVE Ledger'
    OBVIOUS
  <2>1. CASE SimNext
    BY <2>1, SimKeeps
  <2>2. CASE UNCHANGED simVars
    BY <2>2 DEF simVars, counters, Ledger, LedgerTypes, NothingUnaccounted, InQueue
  <2>. QED
    BY <2>1, <2>2 DEF Next, Observe, AlertLeaves, Crash, vars
<1>3. Ledger => NothingUnaccounted
  BY DEF Ledger
<1>. QED
  BY <1>1, <1>2, <1>3, PTL DEF Spec

-----------------------------------------------------------------------------
(* The topic.  In a partition's log the events of that partition stand in  *)
(* manifest order, all of them older than what the queue still holds for   *)
(* it; and as long as nothing has failed, an event that has been scheduled *)
(* is in one of the two.                                                   *)

Elements(s) == {s[i] : i \in 1..Len(s)}

QueueOK == InOrder(queue) /\ \A x \in Elements(queue) : x \in 1..scheduled

LogOK(p) ==
    /\ InOrder(log[p])
    /\ \A x \in Elements(log[p]) :
          /\ x \in 1..scheduled
          /\ KeyPartition(x) = p
          /\ \A y \in Elements(queue) : KeyPartition(y) = p => x < y

Sound == exit \in {"running", "0"} /\ errors + answered.err = 0

NothingMissing ==
    \A x \in 1..scheduled : \A p \in Partition :
        KeyPartition(x) = p => x \in Elements(queue) \cup Elements(log[p])

Flow ==
    /\ exit = "running" <=> pc # "exited"
    /\ pc = "setup" => queue = <<>> /\ errors + answered.err = 0
    /\ pc = "send" => More
    /\ scheduled <= Len(events)
    /\ exit = "0" => queue = <<>> /\ errors + answered.err = 0

TopicOK ==
    /\ QueueOK
    /\ \A p \in Partition : LogOK(p)
    /\ Sound => NothingMissing

SimInv == SimTypeOK /\ Flow /\ TopicOK

LEMMA SameManifest ==
    ASSUME manifest' = manifest
    PROVE  /\ \A i : KeyPartition(i)' = KeyPartition(i)
           /\ events' = events
BY DEF KeyPartition, events

LEMMA SimOfOneManifest ==
    ASSUME SimNext
    PROVE  manifest' = manifest
BY DEF SimNext, Main, Setup, Nap, Take, Enqueue, QueueFull, Leave, Flushed, ProduceFails,
       FlushTimeout, Signal, Tick, Acknowledge, Expire, Answer

LEMMA InOrderIs ==
    ASSUME NEW s \in Seq(Nat)
    PROVE  /\ InOrder(s) <=> \A i, j \in 1..Len(s) : i < j => s[i] < s[j]
           /\ Len(s) \in Nat
           /\ Elements(s) \subseteq Nat
           /\ \A i \in 1..Len(s) : s[i] \in Elements(s)
BY DEF InOrder, Elements

\* An event put behind smaller ones.
LEMMA AppendInOrder ==
    ASSUME NEW s \in Seq(Nat), NEW x \in Nat, InOrder(s), \A y \in Elements(s) : y < x
    PROVE  /\ Append(s, x) \in Seq(Nat)
           /\ InOrder(Append(s, x))
           /\ Elements(Append(s, x)) = Elements(s) \cup {x}
           /\ Len(Append(s, x)) = Len(s) + 1
           /\ \A i \in 1..Len(s) : Append(s, x)[i] = s[i]
<1> DEFINE t == Append(s, x)
<1>1. t \in Seq(Nat) /\ Len(t) = Len(s) + 1 /\ Len(s) \in Nat
  OBVIOUS
<1>2. (\A i \in 1..Len(s) : t[i] = s[i]) /\ t[Len(s) + 1] = x
  OBVIOUS
<1> HIDE DEF t
<1>3. Elements(t) = Elements(s) \cup {x}
  <2>1. Elements(t) \subseteq Elements(s) \cup {x}
    <3>1. ASSUME NEW i \in 1..Len(t)
          PROVE  t[i] \in Elements(s) \cup {x}
      <4>1. i \in 1..Len(s) \/ i = Len(s) + 1
        BY <1>1
      <4>. QED
        BY <1>2, <4>1 DEF Elements
    <3>. QED
      BY <3>1 DEF Elements
  <2>2. Elements(s) \subseteq Elements(t) /\ x \in Elements(t)
    <3>1. \A i \in 1..Len(s) : s[i] = t[i] /\ i \in 1..Len(t)
      BY <1>1, <1>2
    <3>2. Len(s) + 1 \in 1..Len(t)
      BY <1>1
    <3>. QED
      BY <1>2, <3>1, <3>2 DEF Elements
  <2>. QED
    BY <2>1, <2>2
<1>4. InOrder(t)
  <2>1. ASSUME NEW i \in 1..Len(t), NEW j \in 1..Len(t), i < j
        PROVE  t[i] < t[j]
    <3>1. i \in 1..Len(s) /\ t[i] = s[i] /\ s[i] \in Elements(s)
      BY <1>1, <1>2, <2>1 DEF Elements
    <3>2. CASE j = Len(s) + 1
      BY <1>2, <3>1, <3>2
    <3>3. CASE j # Len(s) + 1
      <4>1. j \in 1..Len(s) /\ t[j] = s[j]
        BY <1>1, <1>2, <3>3
      <4>. QED
        BY <2>1, <3>1, <4>1, InOrderIs
    <3>. QED
      BY <3>2, <3>3
  <2>. QED
    BY <1>1, <2>1, InOrderIs
<1>. QED
  BY <1>1, <1>2, <1>3, <1>4 DEF t

\* The queue without its i-th event.
LEMMA WithoutIs ==
    ASSUME queue \in Seq(Nat), InOrder(queue), NEW i \in 1..Len(queue)
    PROVE  /\ Without(i) \in Seq(Nat)
           /\ InOrder(Without(i))
           /\ Elements(Without(i)) = Elements(queue) \ {queue[i]}
<1> DEFINE front == SubSeq(queue, 1, i - 1)
           back == SubSeq(queue, i + 1, Len(queue))
           w == Without(i)
<1>1. Len(queue) \in Nat
  OBVIOUS
<1>2. /\ front \in Seq(Nat) /\ back \in Seq(Nat)
      /\ Len(front) = i - 1 /\ Len(back) = Len(queue) - i
      /\ \A j \in 1..(i - 1) : front[j] = queue[j]
      /\ \A j \in 1..(Len(queue) - i) : back[j] = queue[j + i]
  <2>1. \A j \in 1..Len(queue) : queue[j] \in Nat
    OBVIOUS
  <2>2. /\ front \in Seq(Nat) /\ Len(front) = i - 1
        /\ \A j \in 1..(i - 1) : front[j] = queue[j]
    <3>1. i - 1 \in Int /\ \A j \in 1..(i - 1) : queue[j] \in Nat
      BY <1>1, <2>1
    <3>2. /\ front \in Seq(Nat) /\ Len(front) = IF 1 <= i - 1 THEN (i - 1) - 1 + 1 ELSE 0
          /\ \A j \in 1..((i - 1) - 1 + 1) : front[j] = queue[1 + j - 1]
      BY <3>1, SubSeqProperties
    <3>3. (i - 1) - 1 + 1 = i - 1 /\ \A j \in Int : 1 + j - 1 = j
      BY <1>1
    <3>4. \A j \in 1..(i - 1) : front[j] = queue[j]
      BY <3>2, <3>3
    <3>5. Len(front) = i - 1
      BY <1>1, <3>2
    <3>. QED
      BY <3>2, <3>4, <3>5
  <2>3. /\ back \in Seq(Nat) /\ Len(back) = Len(queue) - i
        /\ \A j \in 1..(Len(queue) - i) : back[j] = queue[j + i]
    <3>1. i + 1 \in Int /\ Len(queue) \in Int /\ \A j \in (i + 1)..Len(queue) : queue[j] \in Nat
      BY <1>1, <2>1
    <3>2. /\ back \in Seq(Nat)
          /\ Len(back) = IF i + 1 <= Len(queue) THEN Len(queue) - (i + 1) + 1 ELSE 0
          /\ \A j \in 1..(Len(queue) - (i + 1) + 1) : back[j] = queue[(i + 1) + j - 1]
      BY <3>1, SubSeqProperties
    <3> HIDE DEF back
    <3>. QED
      BY <1>1, <3>2
  <2>. QED
    BY <2>2, <2>3
<1>3. w = front \o back
  BY DEF Without
<1>4. /\ w \in Seq(Nat) /\ Len(w) = Len(front) + Len(back)
      /\ \A j \in 1..Len(w) : w[j] = IF j <= Len(front) THEN front[j] ELSE back[j - Len(front)]
  <2>1. front \in Seq(Nat) /\ back \in Seq(Nat)
    BY <1>2
  <2> HIDE DEF front, back, w
  <2>2. /\ front \o back \in Seq(Nat) /\ Len(front \o back) = Len(front) + Len(back)
        /\ \A j \in 1..(Len(front) + Len(back)) :
              (front \o back)[j] = IF j <= Len(front) THEN front[j] ELSE back[j - Len(front)]
    BY <2>1, ConcatProperties
  <2>. QED
    BY <1>3, <2>2
<1>5. /\ Len(w) = Len(queue) - 1
      /\ \A j \in 1..Len(w) : w[j] = IF j < i THEN queue[j] ELSE queue[j + 1]
  <2> HIDE DEF front, back, w
  <2>1. Len(w) = Len(queue) - 1
    BY <1>1, <1>2, <1>4
  <2>2. ASSUME NEW j \in 1..Len(w)
        PROVE  w[j] = IF j < i THEN queue[j] ELSE queue[j + 1]
    <3>1. CASE j < i
      <4>1. j \in 1..(i - 1) /\ j <= Len(front)
        BY <1>1, <1>2, <2>1, <3>1
      <4>2. w[j] = front[j]
        BY <1>4, <4>1
      <4>. QED
        BY <1>2, <3>1, <4>1, <4>2
    <3>2. CASE ~(j < i)
      <4>1. j - (i - 1) \in 1..(Len(queue) - i)
        BY <1>1, <2>1, <3>2
      <4>2. w[j] = back[j - (i - 1)]
        BY <1>2, <1>4, <3>2
      <4>3. back[j - (i - 1)] = queue[(j - (i - 1)) + i]
        BY <1>2, <4>1
      <4>. QED
        BY <3>2, <4>2, <4>3
    <3>. QED
      BY <3>1, <3>2
  <2>. QED
    BY <2>1, <2>2
<1> HIDE DEF w
<1>6. \A j, k \in 1..Len(queue) : j < k => queue[j] < queue[k]
  BY InOrderIs
<1>7. InOrder(w)
  <2>1. ASSUME NEW j \in 1..Len(w), NEW k \in 1..Len(w), j < k
        PROVE  w[j] < w[k]
    <3>1. /\ w[j] = IF j < i THEN queue[j] ELSE queue[j + 1]
          /\ w[k] = IF k < i THEN queue[k] ELSE queue[k + 1]
      BY <1>5
    <3>2. j \in 1..Len(queue) /\ j + 1 \in 1..Len(queue) /\ k \in 1..Len(queue) /\ k + 1 \in 1..Len(queue)
      BY <1>1, <1>5
    <3>. QED
      BY <1>6, <2>1, <3>1, <3>2
  <2>. QED
    BY <1>4, <2>1, InOrderIs
<1>8. Elements(w) = Elements(queue) \ {queue[i]}
  <2>1. ASSUME NEW j \in 1..Len(w)
        PROVE  w[j] \in Elements(queue) \ {queue[i]}
    <3>1. CASE j < i
      <4>1. j \in 1..Len(queue) /\ w[j] = queue[j]
        BY <1>1, <1>5, <3>1
      <4>. QED
        BY <1>6, <3>1, <4>1 DEF Elements
    <3>2. CASE ~(j < i)
      <4>1. j + 1 \in 1..Len(queue) /\ w[j] = queue[j + 1] /\ i < j + 1
        BY <1>1, <1>5, <3>2
      <4>. QED
        BY <1>6, <4>1 DEF Elements
    <3>. QED
      BY <3>1, <3>2
  <2>2. ASSUME NEW j \in 1..Len(queue), j # i
        PROVE  queue[j] \in Elements(w)
    <3>1. CASE j < i
      BY <1>1, <1>5, <3>1 DEF Elements
    <3>2. CASE ~(j < i)
      <4>1. j - 1 \in 1..Len(w) /\ ~(j - 1 < i) /\ (j - 1) + 1 = j
        BY <1>1, <1>5, <2>2, <3>2
      <4>2. w[j - 1] = queue[j]
        BY <1>5, <4>1
      <4>. QED
        BY <4>1, <4>2 DEF Elements
    <3>. QED
      BY <3>1, <3>2
  <2>. QED
    BY <2>1, <2>2 DEF Elements
<1>. QED
  BY <1>4, <1>7, <1>8 DEF w

LEMMA TypesGive ==
    ASSUME SimTypeOK
    PROVE  /\ queue \in Seq(Nat) /\ Len(queue) \in Nat /\ Elements(queue) \subseteq Nat
           /\ scheduled \in Nat /\ delivered \in Nat /\ errors \in Nat
           /\ answered.ok \in Nat /\ answered.err \in Nat
           /\ \A p \in Partition :
                 log[p] \in Seq(Nat) /\ Len(log[p]) \in Nat /\ Elements(log[p]) \subseteq Nat
<1>1. queue \in Seq(Nat) /\ \A p \in Partition : log[p] \in Seq(Nat)
  BY DEF SimTypeOK
<1>. QED
  BY <1>1, InOrderIs DEF SimTypeOK

\* A poll counts what librdkafka had to say, no more.
LEMMA PollCounts ==
    ASSUME SimTypeOK, Poll
    PROVE  /\ delivered' \in Nat /\ errors' \in Nat
           /\ answered' \in [{"ok", "err"} -> Nat]
           /\ errors' + answered'.err = errors + answered.err
<1>1. LedgerTypes
  BY DEF SimTypeOK, LedgerTypes
<1>2. answered'.err = 0 /\ errors' = errors + answered.err
  BY DEF Poll, NoAnswers
<1>. QED
  BY <1>1, <1>2, PollBalances, TypesGive

\* Neither the queue nor the topic is touched.
LEMMA TopicStays ==
    ASSUME TopicOK, UNCHANGED <<manifest, scheduled, queue, log>>, Sound' => Sound
    PROVE  TopicOK'
<1>1. QueueOK'
  BY DEF TopicOK, QueueOK, InOrder, Elements
<1>2. ASSUME NEW p \in Partition
      PROVE  LogOK(p)'
  <2>1. LogOK(p) /\ log'[p] = log[p]
    BY <1>2 DEF TopicOK
  <2>. QED
    BY <2>1, SameManifest DEF LogOK
<1>3. NothingMissing => NothingMissing'
  BY SameManifest DEF NothingMissing
<1>. QED
  BY <1>1, <1>2, <1>3 DEF TopicOK

\* The next event joins the queue behind everything scheduled before it.
LEMMA EnqueueTopic ==
    ASSUME SimTypeOK, TopicOK, Enqueue
    PROVE  TopicOK' /\ queue' \in Seq(Nat)
<1>1. /\ manifest' = manifest /\ log' = log /\ exit' = exit /\ Poll
      /\ scheduled' = scheduled + 1 /\ queue' = Append(queue, scheduled + 1)
  BY DEF Enqueue, Upcoming
<1>2. queue \in Seq(Nat) /\ InOrder(queue) /\ scheduled \in Nat
  BY TypesGive DEF TopicOK, QueueOK
<1>3. \A y \in Elements(queue) : y \in 1..scheduled /\ y < scheduled + 1
  BY <1>2 DEF TopicOK, QueueOK
<1>4. /\ queue' \in Seq(Nat) /\ InOrder(queue')
      /\ Elements(queue') = Elements(queue) \cup {scheduled + 1}
  BY <1>1, <1>2, <1>3, AppendInOrder
<1>5. QueueOK'
  <2>1. \A x \in Elements(queue') : x \in 1..scheduled'
    BY <1>1, <1>2, <1>3, <1>4
  <2>. QED
    BY <1>4, <2>1 DEF QueueOK
<1>6. ASSUME NEW p \in Partition
      PROVE  LogOK(p)'
  <2>1. LogOK(p)
    BY <1>6 DEF TopicOK
  <2>2. ASSUME NEW x \in Elements(log[p])
        PROVE  /\ x \in 1..scheduled' /\ KeyPartition(x)' = p
               /\ \A y \in Elements(queue') : KeyPartition(y)' = p => x < y
    <3>1. /\ x \in 1..scheduled /\ KeyPartition(x) = p
          /\ \A y \in Elements(queue) : KeyPartition(y) = p => x < y
      BY <2>1, <2>2 DEF LogOK
    <3>2. x < scheduled + 1 /\ x \in 1..(scheduled + 1)
      BY <1>2, <3>1
    <3>. QED
      BY <1>1, <1>4, <3>1, <3>2, SameManifest
  <2>. QED
    BY <1>1, <2>1, <2>2 DEF LogOK
<1>7. ASSUME Sound'
      PROVE  NothingMissing'
  <2>1. Sound
    BY <1>1, <1>7, PollCounts DEF Sound
  <2>2. NothingMissing
    BY <2>1 DEF TopicOK
  <2>3. ASSUME NEW x \in 1..(scheduled + 1), NEW p \in Partition, KeyPartition(x) = p
        PROVE  x \in Elements(queue') \cup Elements(log[p])
    <3>1. x \in 1..scheduled \/ x = scheduled + 1
      BY <1>2
    <3>. QED
      BY <1>4, <2>2, <2>3, <3>1 DEF NothingMissing
  <2>. QED
    BY <1>1, <2>3, SameManifest DEF NothingMissing
<1>. QED
  BY <1>4, <1>5, <1>6, <1>7 DEF TopicOK

\* A partition's oldest event leaves the queue, for its log or for nowhere.
LEMMA AnswerTopic ==
    ASSUME SimTypeOK, TopicOK,
           NEW p \in Partition, NEW written \in BOOLEAN, NEW report \in {"ok", "err"},
           Answer(p, written, report), written \/ report = "err"
    PROVE  /\ TopicOK'
           /\ queue' \in Seq(Nat) /\ log' \in [Partition -> Seq(Nat)]
           /\ answered' \in [{"ok", "err"} -> Nat]
<1>1. PICK i \in 1..Len(queue) :
          /\ Oldest(i, p)
          /\ queue' = Without(i)
          /\ log' = IF written THEN [log EXCEPT ![p] = Append(@, queue[i])] ELSE log
  BY DEF Answer
<1>2. /\ manifest' = manifest /\ scheduled' = scheduled /\ errors' = errors /\ exit' = exit
      /\ answered' = [answered EXCEPT ![report] = @ + 1]
  BY DEF Answer, counters
<1> DEFINE e == queue[i]
<1>3. /\ queue \in Seq(Nat) /\ InOrder(queue) /\ Len(queue) \in Nat /\ scheduled \in Nat
      /\ log \in [Partition -> Seq(Nat)] /\ answered \in [{"ok", "err"} -> Nat]
  BY TypesGive DEF TopicOK, QueueOK, SimTypeOK
<1>4. e \in Elements(queue) /\ e \in 1..scheduled /\ KeyPartition(e) = p
  BY <1>1, <1>3, InOrderIs DEF TopicOK, QueueOK, Oldest
<1>5. /\ queue' \in Seq(Nat) /\ InOrder(queue')
      /\ Elements(queue') = Elements(queue) \ {e}
  BY <1>1, <1>3, WithoutIs
<1>6. \A y \in Elements(queue') : KeyPartition(y) = p => e < y
  <2>1. ASSUME NEW j \in 1..Len(queue), KeyPartition(queue[j]) = p, queue[j] # e
        PROVE  e < queue[j]
    <3>1. j > i
      <4>1. j \notin 1..(i - 1)
        BY <1>1, <2>1 DEF Oldest
      <4>. QED
        BY <1>3, <2>1, <4>1
    <3>. QED
      BY <1>3, <3>1, InOrderIs
  <2>. QED
    BY <1>5, <2>1 DEF Elements
<1>7. QueueOK'
  BY <1>2, <1>5 DEF TopicOK, QueueOK
<1>8. /\ log[p] \in Seq(Nat) /\ InOrder(log[p]) /\ e \in Nat
      /\ \A y \in Elements(log[p]) : y < e
  <2>1. LogOK(p)
    BY DEF TopicOK
  <2>2. \A y \in Elements(log[p]) : y < e
    BY <1>4, <2>1 DEF LogOK
  <2>. QED
    BY <1>3, <1>4, <2>1, <2>2 DEF LogOK
<1>9. /\ log' \in [Partition -> Seq(Nat)]
      /\ \A q \in Partition : q # p => log'[q] = log[q]
      /\ InOrder(log'[p])
      /\ Elements(log'[p]) = IF written THEN Elements(log[p]) \cup {e} ELSE Elements(log[p])
  <2>1. CASE written
    <3>1. /\ Append(log[p], e) \in Seq(Nat) /\ InOrder(Append(log[p], e))
          /\ Elements(Append(log[p], e)) = Elements(log[p]) \cup {e}
      BY <1>8, AppendInOrder
    <3>2. log' = [log EXCEPT ![p] = Append(log[p], e)]
      BY <1>1, <2>1
    <3>3. log'[p] = Append(log[p], e) /\ \A q \in Partition : q # p => log'[q] = log[q]
      BY <1>3, <3>2
    <3>. QED
      BY <1>3, <2>1, <3>1, <3>2, <3>3
  <2>2. CASE ~written
    BY <1>1, <1>3, <1>8, <2>2
  <2>. QED
    BY <2>1, <2>2
<1> HIDE DEF e
<1>10. ASSUME NEW q \in Partition
       PROVE  LogOK(q)'
  <2>1. LogOK(q)
    BY <1>10 DEF TopicOK
  <2>2. InOrder(log'[q])
    BY <1>9, <2>1 DEF LogOK
  <2>3. ASSUME NEW x \in Elements(log'[q])
        PROVE  /\ x \in 1..scheduled /\ KeyPartition(x) = q
               /\ \A y \in Elements(queue') : KeyPartition(y) = q => x < y
    <3>1. CASE x \in Elements(log[q])
      BY <1>5, <2>1, <3>1 DEF LogOK
    <3>2. CASE x \notin Elements(log[q])
      <4>1. q = p /\ x = e
        BY <1>9, <2>3, <3>2
      <4>. QED
        BY <1>4, <1>6, <4>1
    <3>. QED
      BY <3>1, <3>2
  <2>. QED
    BY <1>2, <2>2, <2>3, SameManifest DEF LogOK
<1>11. ASSUME Sound'
       PROVE  NothingMissing'
  <2>1. report = "ok" /\ answered'.err = answered.err
    <3>1. CASE report = "err"
      <4>1. answered'.err = answered.err + 1
        BY <1>2, <1>3, <3>1
      <4>. QED
        BY <1>2, <1>11, <4>1, TypesGive DEF Sound
    <3>2. CASE report = "ok"
      BY <1>2, <1>3, <3>2
    <3>. QED
      BY <3>1, <3>2
  <2>2. Sound /\ written
    BY <1>2, <1>11, <2>1 DEF Sound
  <2>3. NothingMissing
    BY <2>2 DEF TopicOK
  <2>4. ASSUME NEW x \in 1..scheduled, NEW q \in Partition, KeyPartition(x) = q
        PROVE  x \in Elements(queue') \cup Elements(log'[q])
    <3>1. x \in Elements(queue) \cup Elements(log[q])
      BY <2>3, <2>4 DEF NothingMissing
    <3>2. CASE x = e
      BY <1>4, <1>9, <2>2, <2>4, <3>2
    <3>3. CASE x # e
      BY <1>5, <1>9, <3>1, <3>3
    <3>. QED
      BY <3>2, <3>3
  <2>. QED
    BY <1>2, <2>4, SameManifest DEF NothingMissing
<1>12. answered' \in [{"ok", "err"} -> Nat]
  BY <1>2, <1>3
<1>. QED
  BY <1>5, <1>7, <1>9, <1>10, <1>11, <1>12 DEF TopicOK

-----------------------------------------------------------------------------
(* What a flush that gives up may leave on the topic.  Taken is recursive:  *)
(* that it is defined, and what it holds, goes by induction on the number   *)
(* of events, in the form "a set of naturals closed under + 1".             *)

LEMMA SetInduction ==
    ASSUME NEW T, T \subseteq Nat, 0 \in T, \A n \in T : n + 1 \in T
    PROVE  T = Nat
<1> DEFINE U == Nat \ T
           R == OpToRel(<, Nat)
<1>1. IsWellFoundedOn(R, Nat)
  BY NatLessThanWellFounded
<1>2. \A x, y \in Nat : y < x => <<y, x>> \in R
  BY DEF OpToRel
<1> HIDE DEF R
<1>3. SUFFICES ASSUME U # {} PROVE FALSE
  BY DEF U
<1>4. \E x \in U : \A y \in U : ~(<<y, x>> \in R)
  <2>1. U \subseteq Nat
    OBVIOUS
  <2> HIDE DEF U
  <2>. QED
    BY <1>1, <1>3, <2>1, WFMin
<1>5. PICK x \in U : \A y \in U : ~(<<y, x>> \in R)
  BY <1>4
<1>6. x \in Nat /\ x - 1 \in Nat /\ x - 1 \notin T
  <2>1. x - 1 \in T => (x - 1) + 1 \in T
    OBVIOUS
  <2>. QED
    BY <2>1
<1>7. x - 1 \in U /\ x - 1 < x
  BY <1>6
<1>8. <<x - 1, x>> \in R
  BY <1>2, <1>6, <1>7
<1>. QED
  BY <1>5, <1>7, <1>8

\* One more event on its partition.
Grown(logs, i) == [logs EXCEPT ![KeyPartition(queue[i])] = Append(@, queue[i])]

LEMMA TakenIs ==
    ASSUME NEW n \in Nat
    PROVE  \E w : /\ w = [i \in 0..n |-> IF i = 0 THEN log ELSE Grown(w[i - 1], i)]
                  /\ Taken(n) = w[n]
<1> DEFINE Follows(w, m) == w = [i \in 0..m |-> IF i = 0 THEN log ELSE Grown(w[i - 1], i)]
           T == {m \in Nat : \E w : Follows(w, m)}
<1>1. 0 \in T
  <2> DEFINE w == [i \in 0..0 |-> log]
  <2>1. Follows(w, 0)
    OBVIOUS
  <2>. QED
    BY <2>1
<1>2. ASSUME NEW m \in T
      PROVE  m + 1 \in T
  <2>1. PICK w : Follows(w, m)
    BY <1>2
  <2> DEFINE v == [i \in 0..(m + 1) |-> IF i = m + 1 THEN Grown(w[m], m + 1) ELSE w[i]]
  <2>2. m \in Nat
    BY <1>2
  <2>3. \A i \in 0..m : w[i] = IF i = 0 THEN log ELSE Grown(w[i - 1], i)
    BY <2>1
  <2>4. ASSUME NEW i \in 0..(m + 1)
        PROVE  v[i] = IF i = 0 THEN log ELSE Grown(v[i - 1], i)
    <3>1. CASE i = m + 1
      <4>1. v[i - 1] = w[m]
        BY <2>2, <3>1
      <4>. QED
        BY <2>2, <3>1, <4>1
    <3>2. CASE i # m + 1
      <4>1. i \in 0..m /\ v[i] = w[i]
        BY <2>2, <3>2
      <4>2. i # 0 => v[i - 1] = w[i - 1]
        BY <2>2, <4>1
      <4>. QED
        BY <2>3, <4>1, <4>2
    <3>. QED
      BY <3>1, <3>2
  <2>5. Follows(v, m + 1)
    <3>1. v = [i \in 0..(m + 1) |-> v[i]]
      OBVIOUS
    <3> HIDE DEF v
    <3>. QED
      BY <2>4, <3>1
  <2>6. \E u : Follows(u, m + 1)
    <3> HIDE DEF v, Follows
    <3>. QED
      BY <2>5
  <2>. QED
    BY <2>2, <2>6
<1>3. T = Nat
  <2>1. T \subseteq Nat
    OBVIOUS
  <2> HIDE DEF T
  <2>. QED
    BY <1>1, <1>2, <2>1, SetInduction
<1>4. \E w : Follows(w, n)
  BY <1>3
<1> DEFINE written == CHOOSE w : Follows(w, n)
<1>5. Follows(written, n)
  BY <1>4
<1>6. Taken(n) = written[n]
  BY DEF Taken, Grown
<1>. QED
  BY <1>5, <1>6

\* Nothing that is in a log is taken out of it.
Extends(s, t) == Len(s) <= Len(t) /\ \A k \in 1..Len(s) : t[k] = s[k]

\* The logs once the broker has the oldest m queued events.
TakenOK(logs, m) ==
    /\ logs \in [Partition -> Seq(Nat)]
    /\ \A p \in Partition :
          /\ InOrder(logs[p])
          /\ Extends(log[p], logs[p])
          /\ \A x \in Elements(logs[p]) :
                /\ x \in 1..scheduled
                /\ KeyPartition(x) = p
                /\ \A j \in (m + 1)..Len(queue) : KeyPartition(queue[j]) = p => x < queue[j]

LEMMA GrownKeeps ==
    ASSUME SimTypeOK, TopicOK, NEW i \in 1..Len(queue), NEW logs, TakenOK(logs, i - 1)
    PROVE  TakenOK(Grown(logs, i), i)
<1> DEFINE e == queue[i]
           q == KeyPartition(queue[i])
           grown == Grown(logs, i)
<1>1. /\ queue \in Seq(Nat) /\ InOrder(queue) /\ Len(queue) \in Nat /\ scheduled \in Nat
      /\ e \in 1..scheduled /\ e \in Nat
  <2>1. queue \in Seq(Nat) /\ InOrder(queue) /\ Len(queue) \in Nat /\ scheduled \in Nat
    BY TypesGive DEF TopicOK, QueueOK
  <2>2. e \in Elements(queue)
    BY DEF Elements
  <2>. QED
    BY <2>1, <2>2 DEF TopicOK, QueueOK
<1>2. logs \in [Partition -> Seq(Nat)] /\ (i - 1) + 1 = i
  BY <1>1 DEF TakenOK
<1>3. grown = [logs EXCEPT ![q] = Append(logs[q], e)]
  BY DEF Grown
<1>4. \A j \in (i + 1)..Len(queue) : e < queue[j] /\ j \in i..Len(queue)
  BY <1>1, InOrderIs
<1>5. ASSUME NEW p \in Partition
      PROVE  /\ grown[p] \in Seq(Nat)
             /\ InOrder(grown[p])
             /\ Extends(log[p], grown[p])
             /\ \A x \in Elements(grown[p]) :
                   /\ x \in 1..scheduled
                   /\ KeyPartition(x) = p
                   /\ \A j \in (i + 1)..Len(queue) : KeyPartition(queue[j]) = p => x < queue[j]
  <2>1. /\ logs[p] \in Seq(Nat) /\ InOrder(logs[p]) /\ Extends(log[p], logs[p])
        /\ \A x \in Elements(logs[p]) :
              /\ x \in 1..scheduled
              /\ KeyPartition(x) = p
              /\ \A j \in i..Len(queue) : KeyPartition(queue[j]) = p => x < queue[j]
    BY <1>2 DEF TakenOK
  <2>2. CASE p # q
    <3>1. grown[p] = logs[p]
      BY <1>2, <1>3, <2>2
    <3>. QED
      BY <1>4, <2>1, <3>1
  <2>3. CASE p = q
    <3>1. grown[p] = Append(logs[p], e)
      BY <1>2, <1>3, <2>3
    <3>2. \A x \in Elements(logs[p]) : x < e
      <4>1. i \in i..Len(queue) /\ KeyPartition(queue[i]) = p
        BY <1>1, <2>3
      <4>. QED
        BY <2>1, <4>1
    <3>3. /\ grown[p] \in Seq(Nat) /\ InOrder(grown[p])
          /\ Elements(grown[p]) = Elements(logs[p]) \cup {e}
          /\ Len(grown[p]) = Len(logs[p]) + 1
          /\ \A k \in 1..Len(logs[p]) : grown[p][k] = logs[p][k]
      <4> HIDE DEF e, q, grown
      <4>. QED
        BY <1>1, <2>1, <3>1, <3>2, AppendInOrder
    <3>4. Extends(log[p], grown[p])
      <4>1. Len(log[p]) \in Nat /\ Len(logs[p]) \in Nat /\ Len(log[p]) <= Len(logs[p])
        BY <2>1, TypesGive DEF Extends
      <4> HIDE DEF grown
      <4>2. \A k \in 1..Len(log[p]) : k \in 1..Len(logs[p]) /\ logs[p][k] = log[p][k]
        BY <2>1, <4>1 DEF Extends
      <4>3. Len(log[p]) <= Len(grown[p])
        BY <3>3, <4>1
      <4>4. \A k \in 1..Len(log[p]) : grown[p][k] = log[p][k]
        BY <3>3, <4>2
      <4>. QED
        BY <4>3, <4>4 DEF Extends
    <3>5. ASSUME NEW x \in Elements(grown[p])
          PROVE  /\ x \in 1..scheduled
                 /\ KeyPartition(x) = p
                 /\ \A j \in (i + 1)..Len(queue) : KeyPartition(queue[j]) = p => x < queue[j]
      <4>1. CASE x = e
        BY <1>1, <1>4, <2>3, <4>1
      <4>2. CASE x \in Elements(logs[p])
        BY <1>4, <2>1, <4>2
      <4> HIDE DEF e, q, grown
      <4>. QED
        BY <3>3, <3>5, <4>1, <4>2
    <3>. QED
      BY <3>3, <3>4, <3>5
  <2>. QED
    BY <2>2, <2>3
<1>6. grown \in [Partition -> Seq(Nat)]
  <2>1. grown = [p \in Partition |-> grown[p]]
    BY <1>2, <1>3
  <2> HIDE DEF grown
  <2>. QED
    BY <1>5, <2>1
<1>. QED
  BY <1>5, <1>6 DEF TakenOK

LEMMA TakenHolds ==
    ASSUME SimTypeOK, TopicOK, NEW n \in 0..Len(queue)
    PROVE  TakenOK(Taken(n), n)
<1>1. n \in Nat /\ Len(queue) \in Nat
  BY TypesGive
<1>2. PICK w : /\ w = [i \in 0..n |-> IF i = 0 THEN log ELSE Grown(w[i - 1], i)]
               /\ Taken(n) = w[n]
  BY <1>1, TakenIs
<1>3. \A i \in 0..n : w[i] = IF i = 0 THEN log ELSE Grown(w[i - 1], i)
  BY <1>2
<1> DEFINE T == {m \in Nat : m <= n => TakenOK(w[m], m)}
<1>4. 0 \in T
  <2>1. w[0] = log
    BY <1>1, <1>3
  <2>2. ASSUME NEW p \in Partition
        PROVE  /\ InOrder(log[p]) /\ Extends(log[p], log[p])
               /\ \A x \in Elements(log[p]) :
                     /\ x \in 1..scheduled
                     /\ KeyPartition(x) = p
                     /\ \A j \in 1..Len(queue) : KeyPartition(queue[j]) = p => x < queue[j]
    <3>1. LogOK(p) /\ Len(log[p]) \in Nat
      BY <2>2, TypesGive DEF TopicOK
    <3>2. \A j \in 1..Len(queue) : queue[j] \in Elements(queue)
      BY DEF Elements
    <3>. QED
      BY <3>1, <3>2 DEF LogOK, Extends
  <2>3. log \in [Partition -> Seq(Nat)]
    BY DEF SimTypeOK
  <2>4. TakenOK(log, 0)
    BY <2>2, <2>3 DEF TakenOK
  <2>. QED
    BY <2>1, <2>4
<1>5. ASSUME NEW m \in T
      PROVE  m + 1 \in T
  <2>1. m \in Nat /\ m + 1 \in Nat
    BY <1>5
  <2>2. SUFFICES ASSUME m + 1 <= n PROVE TakenOK(w[m + 1], m + 1)
    BY <2>1
  <2>3. TakenOK(w[m], (m + 1) - 1) /\ m + 1 \in 1..Len(queue)
    BY <1>1, <1>5, <2>1, <2>2
  <2>4. w[m + 1] = Grown(w[m], m + 1)
    <3>1. m + 1 \in 0..n /\ m + 1 # 0 /\ (m + 1) - 1 = m
      BY <1>1, <2>1, <2>2
    <3>. QED
      BY <1>3, <3>1
  <2>. QED
    BY <2>3, <2>4, GrownKeeps
<1>6. T = Nat
  <2>1. T \subseteq Nat
    OBVIOUS
  <2> HIDE DEF T
  <2>. QED
    BY <1>4, <1>5, <2>1, SetInduction
<1>7. TakenOK(w[n], n)
  BY <1>1, <1>6
<1>. QED
  BY <1>2, <1>7

-----------------------------------------------------------------------------
(* The invariant of the simulator, step by step.                           *)

LEMMA FlushTimeoutTopic ==
    ASSUME SimTypeOK, TopicOK, FlushTimeout
    PROVE  TopicOK' /\ log' \in [Partition -> Seq(Nat)]
<1>1. /\ manifest' = manifest /\ scheduled' = scheduled /\ queue' = <<>> /\ exit' = "1"
      /\ \E n \in 0..Len(queue) : log' = Taken(n)
  BY DEF FlushTimeout, End
<1>2. PICK n \in 0..Len(queue) : TakenOK(log', n)
  BY <1>1, TakenHolds
<1>3. queue' \in Seq(Nat) /\ Len(queue') = 0
  BY <1>1
<1>4. QueueOK'
  <2>1. Elements(queue') = {}
    BY <1>3 DEF Elements
  <2>2. InOrder(queue')
    BY <1>1 DEF InOrder
  <2>. QED
    BY <2>1, <2>2 DEF QueueOK
<1>5. ASSUME NEW p \in Partition
      PROVE  LogOK(p)'
  <2>1. /\ InOrder(log'[p])
        /\ \A x \in Elements(log'[p]) : x \in 1..scheduled /\ KeyPartition(x) = p
    BY <1>2 DEF TakenOK
  <2>2. Elements(queue') = {}
    BY <1>3 DEF Elements
  <2>. QED
    BY <1>1, <2>1, <2>2, SameManifest DEF LogOK
<1>6. ~Sound'
  BY <1>1 DEF Sound
<1>. QED
  BY <1>2, <1>4, <1>5, <1>6 DEF TopicOK, TakenOK

LEMMA SimTopic ==
    ASSUME SimInv, SimNext
    PROVE  TopicOK' /\ queue' \in Seq(Nat) /\ log' \in [Partition -> Seq(Nat)]
           /\ answered' \in [{"ok", "err"} -> Nat]
           /\ scheduled' \in Nat /\ delivered' \in Nat /\ errors' \in Nat
<1>1. SimTypeOK /\ Flow /\ TopicOK
  BY DEF SimInv
<1>2. /\ queue \in Seq(Nat) /\ log \in [Partition -> Seq(Nat)]
      /\ answered \in [{"ok", "err"} -> Nat]
      /\ scheduled \in Nat /\ delivered \in Nat /\ errors \in Nat
  BY <1>1 DEF SimTypeOK
<1>3. CASE Setup \/ Take \/ Leave \/ ProduceFails \/ Signal \/ Tick
  <2>1. pc # "exited" /\ UNCHANGED <<manifest, scheduled, delivered, errors, queue, answered, log>>
    BY <1>3 DEF Setup, Take, Leave, ProduceFails, Signal, Tick, counters
  <2>2. exit = "running"
    BY <1>1, <2>1 DEF Flow
  <2>3. Sound' => Sound
    BY <2>1, <2>2 DEF Sound
  <2>. QED
    BY <1>1, <1>2, <2>1, <2>3, TopicStays
<1>4. CASE Nap \/ QueueFull \/ Flushed
  <2>1. pc # "exited" /\ Poll /\ UNCHANGED <<manifest, scheduled, queue, log>>
    BY <1>4 DEF Nap, QueueFull, Flushed
  <2>2. exit = "running"
    BY <1>1, <2>1 DEF Flow
  <2>3. Sound' => Sound
    BY <1>1, <2>1, <2>2, PollCounts DEF Sound
  <2>. QED
    BY <1>1, <1>2, <2>1, <2>3, PollCounts, TopicStays
<1>5. CASE Enqueue
  <2>1. Poll /\ log' = log /\ scheduled' = scheduled + 1
    BY <1>5 DEF Enqueue
  <2>. QED
    BY <1>1, <1>2, <1>5, <2>1, PollCounts, EnqueueTopic
<1>6. CASE FlushTimeout
  <2>1. Poll /\ queue' = <<>> /\ scheduled' = scheduled
    BY <1>6 DEF FlushTimeout
  <2>. QED
    BY <1>1, <1>2, <1>6, <2>1, PollCounts, FlushTimeoutTopic
<1>7. CASE \E p \in Partition : Acknowledge(p) \/ Expire(p)
  <2>1. PICK p \in Partition, written \in BOOLEAN, report \in {"ok", "err"} :
            Answer(p, written, report) /\ (written \/ report = "err")
    BY <1>7 DEF Acknowledge, Expire
  <2>2. UNCHANGED <<scheduled, delivered, errors>>
    BY <2>1 DEF Answer, counters
  <2>. QED
    BY <1>1, <1>2, <2>1, <2>2, AnswerTopic
<1>. QED
  BY <1>3, <1>4, <1>5, <1>6, <1>7 DEF SimNext, Main

LEMMA SimTypes ==
    ASSUME SimInv, SimNext
    PROVE  SimTypeOK'
<1>1. SimTypeOK
  BY DEF SimInv
<1>2. manifest' \in Manifests
  BY <1>1, SimOfOneManifest DEF SimTypeOK
<1>3. /\ pc' \in {"setup", "due", "send", "flush", "exited"}
      /\ exit' \in {"running", "0", "1", "2", "aborted"}
  <2>1. CASE Setup \/ Flushed
    BY <1>1, <2>1 DEF SimTypeOK, Setup, Flushed, End, ExitCode
  <2>2. CASE Nap \/ Take \/ Enqueue \/ QueueFull \/ Leave
    BY <1>1, <2>2 DEF SimTypeOK, Nap, Take, Enqueue, QueueFull, Leave
  <2>3. CASE ProduceFails \/ FlushTimeout \/ Signal \/ Tick
    BY <1>1, <2>3 DEF SimTypeOK, ProduceFails, FlushTimeout, Signal, Tick, End
  <2>4. CASE \E p \in Partition : Acknowledge(p) \/ Expire(p)
    BY <1>1, <2>4 DEF SimTypeOK, Acknowledge, Expire, Answer
  <2>. QED
    BY <2>1, <2>2, <2>3, <2>4 DEF SimNext, Main
<1>4. clock' \in Nat /\ stop' \in BOOLEAN
  <2>1. CASE Signal \/ Tick
    <3>1. clock' = clock \/ clock' = clock + 1
      BY <2>1 DEF Signal, Tick
    <3>2. stop' = TRUE \/ stop' = stop
      BY <2>1 DEF Signal, Tick
    <3>3. clock \in Nat /\ stop \in BOOLEAN
      BY <1>1 DEF SimTypeOK
    <3>4. clock' \in Nat
      BY <3>1, <3>3
    <3>5. stop' \in BOOLEAN
      BY <3>2, <3>3, Zenon
    <3>. QED
      BY <3>4, <3>5
  <2>2. CASE ~(Signal \/ Tick)
    <3>1. clock' = clock /\ stop' = stop
      BY <2>2 DEF SimNext, Main, Setup, Nap, Take, Enqueue, QueueFull, Leave, Flushed,
                  ProduceFails, FlushTimeout, Acknowledge, Expire, Answer
    <3>. QED
      BY <1>1, <3>1 DEF SimTypeOK
  <2>. QED
    BY <2>1, <2>2
<1>. QED
  BY <1>2, <1>3, <1>4, SimTopic DEF SimTypeOK

\* A replay reads no further than the file goes.
LEMMA SimFlow ==
    ASSUME SimInv, SimNext, Len(events) \in Nat
    PROVE  Flow'
<1>1. SimTypeOK /\ Flow /\ events' = events
  BY SimOfOneManifest, SameManifest DEF SimInv
<1>2. /\ scheduled \in Nat /\ errors \in Nat /\ answered.err \in Nat
      /\ pc # "exited" => exit = "running"
  BY <1>1, TypesGive DEF Flow
<1>3. CASE Setup
  <2>1. /\ queue = <<>> /\ errors + answered.err = 0 /\ pc = "setup"
        /\ UNCHANGED <<scheduled, errors, queue, answered>>
    BY <1>1, <1>3 DEF Setup, Flow, counters
  <2>2. \/ exit' \in {"0", "2"} /\ pc' = "exited"
        \/ exit' = exit /\ pc' = "due"
    BY <1>3 DEF Setup, End
  <2>. QED
    BY <1>1, <1>2, <2>1, <2>2 DEF Flow
<1>4. CASE Signal \/ Tick
  <2>1. UNCHANGED <<pc, scheduled, errors, queue, answered, exit>> /\ pc # "exited"
    BY <1>4 DEF Signal, Tick, counters
  <2>. QED
    BY <1>1, <1>2, <2>1 DEF Flow, More
<1>5. CASE Take
  <2>1. /\ UNCHANGED <<scheduled, errors, queue, answered, exit>> /\ More
        /\ pc = "due" /\ pc' = "send"
    BY <1>5 DEF Take, counters
  <2>. QED
    BY <1>1, <1>2, <2>1 DEF Flow, More
<1>6. CASE Leave \/ ProduceFails
  <2>1. /\ UNCHANGED <<scheduled, errors, queue, answered>> /\ pc # "exited"
        /\ \/ pc' = "flush" /\ exit' = exit
           \/ pc' = "exited" /\ exit' = "aborted"
    BY <1>6 DEF Leave, ProduceFails, End, counters
  <2>. QED
    BY <1>1, <1>2, <2>1 DEF Flow, More
<1>7. CASE Nap \/ QueueFull
  <2>1. UNCHANGED <<pc, scheduled, queue, exit>> /\ pc \in {"due", "send"}
    BY <1>7 DEF Nap, QueueFull
  <2>. QED
    BY <1>1, <1>2, <2>1 DEF Flow, More
<1>8. CASE Enqueue
  <2>1. /\ pc = "send" /\ pc' = "due" /\ exit' = exit
        /\ scheduled' = scheduled + 1
    BY <1>8 DEF Enqueue
  <2>2. scheduled < Len(events)
    BY <1>1, <2>1 DEF Flow, More
  <2>. QED
    BY <1>1, <1>2, <2>1, <2>2 DEF Flow
<1>9. CASE Flushed
  <2>1. /\ pc' = "exited" /\ exit' = ExitCode /\ queue = <<>> /\ queue' = queue
        /\ scheduled' = scheduled /\ Poll
    BY <1>9 DEF Flushed, End
  <2>2. errors' + answered'.err = errors + answered.err
    BY <1>1, <2>1, PollCounts
  <2>. QED
    BY <1>1, <1>2, <2>1, <2>2 DEF Flow, ExitCode
<1>10. CASE FlushTimeout
  <2>1. pc' = "exited" /\ exit' = "1" /\ scheduled' = scheduled
    BY <1>10 DEF FlushTimeout, End
  <2>. QED
    BY <1>1, <1>2, <2>1 DEF Flow
<1>11. CASE \E p \in Partition : Acknowledge(p) \/ Expire(p)
  <2>1. /\ UNCHANGED <<pc, scheduled, exit>> /\ pc # "exited"
        /\ \E i \in 1..Len(queue) : TRUE
    BY <1>11 DEF Acknowledge, Expire, Answer, counters
  <2>2. pc # "setup"
    <3>1. Len(queue) \in Nat /\ Len(queue) # 0
      BY <1>1, <2>1, TypesGive
    <3>2. queue # <<>>
      BY <3>1
    <3>. QED
      BY <1>1, <3>2 DEF Flow
  <2>. QED
    BY <1>1, <1>2, <2>1, <2>2 DEF Flow, More
<1>. QED
  BY <1>3, <1>4, <1>5, <1>6, <1>7, <1>8, <1>9, <1>10, <1>11 DEF SimNext, Main

LEMMA SimInvInit ==
    ASSUME SimInit, Len(events) \in Nat
    PROVE  SimInv
<1>1. SimTypeOK
  <2>1. answered \in [{"ok", "err"} -> Nat] /\ log \in [Partition -> Seq(Nat)]
    BY DEF SimInit, NoAnswers
  <2>2. stop \in BOOLEAN
    BY Zenon DEF SimInit
  <2>. QED
    BY <2>1, <2>2 DEF SimInit, SimTypeOK
<1>2. queue = <<>> /\ Elements(queue) = {} /\ \A p \in Partition : log[p] = <<>>
  BY DEF SimInit, Elements
<1>3. Flow
  BY DEF SimInit, Flow, NoAnswers
<1>4. QueueOK
  BY <1>2 DEF QueueOK, InOrder
<1>5. \A p \in Partition : LogOK(p)
  BY <1>2 DEF LogOK, InOrder, Elements
<1>6. NothingMissing
  BY DEF SimInit, NothingMissing
<1>. QED
  BY <1>1, <1>3, <1>4, <1>5, <1>6 DEF SimInv, TopicOK

LEMMA EventsEnd ==
    ASSUME SimTypeOK
    PROVE  Len(events) \in Nat
BY ManifestAssumption DEF SimTypeOK, events

LEMMA SimStutters ==
    ASSUME SimInv, UNCHANGED simVars
    PROVE  SimInv'
<1>1. UNCHANGED <<manifest, pc, clock, stop, scheduled, delivered, errors, queue, answered, log, exit>>
  BY DEF simVars, counters
<1>2. Sound' => Sound
  BY <1>1 DEF Sound
<1>3. TopicOK'
  BY <1>1, <1>2, TopicStays DEF SimInv
<1>4. Flow'
  BY <1>1, SameManifest DEF SimInv, Flow, More
<1>5. SimTypeOK'
  BY <1>1 DEF SimInv, SimTypeOK
<1>. QED
  BY <1>3, <1>4, <1>5 DEF SimInv

LEMMA SimInvStep ==
    ASSUME SimInv, [Next]_vars
    PROVE  SimInv'
<1>1. CASE SimNext
  <2>1. Len(events) \in Nat
    BY EventsEnd DEF SimInv
  <2>. QED
    BY <1>1, <2>1, SimTypes, SimFlow, SimTopic DEF SimInv
<1>2. CASE UNCHANGED simVars
  BY <1>2, SimStutters
<1>. QED
  BY <1>1, <1>2 DEF Next, Observe, AlertLeaves, Crash, vars

\* The simulator's invariant: the types, what main() relies on at each place,
\* and the topic and the queue between them holding what has been scheduled.
THEOREM SimInvariance == Spec => []SimInv
<1>1. Init => SimInv
  <2> SUFFICES ASSUME Init PROVE SimInv
    OBVIOUS
  <2>1. SimInit /\ manifest \in Manifests
    BY DEF Init, SimInit
  <2>2. Len(events) \in Nat
    BY <2>1, ManifestAssumption DEF events
  <2>. QED
    BY <2>1, <2>2, SimInvInit
<1>2. SimInv /\ [Next]_vars => SimInv'
  BY SimInvStep
<1>. QED
  BY <1>1, <1>2, PTL DEF Spec

\* A replay that ends with exit code 0 (main.cpp, the code returned after
\* rd_kafka_flush) has put every scheduled event on its partition, once and in
\* manifest order.
THEOREM ExitZeroMeansDeliveredHolds == Spec => []ExitZeroMeansDelivered
<1>1. SimInv => ExitZeroMeansDelivered
  <2> SUFFICES ASSUME SimInv, exit = "0", NEW p \in Partition
               PROVE  InOrder(log[p]) /\ {log[p][i] : i \in DOMAIN log[p]} = ScheduledOn(p)
    BY DEF ExitZeroMeansDelivered
  <2>1. queue = <<>> /\ Sound
    BY DEF SimInv, Flow, Sound
  <2>2. Elements(queue) = {}
    BY <2>1 DEF Elements
  <2>3. LogOK(p) /\ NothingMissing
    BY <2>1 DEF SimInv, TopicOK
  <2>4. log[p] \in Seq(Nat) /\ {log[p][i] : i \in DOMAIN log[p]} = Elements(log[p])
    BY DEF SimInv, SimTypeOK, Elements
  <2>5. Elements(log[p]) \subseteq ScheduledOn(p)
    BY <2>3 DEF LogOK, ScheduledOn
  <2>6. ScheduledOn(p) \subseteq Elements(log[p])
    BY <2>2, <2>3 DEF NothingMissing, ScheduledOn
  <2>. QED
    BY <2>3, <2>4, <2>5, <2>6 DEF LogOK
<1>. QED
  BY <1>1, SimInvariance, PTL

===============================================================================

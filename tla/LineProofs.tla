------------------------------ MODULE LineProofs ------------------------------
(***************************************************************************)
(* LineConsumers' safety for any partitions, keys, lengths of the logs,    *)
(* sizes of the producer's queue and numbers of failures.                  *)
(*                                                                         *)
(* The argument: a message is behind a group when the broker's offset, a   *)
(* commit under way or the running consumer has passed it, and it is not   *)
(* still in the consumer's hands.  A message behind a group has had its    *)
(* effect, effects are never undone, and every step either leaves what is  *)
(* behind alone or has just had the effect of what it puts there.          *)
(***************************************************************************)
EXTENDS LineConsumers, TLAPS

-----------------------------------------------------------------------------
(* The inductive invariant. *)

InHand(g) == IF stage[g] = "taken" THEN {at[g]} ELSE {}

Behind(g, p, o) ==
    \/ o <= committed[g][p]
    \/ o <= asked[g][p]
    \/ o <= position[g][p] /\ <<p, o>> \notin InHand(g)

Effect(g, p, o) == IF g = "ingest" THEN Settled(<<p, o>>) ELSE Posted(p, o)

\* A group that starts at the latest message is only right where it has offsets.
Sound(g) == g = "ingest" \/ Known

BehindOK ==
    \A g \in Groups : Sound(g) =>
        \A p \in Reads(g), o \in Nat \ {0} : Behind(g, p, o) => Effect(g, p, o)

\* The message in hand is the last one polled.
AtOK ==
    \A g \in Groups : stage[g] \in {"taken", "handled"} =>
        \E p \in Reads(g) : /\ at[g] = <<p, position[g][p]>>
                            /\ position[g][p] # 0

\* Nothing is ahead of the log.
WithinLog ==
    /\ \A g \in Groups, p \in Partition :
          /\ committed[g][p] <= Len(log[p])
          /\ asked[g][p] <= Len(log[p])
          /\ position[g][p] <= Len(log[p])
    /\ \A s \in Letters : s[2] <= Len(log[s[1]])

OffsetsKnown == Known => \A g \in Groups, p \in Partition : committed[g][p] # Unset

IInv == TypeOK /\ BehindOK /\ AtOK /\ WithinLog /\ OffsetsKnown /\ OnlyBadIsParked

-----------------------------------------------------------------------------

\* Effects are never undone.
Grows ==
    /\ \A p \in Partition :
          /\ Len(log[p]) <= Len(log'[p])
          /\ \A o \in 1..Len(log[p]) : log'[p][o] = log[p][o]
    /\ rows \subseteq rows'
    /\ Letters \subseteq Letters'
    /\ posted \subseteq posted'
    /\ misread \subseteq misread'

LEMMA EffectKept ==
    ASSUME Grows, NEW g \in Groups, NEW p \in Partition, NEW o \in 1..Len(log[p]), Effect(g, p, o)
    PROVE  Effect(g, p, o)'
BY DEF Grows, Effect, Settled, Posted, Message

LEMMA Offsets ==
    ASSUME TypeOK, NEW g \in Groups, NEW p \in Partition
    PROVE  /\ committed[g][p] \in Int
           /\ asked[g][p] \in Int
           /\ position[g][p] \in Nat
           /\ Len(log[p]) \in Nat
<1>1. log[p] \in Seq(Messages)
  BY DEF TypeOK
<1>2. /\ committed[g][p] \in Nat \cup {-1}
      /\ asked[g][p] \in Nat \cup {-1}
      /\ position[g][p] \in Nat
  BY DEF TypeOK, Unset
<1>. QED
  BY <1>1, <1>2

\* What a step has to show: what it puts behind a group has had its effect.
LEMMA BehindStep ==
    ASSUME IInv, TypeOK', Grows, NEW g \in Groups, Sound(g),
           \A p \in Reads(g), o \in Nat \ {0} :
               Behind(g, p, o)' => Behind(g, p, o) \/ Effect(g, p, o)'
    PROVE  \A p \in Reads(g), o \in Nat \ {0} : Behind(g, p, o)' => Effect(g, p, o)'
<1> SUFFICES ASSUME NEW p \in Reads(g), NEW o \in Nat \ {0}, Behind(g, p, o)
             PROVE  Effect(g, p, o)'
  OBVIOUS
<1>1. p \in Partition
  BY PartitionAssumption DEF Reads
<1>2. Effect(g, p, o)
  BY DEF IInv, BehindOK
<1>3. o \in 1..Len(log[p])
  BY <1>1, Offsets DEF IInv, WithinLog, Behind
<1>. QED
  BY <1>1, <1>2, <1>3, EffectKept

\* Dead letters stay what they were.
LEMMA LetterStep ==
    ASSUME IInv, Grows,
           \A s \in Letters' :
               \/ s \in Letters
               \/ /\ s \in Slots
                  /\ s[2] <= Len(log[s[1]])
                  /\ Message(s).kind = "bad" \/ s \in misread'
    PROVE  OnlyBadIsParked' /\ \A s \in Letters' : s[2] <= Len(log'[s[1]])
<1> SUFFICES ASSUME NEW s \in Letters'
             PROVE  /\ s[2] <= Len(log'[s[1]])
                    /\ Message(s)'.kind = "bad" \/ s \in misread'
  BY DEF OnlyBadIsParked
<1>1. /\ s \in Slots
      /\ s[2] <= Len(log[s[1]])
      /\ Message(s).kind = "bad" \/ s \in misread'
  BY DEF IInv, TypeOK, WithinLog, OnlyBadIsParked, Letters, Grows
<1>2. s[1] \in Partition /\ s[2] \in Nat \ {0}
  BY <1>1 DEF Slots
<1>3. Len(log[s[1]]) \in Nat /\ s[2] \in 1..Len(log[s[1]])
  BY <1>1, <1>2, Offsets DEF IInv, Groups
<1>4. Message(s)' = Message(s)
  BY <1>2, <1>3 DEF Grows, Message
<1>5. Len(log[s[1]]) <= Len(log'[s[1]])
  BY <1>2 DEF Grows
<1>. QED
  BY <1>1, <1>2, <1>3, <1>4, <1>5

\* The history of the tables, the letters and the trigger only grows.
LEMMA Growing ==
    ASSUME TypeOK, UNCHANGED log, rows \subseteq rows', Letters \subseteq Letters',
           posted \subseteq posted', misread \subseteq misread'
    PROVE  Grows
<1>1. \A p \in Partition : Len(log[p]) \in Nat
  BY Offsets DEF Groups
<1>. QED
  BY <1>1 DEF Grows

-----------------------------------------------------------------------------
(* The steps. *)

LEMMA ProduceStep ==
    ASSUME IInv, NEW p \in Partition, NEW m \in Messages, Produce(p, m)
    PROVE  IInv'
<1> USE DEF IInv, Produce
<1>1. log[p] \in Seq(Messages)
  BY DEF TypeOK
<1>2. TypeOK'
  BY <1>1 DEF TypeOK, brokerVars, letterVars
<1>3. \A q \in Partition : log[q] \in Seq(Messages)
  BY DEF TypeOK
<1>4. /\ Len(log'[p]) = Len(log[p]) + 1
      /\ \A o \in 1..Len(log[p]) : log'[p][o] = log[p][o]
      /\ \A q \in Partition : q # p => log'[q] = log[q]
  BY <1>1 DEF TypeOK
<1>5. \A q \in Partition : Len(log[q]) <= Len(log'[q])
  BY <1>3, <1>4
<1>6. Grows
  BY <1>4, <1>5 DEF Grows, Letters, letterVars
<1>7. BehindOK'
  <2> SUFFICES ASSUME NEW g \in Groups, Sound(g)
               PROVE  \A q \in Reads(g), o \in Nat \ {0} : Behind(g, q, o)' => Effect(g, q, o)'
    BY DEF BehindOK, Sound, Reads
  <2>1. \A q \in Reads(g), o \in Nat \ {0} : Behind(g, q, o)' => Behind(g, q, o)
    BY DEF Behind, InHand, brokerVars
  <2>. QED
    BY <1>2, <1>6, <2>1, BehindStep
<1>8. OnlyBadIsParked' /\ \A s \in Letters' : s[2] <= Len(log'[s[1]])
  BY <1>6, LetterStep DEF Letters, letterVars
<1>9. WithinLog'
  <2> SUFFICES ASSUME NEW g \in Groups, NEW q \in Partition
               PROVE  /\ committed[g][q] <= Len(log'[q])
                      /\ asked[g][q] <= Len(log'[q])
                      /\ position[g][q] <= Len(log'[q])
    BY <1>8 DEF WithinLog, brokerVars
  <2>1. /\ committed[g][q] <= Len(log[q])
        /\ asked[g][q] <= Len(log[q])
        /\ position[g][q] <= Len(log[q])
    BY DEF WithinLog
  <2>2. Len(log'[q]) \in Nat
    BY <1>2, Offsets DEF TypeOK
  <2>. QED
    BY <1>5, <2>1, <2>2, Offsets
<1>10. AtOK' /\ OffsetsKnown'
  BY DEF AtOK, OffsetsKnown, Reads, brokerVars
<1>. QED
  BY <1>2, <1>7, <1>8, <1>9, <1>10

LEMMA PollStep ==
    ASSUME IInv, NEW g \in Groups, NEW p \in Partition, Poll(g, p)
    PROVE  IInv'
<1> USE DEF IInv, Poll
<1>1. TypeOK'
  <2>1. <<p, position[g][p] + 1>> \in Slots
    BY Offsets DEF Slots
  <2>2. position[g][p] + 1 \in Nat
    BY Offsets
  <2>. QED
    BY <2>1, <2>2 DEF TypeOK, brokerVars, letterVars
<1>2. Grows
  BY Growing DEF Letters, letterVars
<1>3. BehindOK'
  <2> SUFFICES ASSUME NEW h \in Groups, Sound(h)
               PROVE  \A q \in Reads(h), o \in Nat \ {0} : Behind(h, q, o)' => Effect(h, q, o)'
    BY DEF BehindOK, Sound, Reads
  <2>1. ASSUME NEW q \in Reads(h), NEW o \in Nat \ {0}, Behind(h, q, o)'
        PROVE  Behind(h, q, o)
    <3>1. q \in Partition
      BY PartitionAssumption DEF Reads
    <3>2. CASE h # g
      BY <2>1, <3>1, <3>2 DEF Behind, InHand, TypeOK, brokerVars
    <3>3. CASE h = g
      <4>1. InHand(g) = {} /\ InHand(g)' = {<<p, position[g][p] + 1>>}
        BY DEF InHand, TypeOK
      <4>2. CASE q = p
        <5>1. position'[g][p] = position[g][p] + 1
          BY DEF TypeOK
        <5>. QED
          BY <2>1, <3>1, <3>3, <4>1, <4>2, <5>1, Offsets DEF Behind, brokerVars
      <4>3. CASE q # p
        BY <2>1, <3>1, <3>3, <4>1, <4>3 DEF Behind, brokerVars, TypeOK
      <4>. QED
        BY <4>2, <4>3
    <3>. QED
      BY <3>2, <3>3
  <2>. QED
    BY <1>1, <1>2, <2>1, BehindStep
<1>4. OnlyBadIsParked' /\ \A s \in Letters' : s[2] <= Len(log'[s[1]])
  BY <1>2, LetterStep DEF Letters, letterVars
<1>5. WithinLog'
  BY <1>4, Offsets DEF WithinLog, brokerVars, TypeOK
<1>6. AtOK'
  <2>1. position'[g][p] = position[g][p] + 1 /\ position[g][p] + 1 # 0
    BY Offsets DEF TypeOK
  <2>2. at'[g] = <<p, position'[g][p]>>
    BY <2>1 DEF TypeOK
  <2>3. \A h \in Groups : h # g => /\ stage'[h] = stage[h]
                                   /\ at'[h] = at[h]
                                   /\ position'[h] = position[h]
    BY DEF TypeOK
  <2>. QED
    BY <2>1, <2>2, <2>3 DEF AtOK, Reads
<1>7. OffsetsKnown'
  BY DEF OffsetsKnown, brokerVars
<1>. QED
  BY <1>1, <1>3, <1>4, <1>5, <1>6, <1>7

\* A consumer that stops: only the broker's offsets are left of what it had passed.
LEMMA StopStep ==
    ASSUME IInv, NEW g \in Groups, NEW where \in {"idle", "down", "ended"}, Stop(g, where),
           rows \subseteq rows', rows' \subseteq Key, posted' = posted,
           misread \subseteq misread', misread' \subseteq Slots, faults' \in 0..MaxFaults
    PROVE  IInv'
<1> USE DEF IInv, Stop
<1>1. TypeOK'
  BY DEF TypeOK, Unset
<1>2. Letters' = Letters
  BY DEF Letters
<1>3. Grows
  BY <1>2, Growing
<1>4. \A h \in Groups : h # g => /\ stage'[h] = stage[h]
                                 /\ at'[h] = at[h]
                                 /\ position'[h] = position[h]
                                 /\ asked'[h] = asked[h]
  BY DEF TypeOK
<1>5. /\ stage'[g] = where
      /\ \A q \in Partition : position'[g][q] = 0 /\ asked'[g][q] = -1
  BY DEF TypeOK, Unset
<1>6. BehindOK'
  <2> SUFFICES ASSUME NEW h \in Groups, Sound(h)
               PROVE  \A q \in Reads(h), o \in Nat \ {0} : Behind(h, q, o)' => Effect(h, q, o)'
    BY DEF BehindOK, Sound, Reads
  <2>1. ASSUME NEW q \in Reads(h), NEW o \in Nat \ {0}, Behind(h, q, o)'
        PROVE  Behind(h, q, o)
    <3>1. q \in Partition
      BY PartitionAssumption DEF Reads
    <3>2. CASE h # g
      BY <1>4, <2>1, <3>1, <3>2 DEF Behind, InHand
    <3>3. CASE h = g
      <4>1. ~(o <= 0) /\ ~(o <= -1)
        OBVIOUS
      <4>. QED
        BY <1>5, <2>1, <3>1, <3>3, <4>1 DEF Behind
    <3>. QED
      BY <3>2, <3>3
  <2>. QED
    BY <1>1, <1>3, <2>1, BehindStep
<1>7. OnlyBadIsParked' /\ \A s \in Letters' : s[2] <= Len(log'[s[1]])
  BY <1>2, <1>3, LetterStep
<1>8. WithinLog'
  <2> SUFFICES ASSUME NEW h \in Groups, NEW q \in Partition
               PROVE  /\ committed[h][q] <= Len(log[q])
                      /\ asked'[h][q] <= Len(log[q])
                      /\ position'[h][q] <= Len(log[q])
    BY <1>7 DEF WithinLog
  <2>. QED
    BY <1>4, <1>5, Offsets DEF WithinLog
<1>9. AtOK'
  BY <1>4, <1>5 DEF AtOK, Reads
<1>10. OffsetsKnown'
  BY DEF OffsetsKnown
<1>. QED
  BY <1>1, <1>6, <1>7, <1>8, <1>9, <1>10

\* A message in hand is one of its group's, within the log.
LEMMA InTheLog ==
    ASSUME IInv, NEW g \in Groups, stage[g] \in {"taken", "handled"}
    PROVE  /\ at[g] \in Slots
           /\ at[g][1] \in Reads(g)
           /\ at[g][2] = position[g][at[g][1]]
           /\ at[g][2] <= Len(log[at[g][1]])
<1>1. PICK p \in Reads(g) : at[g] = <<p, position[g][p]>> /\ position[g][p] # 0
  BY DEF IInv, AtOK
<1>2. p \in Partition
  BY PartitionAssumption DEF Reads
<1>3. position[g][p] \in Nat \ {0} /\ position[g][p] <= Len(log[p])
  BY <1>1, <1>2, Offsets DEF IInv, WithinLog
<1>. QED
  BY <1>1, <1>2, <1>3 DEF Slots

LEMMA InHandIsMessage ==
    ASSUME IInv, NEW g \in Groups, stage[g] = "taken"
    PROVE  Message(at[g]) \in Messages
<1>1. /\ at[g] \in Slots
      /\ at[g][2] <= Len(log[at[g][1]])
  BY InTheLog
<1>2. at[g][1] \in Partition /\ at[g][2] \in Nat \ {0}
  BY <1>1 DEF Slots
<1>3. log[at[g][1]] \in Seq(Messages)
  BY <1>2 DEF IInv, TypeOK
<1>4. at[g][2] \in 1..Len(log[at[g][1]])
  BY <1>1, <1>2, <1>3
<1>. QED
  BY <1>3, <1>4 DEF Message

\* The side effect of a message: it is the only one that is put behind its group.
LEMMA HandledStep ==
    ASSUME IInv, NEW g \in Groups, stage[g] = "taken", Handled(g),
           UNCHANGED <<log, brokerVars, position, at, dlq, lost>>,
           queue \subseteq queue', queue' \subseteq queue \cup {at[g]},
           at[g] \in queue' => \/ at[g] \in queue
                               \/ Message(at[g]).kind = "bad"
                               \/ at[g] \in misread',
           rows \subseteq rows', rows' \subseteq Key,
           posted \subseteq posted', posted' \subseteq Slots,
           misread \subseteq misread', misread' \subseteq Slots, faults' \in 0..MaxFaults,
           Sound(g) => Effect(g, at[g][1], at[g][2])'
    PROVE  IInv'
<1> USE DEF IInv, Handled, brokerVars
<1>1. /\ at[g] \in Slots
      /\ at[g][1] \in Reads(g)
      /\ at[g][2] = position[g][at[g][1]]
      /\ at[g][2] <= Len(log[at[g][1]])
  BY InTheLog
<1>2. TypeOK'
  BY <1>1 DEF TypeOK
<1>3. Letters \subseteq Letters' /\ Letters' \subseteq Letters \cup {at[g]}
  BY DEF Letters
<1>4. Grows
  BY <1>3, Growing
<1>5. stage'[g] = "handled" /\ \A h \in Groups : h # g => stage'[h] = stage[h]
  BY DEF TypeOK
<1>6. BehindOK'
  <2> SUFFICES ASSUME NEW h \in Groups, Sound(h)
               PROVE  \A q \in Reads(h), o \in Nat \ {0} : Behind(h, q, o)' => Effect(h, q, o)'
    BY DEF BehindOK, Sound, Reads
  <2>1. ASSUME NEW q \in Reads(h), NEW o \in Nat \ {0}, Behind(h, q, o)'
        PROVE  Behind(h, q, o) \/ Effect(h, q, o)'
    <3>1. CASE h # g
      BY <1>5, <2>1, <3>1 DEF Behind, InHand
    <3>2. CASE h = g
      <4>1. InHand(g) = {at[g]}
        BY DEF InHand
      <4>2. CASE <<q, o>> = at[g]
        <5>1. at[g][1] = q /\ at[g][2] = o
          BY <4>2
        <5>. QED
          BY <3>2, <5>1
      <4>3. CASE <<q, o>> # at[g]
        BY <2>1, <3>2, <4>1, <4>3 DEF Behind
      <4>. QED
        BY <4>2, <4>3
    <3>. QED
      BY <3>1, <3>2
  <2>. QED
    BY <1>2, <1>4, <2>1, BehindStep
<1>7. OnlyBadIsParked' /\ \A s \in Letters' : s[2] <= Len(log'[s[1]])
  <2>1. at[g] \in Letters' =>
            at[g] \in Letters \/ Message(at[g]).kind = "bad" \/ at[g] \in misread'
    BY DEF Letters
  <2>. QED
    BY <1>1, <1>3, <1>4, <2>1, LetterStep
<1>8. WithinLog'
  BY <1>7 DEF WithinLog
<1>9. AtOK'
  BY <1>5 DEF AtOK, Reads
<1>10. OffsetsKnown'
  BY DEF OffsetsKnown
<1>. QED
  BY <1>2, <1>6, <1>7, <1>8, <1>9, <1>10

\* Park without a full queue, for whatever reason ingest takes the message for bad.
LEMMA ParkStep ==
    ASSUME IInv, stage["ingest"] = "taken", Park, UNCHANGED <<rows, posted>>,
           Message(at["ingest"]).kind = "bad" \/ at["ingest"] \in misread',
           misread \subseteq misread', misread' \subseteq Slots, faults' \in 0..MaxFaults
    PROVE  IInv'
<1> DEFINE s == at["ingest"]
<1>1. "ingest" \in Groups /\ rows \subseteq Key /\ posted \subseteq Slots
  BY DEF Groups, IInv, TypeOK
<1>2. s \in Slots
  BY <1>1, InTheLog
<1>3. CASE Stop("ingest", "down")
  BY <1>1, <1>3, StopStep
<1>4. CASE /\ queue' = queue \cup {s}
           /\ Handled("ingest")
           /\ UNCHANGED <<log, brokerVars, position, at, dlq, lost>>
  <2>1. s = <<s[1], s[2]>>
    BY <1>2 DEF Slots
  <2>2. Effect("ingest", s[1], s[2])'
    BY <1>4, <2>1 DEF Effect, Settled, Letters
  <2>. QED
    BY <1>1, <1>4, <2>2, HandledStep
<1>. QED
  BY <1>3, <1>4 DEF Park

LEMMA IngestStep ==
    ASSUME IInv, Ingest
    PROVE  IInv'
<1> DEFINE s == at["ingest"]
<1>1. /\ "ingest" \in Groups /\ stage["ingest"] = "taken"
      /\ rows \subseteq Key /\ posted \subseteq Slots /\ misread \subseteq Slots
      /\ faults \in 0..MaxFaults
  BY DEF Groups, IInv, TypeOK, Ingest
<1>2. CASE Message(s).kind = "bad" /\ Park /\ UNCHANGED <<rows, posted, misread, faults>>
  BY <1>1, <1>2, ParkStep
<1>3. CASE Message(s).kind # "bad" /\ Upsert /\ UNCHANGED <<posted, misread, faults>>
  <2>1. s \in Slots
    BY <1>1, InTheLog
  <2>2. s = <<s[1], s[2]>>
    BY <2>1 DEF Slots
  <2>3. Message(s) \in Messages
    BY <1>1, InHandIsMessage
  <2>4. Message(s)' = Message(s)
    BY <1>3 DEF Message, Upsert
  <2>5. rows' \subseteq Key /\ Message(s).key \in rows'
    BY <1>1, <1>3, <2>3 DEF Upsert, Messages
  <2>6. Settled(s)'
    BY <1>3, <2>4, <2>5 DEF Settled
  <2>7. Effect("ingest", s[1], s[2])'
    BY <1>3, <2>2, <2>6 DEF Effect, Upsert
  <2>. QED
    BY <1>1, <1>3, <2>5, <2>7, HandledStep DEF Upsert, letterVars
<1>. QED
  BY <1>2, <1>3 DEF Ingest

LEMMA DatabaseLostStep ==
    ASSUME IInv, DatabaseLost
    PROVE  IInv'
<1> DEFINE s == at["ingest"]
<1>1. /\ "ingest" \in Groups /\ stage["ingest"] = "taken" /\ Stop("ingest", "down")
      /\ rows \subseteq Key /\ misread \subseteq Slots /\ faults \in 0..MaxFaults
  BY DEF Groups, IInv, TypeOK, DatabaseLost
<1>2. faults' \in 0..MaxFaults
  BY <1>1, LineBoundAssumption DEF DatabaseLost, Fault
<1>3. rows \subseteq rows' /\ rows' \subseteq Key
  <2>1. Message(s).key \in Key
    BY <1>1, InHandIsMessage DEF Messages
  <2>. QED
    BY <1>1, <2>1 DEF DatabaseLost
<1>. QED
  BY <1>1, <1>2, <1>3, StopStep DEF DatabaseLost

LEMMA TriggerStep ==
    ASSUME IInv, Trigger
    PROVE  IInv'
<1> DEFINE g == "agent-triage"
           s == at[g]
<1>1. /\ g \in Groups /\ stage[g] = "taken"
      /\ rows \subseteq Key /\ posted \subseteq Slots /\ misread \subseteq Slots
      /\ faults \in 0..MaxFaults
  BY DEF Groups, IInv, TypeOK, Trigger
<1>2. s \in Slots
  BY <1>1, InTheLog
<1>3. s = <<s[1], s[2]>>
  BY <1>2 DEF Slots
<1>4. posted \subseteq posted' /\ posted' \subseteq Slots
  BY <1>1, <1>2 DEF Trigger
<1>5. Effect(g, s[1], s[2])'
  BY <1>3 DEF Effect, Posted, Trigger, Message
<1>. QED
  BY <1>1, <1>4, <1>5, HandledStep DEF Trigger, letterVars

LEMMA TakenForBadStep ==
    ASSUME IInv, NEW g \in Groups, TakenForBad(g)
    PROVE  IInv'
<1>1. /\ stage[g] = "taken"
      /\ rows \subseteq Key /\ posted \subseteq Slots /\ misread \subseteq Slots
      /\ faults \in 0..MaxFaults
  BY DEF IInv, TypeOK, TakenForBad
<1>2. faults' \in 0..MaxFaults
  BY <1>1, LineBoundAssumption DEF TakenForBad, Fault
<1>3. at[g] \in Slots
  BY <1>1, InTheLog
<1>4. misread \subseteq misread' /\ misread' \subseteq Slots /\ at[g] \in misread'
  BY <1>1, <1>3 DEF TakenForBad
<1>5. CASE g = "ingest" /\ Park
  BY <1>1, <1>2, <1>4, <1>5, ParkStep DEF TakenForBad
<1>6. CASE /\ g = "agent-triage"
           /\ Handled(g)
           /\ UNCHANGED <<log, brokerVars, position, at, letterVars>>
  <2>1. at[g] = <<at[g][1], at[g][2]>>
    BY <1>3 DEF Slots
  <2>2. Effect(g, at[g][1], at[g][2])'
    BY <1>4, <1>6, <2>1 DEF Effect, Posted
  <2>. QED
    BY <1>1, <1>2, <1>4, <1>6, <2>2, HandledStep DEF TakenForBad, letterVars
<1>. QED
  BY <1>5, <1>6 DEF TakenForBad

LEMMA StopsStep ==
    ASSUME IInv, NEW g \in Groups, Crash(g) \/ PollError(g)
    PROVE  IInv'
<1>1. /\ rows \subseteq Key /\ misread \subseteq Slots /\ faults \in 0..MaxFaults
      /\ UNCHANGED <<rows, posted, misread>>
  BY DEF IInv, TypeOK, Crash, PollError
<1>2. faults' \in 0..MaxFaults
  BY <1>1, LineBoundAssumption DEF Crash, PollError, Fault
<1>3. \E where \in {"idle", "down", "ended"} : Stop(g, where)
  BY DEF Crash, PollError
<1>. QED
  BY <1>1, <1>2, <1>3, StopStep

\* The message handed to the commit is behind its group already, and so is whatever
\* comes before it.
LEMMA CommitStep ==
    ASSUME IInv, NEW g \in Groups, Commit(g)
    PROVE  IInv'
<1> USE DEF IInv, Commit
<1>1. /\ at[g] \in Slots
      /\ at[g][1] \in Reads(g)
      /\ at[g][2] = position[g][at[g][1]]
      /\ at[g][2] <= Len(log[at[g][1]])
  BY InTheLog
<1>2. at[g][1] \in Partition /\ at[g][2] \in Nat \ {0}
  BY <1>1 DEF Slots
<1>3. TypeOK'
  BY <1>2 DEF TypeOK, letterVars
<1>4. Grows
  BY Growing DEF Letters, letterVars
<1>5. \A h \in Groups : h # g => /\ stage'[h] = stage[h]
                                 /\ at'[h] = at[h]
                                 /\ asked'[h] = asked[h]
  BY DEF TypeOK
<1>6. /\ stage'[g] = "idle"
      /\ asked'[g][at[g][1]] = at[g][2]
      /\ \A q \in Partition : q # at[g][1] => asked'[g][q] = asked[g][q]
  BY <1>2 DEF TypeOK
<1>7. BehindOK'
  <2> SUFFICES ASSUME NEW h \in Groups, Sound(h)
               PROVE  \A q \in Reads(h), o \in Nat \ {0} : Behind(h, q, o)' => Effect(h, q, o)'
    BY DEF BehindOK, Sound, Reads
  <2>1. ASSUME NEW q \in Reads(h), NEW o \in Nat \ {0}, Behind(h, q, o)'
        PROVE  Behind(h, q, o)
    <3>1. q \in Partition
      BY PartitionAssumption DEF Reads
    <3>2. CASE h # g
      BY <1>5, <2>1, <3>1, <3>2 DEF Behind, InHand
    <3>3. CASE h = g
      <4>1. InHand(g) = {} /\ position' = position /\ committed' = committed
        BY DEF InHand
      <4>2. CASE q = at[g][1]
        BY <1>1, <1>6, <2>1, <3>3, <4>1, <4>2 DEF Behind
      <4>3. CASE q # at[g][1]
        BY <1>6, <2>1, <3>1, <3>3, <4>1, <4>3 DEF Behind
      <4>. QED
        BY <4>2, <4>3
    <3>. QED
      BY <3>2, <3>3
  <2>. QED
    BY <1>3, <1>4, <2>1, BehindStep
<1>8. OnlyBadIsParked' /\ \A s \in Letters' : s[2] <= Len(log'[s[1]])
  BY <1>4, LetterStep DEF Letters, letterVars
<1>9. WithinLog'
  BY <1>1, <1>5, <1>6, <1>8 DEF WithinLog
<1>10. AtOK'
  BY <1>5, <1>6 DEF AtOK, Reads
<1>11. OffsetsKnown'
  BY DEF OffsetsKnown
<1>. QED
  BY <1>3, <1>7, <1>8, <1>9, <1>10, <1>11

LEMMA StoreStep ==
    ASSUME IInv, NEW g \in Groups, NEW p \in Partition, Store(g, p)
    PROVE  IInv'
<1> USE DEF IInv, Store
<1>1. faults' \in 0..MaxFaults
  BY LineBoundAssumption DEF TypeOK, Fault
<1>2. asked[g][p] \in Nat
  BY DEF TypeOK
<1>3. committed'[g][p] \in {committed[g][p], asked[g][p]} /\ asked'[g][p] = -1
  BY DEF TypeOK, Unset
<1>4. \A h \in Groups, q \in Partition : h # g \/ q # p =>
          committed'[h][q] = committed[h][q] /\ asked'[h][q] = asked[h][q]
  BY DEF TypeOK
<1>5. TypeOK'
  <2>1. committed' \in [Groups -> [Partition -> Nat \cup {Unset}]]
    BY <1>2 DEF TypeOK
  <2>2. asked' \in [Groups -> [Partition -> Nat \cup {Unset}]]
    BY DEF TypeOK
  <2>. QED
    BY <1>1, <2>1, <2>2 DEF TypeOK, letterVars
<1>6. Grows
  BY Growing DEF Letters, letterVars
<1>7. BehindOK'
  <2> SUFFICES ASSUME NEW h \in Groups, Sound(h)
               PROVE  \A q \in Reads(h), o \in Nat \ {0} : Behind(h, q, o)' => Effect(h, q, o)'
    BY DEF BehindOK, Sound, Reads
  <2>1. ASSUME NEW q \in Reads(h), NEW o \in Nat \ {0}, Behind(h, q, o)'
        PROVE  Behind(h, q, o)
    <3>1. q \in Partition
      BY PartitionAssumption DEF Reads
    <3>2. ~(o <= -1) /\ InHand(h)' = InHand(h) /\ position' = position
      BY DEF InHand
    <3>3. CASE h # g \/ q # p
      BY <1>4, <2>1, <3>1, <3>2, <3>3 DEF Behind
    <3>4. CASE h = g /\ q = p
      BY <1>3, <2>1, <3>2, <3>4 DEF Behind
    <3>. QED
      BY <3>3, <3>4
  <2>. QED
    BY <1>5, <1>6, <2>1, BehindStep
<1>8. OnlyBadIsParked' /\ \A s \in Letters' : s[2] <= Len(log'[s[1]])
  BY <1>6, LetterStep DEF Letters, letterVars
<1>9. WithinLog'
  <2> SUFFICES ASSUME NEW h \in Groups, NEW q \in Partition
               PROVE  /\ committed'[h][q] <= Len(log[q])
                      /\ asked'[h][q] <= Len(log[q])
                      /\ position[h][q] <= Len(log[q])
    BY <1>8 DEF WithinLog
  <2>. QED
    BY <1>3, <1>4, Offsets DEF WithinLog
<1>10. AtOK'
  BY DEF AtOK, Reads
<1>11. OffsetsKnown'
  BY <1>2, <1>3, <1>4 DEF OffsetsKnown, Unset
<1>. QED
  BY <1>5, <1>7, <1>8, <1>9, <1>10, <1>11

LEMMA DeliverStep ==
    ASSUME IInv, NEW s \in queue, Deliver(s)
    PROVE  IInv'
<1> USE DEF IInv, Deliver, brokerVars
<1>1. faults' \in 0..MaxFaults
  BY LineBoundAssumption DEF TypeOK, Fault
<1>2. TypeOK'
  BY <1>1 DEF TypeOK
<1>3. Letters' = Letters
  BY DEF Letters
<1>4. Grows
  BY <1>3, Growing
<1>5. BehindOK'
  <2> SUFFICES ASSUME NEW h \in Groups, Sound(h)
               PROVE  \A q \in Reads(h), o \in Nat \ {0} : Behind(h, q, o)' => Effect(h, q, o)'
    BY DEF BehindOK, Sound, Reads
  <2>1. \A q \in Reads(h), o \in Nat \ {0} : Behind(h, q, o)' => Behind(h, q, o)
    BY DEF Behind, InHand
  <2>. QED
    BY <1>2, <1>4, <2>1, BehindStep
<1>6. OnlyBadIsParked' /\ \A t \in Letters' : t[2] <= Len(log'[t[1]])
  BY <1>3, <1>4, LetterStep
<1>7. WithinLog' /\ AtOK' /\ OffsetsKnown'
  BY <1>6 DEF WithinLog, AtOK, OffsetsKnown, Reads
<1>. QED
  BY <1>2, <1>5, <1>6, <1>7

\* A group that starts without an offset has passed nothing, or is not sound.
LEMMA RestartStep ==
    ASSUME IInv, NEW g \in Groups, Restart(g)
    PROVE  IInv'
<1> USE DEF IInv, Restart, brokerVars, letterVars
<1>1. \A q \in Partition : /\ ResumeAt(g, q) \in Nat
                           /\ ResumeAt(g, q) <= Len(log[q])
  BY Offsets DEF ResumeAt, StartOf, TypeOK, WithinLog
<1>2. TypeOK'
  BY <1>1 DEF TypeOK
<1>3. Grows
  BY Growing DEF Letters
<1>4. /\ stage'[g] = "idle"
      /\ \A q \in Partition : position'[g][q] = ResumeAt(g, q)
      /\ \A h \in Groups : h # g => stage'[h] = stage[h] /\ position'[h] = position[h]
  BY DEF TypeOK
<1>5. BehindOK'
  <2> SUFFICES ASSUME NEW h \in Groups, Sound(h)
               PROVE  \A q \in Reads(h), o \in Nat \ {0} : Behind(h, q, o)' => Effect(h, q, o)'
    BY DEF BehindOK, Sound, Reads
  <2>1. ASSUME NEW q \in Reads(h), NEW o \in Nat \ {0}, Behind(h, q, o)'
        PROVE  Behind(h, q, o)
    <3>1. q \in Partition
      BY PartitionAssumption DEF Reads
    <3>2. CASE h # g
      BY <1>4, <2>1, <3>1, <3>2 DEF Behind, InHand
    <3>3. CASE h = g
      <4>1. CASE committed[g][q] = Unset
        <5>1. g = "ingest"
          BY <3>1, <3>3, <4>1 DEF Sound, OffsetsKnown
        <5>2. position'[g][q] = 0 /\ ~(o <= 0)
          BY <1>4, <3>1, <4>1, <5>1 DEF ResumeAt, StartOf
        <5>. QED
          BY <2>1, <3>3, <5>2 DEF Behind
      <4>2. CASE committed[g][q] # Unset
        BY <1>4, <2>1, <3>1, <3>3, <4>2 DEF Behind, ResumeAt
      <4>. QED
        BY <4>1, <4>2
    <3>. QED
      BY <3>2, <3>3
  <2>. QED
    BY <1>2, <1>3, <2>1, BehindStep
<1>6. OnlyBadIsParked' /\ \A s \in Letters' : s[2] <= Len(log'[s[1]])
  BY <1>3, LetterStep DEF Letters
<1>7. WithinLog'
  BY <1>1, <1>4, <1>6 DEF WithinLog
<1>8. AtOK' /\ OffsetsKnown'
  BY <1>4 DEF AtOK, OffsetsKnown, Reads
<1>. QED
  BY <1>2, <1>5, <1>6, <1>7, <1>8

-----------------------------------------------------------------------------
(* The invariants of the specification. *)

LEMMA InitInvariant == Init => IInv
<1> SUFFICES ASSUME Init
             PROVE  IInv
  OBVIOUS
<1>1. TypeOK
  BY LineBoundAssumption DEF Init, TypeOK, Unset
<1>2. \A o \in Nat \ {0} : ~(o <= 0) /\ ~(o <= -1)
  OBVIOUS
<1>3. BehindOK
  <2> SUFFICES ASSUME NEW g \in Groups, NEW p \in Reads(g), NEW o \in Nat \ {0}
               PROVE  ~Behind(g, p, o)
    BY DEF BehindOK
  <2>1. p \in Partition
    BY PartitionAssumption DEF Reads
  <2>2. committed[g][p] \in {0, -1} /\ asked[g][p] = -1 /\ position[g][p] = 0
    BY <2>1 DEF Init, Unset
  <2>. QED
    BY <1>2, <2>2 DEF Behind
<1>4. AtOK /\ OffsetsKnown /\ OnlyBadIsParked
  BY DEF Init, AtOK, OffsetsKnown, OnlyBadIsParked, Letters, Unset
<1>5. WithinLog
  BY DEF Init, WithinLog, Letters, Unset
<1>. QED
  BY <1>1, <1>3, <1>4, <1>5 DEF IInv

LEMMA NextPreserves == IInv /\ [Next]_vars => IInv'
<1> SUFFICES ASSUME IInv, [Next]_vars
             PROVE  IInv'
  OBVIOUS
<1>1. ASSUME NEW p \in Partition, NEW m \in Messages, Produce(p, m)
      PROVE  IInv'
  BY <1>1, ProduceStep
<1>2. ASSUME NEW g \in Groups, Consumer(g)
      PROVE  IInv'
  <2>1. ASSUME NEW p \in Partition, Poll(g, p)
        PROVE  IInv'
    BY <2>1, PollStep
  <2>2. ASSUME NEW p \in Partition, Store(g, p)
        PROVE  IInv'
    BY <2>2, StoreStep
  <2>3. CASE Commit(g)
    BY <2>3, CommitStep
  <2>4. CASE TakenForBad(g)
    BY <2>4, TakenForBadStep
  <2>5. CASE Crash(g) \/ PollError(g)
    BY <2>5, StopsStep
  <2>6. CASE Restart(g)
    BY <2>6, RestartStep
  <2>. QED
    BY <1>2, <2>1, <2>2, <2>3, <2>4, <2>5, <2>6 DEF Consumer
<1>3. CASE Ingest
  BY <1>3, IngestStep
<1>4. CASE DatabaseLost
  BY <1>4, DatabaseLostStep
<1>5. CASE Trigger
  BY <1>5, TriggerStep
<1>6. ASSUME NEW s \in queue, Deliver(s)
      PROVE  IInv'
  BY <1>6, DeliverStep
<1>7. CASE UNCHANGED vars
  <2> USE <1>7 DEF vars, brokerVars, letterVars
  <2>1. TypeOK' /\ WithinLog' /\ AtOK' /\ OffsetsKnown' /\ OnlyBadIsParked'
    BY DEF IInv, TypeOK, AtOK, WithinLog, OffsetsKnown, OnlyBadIsParked, Letters, Message,
           Reads
  <2>2. BehindOK'
    <3>1. \A g \in Groups, p \in Partition, o \in Nat \ {0} :
              /\ Behind(g, p, o)' => Behind(g, p, o)
              /\ Effect(g, p, o) => Effect(g, p, o)'
      BY DEF Behind, InHand, Effect, Settled, Posted, Letters, Message
    <3>. QED
      BY <3>1, PartitionAssumption DEF IInv, BehindOK, Sound, Reads
  <2>. QED
    BY <2>1, <2>2 DEF IInv
<1>. QED
  BY <1>1, <1>2, <1>3, <1>4, <1>5, <1>6, <1>7 DEF Next

\* Whatever stops, gets lost or is away: a message behind a group has had its effect,
\* and only bad or misread messages are parked.
THEOREM Invariance == Spec => []IInv
<1>1. Init => IInv
  BY InitInvariant
<1>2. IInv /\ [Next]_vars => IInv'
  BY NextPreserves
<1>. QED
  BY <1>1, <1>2, PTL DEF Spec

\* Every variable keeps its type.
THEOREM TypeCorrect == Spec => []TypeOK
<1>1. IInv => TypeOK
  BY DEF IInv
<1>. QED
  BY <1>1, Invariance, PTL

\* Ingest's offsets never run ahead of the rows and the dead letters.
THEOREM RowsBeforeOffsets == Spec => []CommittedIsSettled
<1>1. IInv => CommittedIsSettled
  <2> SUFFICES ASSUME IInv, NEW p \in Partition, NEW o \in 1..committed["ingest"][p]
               PROVE  Settled(<<p, o>>)
    BY DEF CommittedIsSettled
  <2>1. "ingest" \in Groups /\ p \in Reads("ingest") /\ Sound("ingest")
    BY DEF Groups, Reads, Sound
  <2>2. committed["ingest"][p] \in Int
    BY <2>1, Offsets DEF IInv
  <2>3. o \in Nat \ {0} /\ o <= committed["ingest"][p]
    BY <2>2
  <2>. QED
    BY <2>1, <2>3 DEF IInv, BehindOK, Behind, Effect
<1>. QED
  BY <1>1, Invariance, PTL

\* A message delivered again is never taken for a bad one.
THEOREM OnlyBadParked == Spec => []OnlyBadIsParked
<1>1. IInv => OnlyBadIsParked
  BY DEF IInv
<1>. QED
  BY <1>1, Invariance, PTL

\* A trigger whose group has its offsets posts every failure it commits.
THEOREM NoFailureSkipped ==
    ASSUME Known
    PROVE  Spec => []CommittedIsPosted
<1>1. IInv => CommittedIsPosted
  <2> SUFFICES ASSUME IInv, NEW p \in EolPartition,
                      NEW o \in 1..committed["agent-triage"][p]
               PROVE  Posted(p, o)
    BY DEF CommittedIsPosted
  <2>1. /\ "agent-triage" \in Groups /\ p \in Reads("agent-triage")
        /\ p \in Partition /\ Sound("agent-triage")
    BY PartitionAssumption DEF Groups, Reads, Sound
  <2>2. committed["agent-triage"][p] \in Int
    BY <2>1, Offsets DEF IInv
  <2>3. o \in Nat \ {0} /\ o <= committed["agent-triage"][p]
    BY <2>2
  <2>. QED
    BY <2>1, <2>3 DEF IInv, BehindOK, Behind, Effect
<1>. QED
  BY <1>1, Invariance, PTL

===============================================================================

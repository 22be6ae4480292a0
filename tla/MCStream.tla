------------------------------- MODULE MCStream -------------------------------
EXTENDS Stream

CONSTANTS carA, carB   \* vehicles whose readings go to different partitions

MCPartition == {0, 1}
MCPartitionOf(key) == IF key = carA THEN 0 ELSE 1

Reading(k, t, d, r, ok) ==
    [line |-> "event", key |-> k, at |-> t, dev |-> d, repeat_no |-> r, readable |-> ok]
Blank == [line |-> "blank"]
Torn == [line |-> "malformed"]

\* Readings with these deviations, the i-th of the vehicle keys[i].
Replay(devs, keys) == [i \in 1..Len(devs) |-> Reading(keys[i], i, devs[i], 1, TRUE)]

A == carA
B == carB

\* A run of eight after a reading that may come late and find the window full; two
\* beyond 2 sigma; four of five beyond 1 sigma; skipped lines, repeats and rubbish.
MCManifests == {
    <<>>,
    <<Blank, Torn>>,
    Replay(<<0, -9, 1, 2, 1, 2, 1, 2, 1, 2>>, <<B, A, A, A, A, A, A, A, A, A>>),
    Replay(<<1, -1, 1, -1, 1, 9, 9>>, <<A, A, B, A, A, A, A>>),
    Replay(<<0, 0, 0, 0, 3, 3, 3, 3>>, <<A, A, A, A, A, A, B, A>>),
    <<Reading(A, 1, 0, 1, TRUE), Blank, Reading(A, 2, 0, 2, TRUE), Reading(B, 3, 7, 1, FALSE),
      Reading(B, 4, 1, 1, TRUE)>>}

\* A run of eight on its own, in two partitions.
MCRun == {Replay(<<0, -9, 1, 2, 1, 2, 1, 2, 1, 2>>, <<B, A, A, A, A, A, A, A, A, A>>)}

===============================================================================

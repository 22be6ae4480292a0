------------------------------- MODULE GateSpec -------------------------------
(***************************************************************************)
(* What the gate promises for each containment (ADR-003, ADR-008, ADR-012),*)
(* with no processes, messages or checkpoints: a triage proposes it, then  *)
(* it is approved (as it stands or amended) or refused (by a human or by   *)
(* the clock); the plant gets at most one hold for a triage, and only once *)
(* one of its containments is approved; an audit row is closed only by a   *)
(* hold, a refusal, or when nothing was proposed.  A triage whose proposal *)
(* got no answer may propose again: the promise is then about the          *)
(* containments of that triage together, and about each of them while it   *)
(* is the only one.  GateProperties maps GateSystem onto it.               *)
(***************************************************************************)

CONSTANTS Cid, Thread, None

VARIABLES
    triage,  \* the triage a containment belongs to, None until it exists
    verdict, \* "none" until the containment exists, then what was decided
    held,    \* the plant has a hold for it
    closed   \* its audit row is complete

gateVars == <<triage, verdict, held, closed>>

Verdicts == {"none", "pending", "approved", "refused", "abstained"}

\* The containments of the same triage.
Alike(c) == {d \in Cid : triage[d] = triage[c]}

GateInit ==
    /\ triage = [c \in Cid |-> None]
    /\ verdict = [c \in Cid |-> "none"]
    /\ held = [c \in Cid |-> FALSE]
    /\ closed = [c \in Cid |-> FALSE]

\* A triage proposes a hold, or records that it proposes none.
Open(c, t) ==
    /\ verdict[c] = "none"
    /\ triage' = [triage EXCEPT ![c] = t]
    /\ \E v \in {"pending", "abstained"} : verdict' = [verdict EXCEPT ![c] = v]
    /\ UNCHANGED <<held, closed>>

Approve(c) ==
    /\ verdict[c] = "pending"
    /\ verdict' = [verdict EXCEPT ![c] = "approved"]
    /\ UNCHANGED <<triage, held, closed>>

Pending == {c \in Cid : verdict[c] = "pending"}

\* A rejection refuses one containment, an expiry pass any number of them.
RefuseAll(S) ==
    /\ S # {}
    /\ verdict' = [c \in Cid |-> IF c \in S THEN "refused" ELSE verdict[c]]
    /\ UNCHANGED <<triage, held, closed>>

HoldOnce(c) ==
    /\ verdict[c] # "none"
    /\ \E d \in Alike(c) : verdict[d] = "approved"
    /\ \A d \in Alike(c) : ~held[d]
    /\ held' = [held EXCEPT ![c] = TRUE]
    /\ UNCHANGED <<triage, verdict, closed>>

Close(c) ==
    /\ ~closed[c]
    /\ \/ held[c]
       \/ verdict[c] = "abstained"
       \/ \E d \in Alike(c) : verdict[d] = "refused"
    /\ closed' = [closed EXCEPT ![c] = TRUE]
    /\ UNCHANGED <<triage, verdict, held>>

GateNext ==
    \/ \E c \in Cid :
          \/ \E t \in Thread : Open(c, t)
          \/ Approve(c) \/ HoldOnce(c) \/ Close(c)
    \/ \E S \in SUBSET Pending : RefuseAll(S)

GateSafety == GateInit /\ [][GateNext]_gateVars

===============================================================================

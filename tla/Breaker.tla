-------------------------------- MODULE Breaker --------------------------------
(***************************************************************************)
(* The circuit breaker in front of the plant system, and the gauge that    *)
(* shows its state (services/agent: tools/mes.py; qgate-core: metrics.py). *)
(* The agent's worker threads share one; its fields change under a lock,   *)
(* the gauge is set after the lock is released, one label at a time.       *)
(*                                                                         *)
(* The code keeps the time it was opened at; the model keeps how long ago  *)
(* that was, up to OPEN_S, beyond which nothing depends on it.             *)
(*                                                                         *)
(* A call of post_hold ends in a verdict (succeeded, failed) or, by an     *)
(* exception that is neither a transport error nor a RetryError, in none;  *)
(* unjudged, which the code does not have, remembers a probe that did.     *)
(***************************************************************************)
EXTENDS Integers, Sequences

CONSTANTS
    Worker,  \* worker threads of one agent process
    OPEN_S,  \* how long the breaker refuses after a failure
    MaxCall  \* longest post_hold: its attempts, their timeouts and the waits

ASSUME TimeAssumption == OPEN_S \in Nat \ {0} /\ MaxCall \in Nat

VARIABLES
    opened,  \* opened_at is not None
    age,     \* clock() - opened_at, up to OPEN_S; 0 while closed
    probing,
    call,    \* the request a worker has in flight
    elapsed, \* since it was admitted; 0 without one
    todo,    \* gauge labels a worker has still to set
    shown,   \* the state it is writing
    gauge,   \* mes_breaker_state by label
    unjudged \* probing was left set by a probe that ended without a verdict

lockVars == <<opened, age, probing>>
vars == <<lockVars, call, elapsed, todo, shown, gauge, unjudged>>

BREAKER_STATES == <<"closed", "open", "half_open">>
Labels == {"closed", "open", "half_open"}

Init ==
    /\ opened = FALSE
    /\ age = 0
    /\ probing = FALSE
    /\ call = [w \in Worker |-> "none"]
    /\ elapsed = [w \in Worker |-> 0]
    /\ todo = [w \in Worker |-> <<>>]
    /\ shown = [w \in Worker |-> "closed"]
    /\ gauge = [s \in Labels |-> s = "closed"]
    /\ unjudged = FALSE

\* set_breaker_state, called with the lock released.
Publish(w, state) ==
    /\ todo' = [todo EXCEPT ![w] = BREAKER_STATES]
    /\ shown' = [shown EXCEPT ![w] = state]
    /\ UNCHANGED gauge

SetLabel(w) ==
    /\ todo[w] # <<>>
    /\ gauge' = [gauge EXCEPT ![Head(todo[w])] = Head(todo[w]) = shown[w]]
    /\ todo' = [todo EXCEPT ![w] = Tail(@)]
    /\ UNCHANGED <<lockVars, call, elapsed, shown, unjudged>>

Admit(w, kind) ==
    /\ call' = [call EXCEPT ![w] = kind]
    /\ elapsed' = [elapsed EXCEPT ![w] = 0]

\* allow(); when it refuses, nothing changes and the caller parks its commit.
Allow(w) ==
    /\ call[w] = "none"
    /\ todo[w] = <<>>
    /\ \/ /\ ~opened
          /\ Admit(w, "normal")
          /\ UNCHANGED <<lockVars, todo, shown, gauge>>
       \/ /\ opened
          /\ ~probing
          /\ age = OPEN_S
          /\ Admit(w, "probe")
          /\ probing' = TRUE
          /\ Publish(w, "half_open")
          /\ UNCHANGED <<opened, age>>
    /\ UNCHANGED unjudged

\* post_hold is over, however it ends.
Over(w) ==
    /\ call[w] # "none"
    /\ todo[w] = <<>>
    /\ call' = [call EXCEPT ![w] = "none"]
    /\ elapsed' = [elapsed EXCEPT ![w] = 0]

Judged(w) ==
    /\ Over(w)
    /\ unjudged' = FALSE

\* succeeded(): any answer below 500.
Succeeded(w) ==
    /\ Judged(w)
    /\ opened' = FALSE
    /\ age' = 0
    /\ probing' = FALSE
    /\ Publish(w, "closed")

\* Mutant: only the first failure starts the clock.
FailedOnce(w) ==
    /\ Judged(w)
    /\ opened' = TRUE
    /\ age' = IF opened THEN age ELSE 0
    /\ probing' = FALSE
    /\ Publish(w, "open")

\* Mutant: the failed probe is not taken back.
FailedProbing(w) ==
    /\ Judged(w)
    /\ opened' = TRUE
    /\ age' = 0
    /\ UNCHANGED probing
    /\ Publish(w, "open")

\* failed(): every attempt was a transport error or a 5xx.
Failed(w) ==
    /\ Judged(w)
    /\ opened' = TRUE
    /\ age' = 0
    /\ probing' = FALSE
    /\ Publish(w, "open")

\* Any other exception, of a body that cannot be decoded or a closed client,
\* leaves post_hold with the breaker as it is: a probe stays on record.
Raised(w) ==
    /\ Over(w)
    /\ unjudged' = (unjudged \/ (probing /\ call[w] = "probe"))
    /\ UNCHANGED <<lockVars, todo, shown, gauge>>

\* Mutant: the clock is not capped.
OlderUncapped == age + 1

Older == IF opened /\ age < OPEN_S THEN age + 1 ELSE age

Tick ==
    /\ \A w \in Worker : call[w] # "none" => elapsed[w] < MaxCall
    /\ age' = Older
    /\ elapsed' = [w \in Worker |->
                     IF call[w] = "none" THEN elapsed[w] ELSE elapsed[w] + 1]
    /\ UNCHANGED <<opened, probing, call, todo, shown, gauge, unjudged>>

Next ==
    \/ Tick
    \/ \E w \in Worker :
          Allow(w) \/ SetLabel(w) \/ Succeeded(w) \/ Failed(w) \/ Raised(w)

Spec == Init /\ [][Next]_vars

\* Time passes, workers are scheduled, and a call is over within MaxCall.
Fairness ==
    /\ WF_vars(Tick)
    /\ \A w \in Worker :
          /\ WF_vars(SetLabel(w))
          /\ WF_vars(Succeeded(w) \/ Failed(w) \/ Raised(w))

FairSpec == Spec /\ Fairness

-----------------------------------------------------------------------------

TypeOK ==
    /\ opened \in BOOLEAN
    /\ age \in 0..OPEN_S
    /\ probing \in BOOLEAN
    /\ call \in [Worker -> {"none", "normal", "probe"}]
    /\ elapsed \in [Worker -> 0..MaxCall]
    /\ todo \in [Worker -> Seq(Labels)]
    /\ shown \in [Worker -> Labels]
    /\ gauge \in [Labels -> BOOLEAN]
    /\ unjudged \in BOOLEAN

\* A dead plant is not hammered: any two requests that the open breaker lets
\* through start at least OPEN_S apart, also when calls admitted before it
\* opened end, well or badly, in between (ADR-012: lets one probe through).
ProbesAreSpaced ==
    \A v, w \in Worker :
        v # w /\ call[v] = "probe" /\ call[w] = "probe"
            => elapsed[v] - elapsed[w] >= OPEN_S \/ elapsed[w] - elapsed[v] >= OPEN_S

\* The breaker waits for a verdict only while a probe is out that can give it,
\* or after a probe ended by an exception post_hold does not catch: no order of
\* old calls, probes and their verdicts makes it forget a probe (succeeded,
\* failed).
ProbeIsInFlight == probing => unjudged \/ \E w \in Worker : call[w] = "probe"

\* Again and again there is a time when a request would pass, so that a parked
\* commit is tried again (ADR-012), unless a probe ended by such an exception
\* and no older call was left whose verdict would take it back: the breaker
\* then refuses until the agent is restarted.
NeverRefusesForGood == []<>(~opened \/ (~probing /\ age = OPEN_S)) \/ <>[]unjudged

===============================================================================

----------------------------- MODULE BreakerProofs -----------------------------
(***************************************************************************)
(* Breaker's safety for every number of workers, every open period and     *)
(* every bound on a call.                                                  *)
(***************************************************************************)
EXTENDS Breaker, TLAPS

\* Why probes are spaced: whenever the open breaker could let the next request
\* through, every probe still in flight is at least as old as the opening.
OlderThanOpening ==
    \A w \in Worker : call[w] = "probe" /\ opened /\ ~probing => elapsed[w] >= age

ClosedIsQuiet == probing => opened

IInv == TypeOK /\ ProbesAreSpaced /\ ProbeIsInFlight /\ OlderThanOpening /\ ClosedIsQuiet

-----------------------------------------------------------------------------

LEMMA InitTypeOK == Init => TypeOK
<1> SUFFICES ASSUME Init PROVE TypeOK
  OBVIOUS
<1>1. gauge \in [Labels -> BOOLEAN]
  BY Zenon DEF Init
<1>2. age \in 0..OPEN_S /\ elapsed \in [Worker -> 0..MaxCall]
  BY TimeAssumption DEF Init
<1>3. shown \in [Worker -> Labels] /\ todo \in [Worker -> Seq(Labels)]
  BY DEF Init, Labels
<1>. QED
  BY <1>1, <1>2, <1>3 DEF Init, TypeOK

\* Every step keeps every variable in its type.
THEOREM TypeCorrect == Spec => []TypeOK
<1>1. Init => TypeOK
  BY InitTypeOK
<1>2. TypeOK /\ [Next]_vars => TypeOK'
  <2> SUFFICES ASSUME TypeOK, [Next]_vars PROVE TypeOK'
    OBVIOUS
  <2>1. CASE Tick
    <3>1. age' \in 0..OPEN_S
      BY <2>1, TimeAssumption DEF TypeOK, Tick, Older
    <3>2. elapsed' \in [Worker -> 0..MaxCall]
      BY <2>1, TimeAssumption DEF TypeOK, Tick
    <3>. QED
      BY <2>1, <3>1, <3>2 DEF TypeOK, Tick
  <2>2. ASSUME NEW w \in Worker, NEW kind \in {"normal", "probe"}, Admit(w, kind)
        PROVE  /\ call' \in [Worker -> {"none", "normal", "probe"}]
               /\ elapsed' \in [Worker -> 0..MaxCall]
    BY <2>2, TimeAssumption DEF TypeOK, Admit
  <2>3. ASSUME NEW w \in Worker, NEW s \in Labels, Publish(w, s)
        PROVE  /\ todo' \in [Worker -> Seq(Labels)]
               /\ shown' \in [Worker -> Labels]
               /\ gauge' \in [Labels -> BOOLEAN]
    <3>1. BREAKER_STATES \in Seq(Labels)
      BY DEF BREAKER_STATES, Labels
    <3>. QED
      BY <2>3, <3>1 DEF TypeOK, Publish
  <2>4. ASSUME NEW w \in Worker, Allow(w) PROVE TypeOK'
    <3>0. UNCHANGED unjudged
      BY <2>4 DEF Allow
    <3>1. CASE ~opened /\ Admit(w, "normal") /\ UNCHANGED <<lockVars, todo, shown, gauge>>
      BY <2>2, <3>0, <3>1 DEF TypeOK, lockVars
    <3>2. CASE /\ Admit(w, "probe") /\ Publish(w, "half_open")
               /\ probing' = TRUE /\ UNCHANGED <<opened, age>>
      <4>1. "half_open" \in Labels
        BY DEF Labels
      <4>. QED
        BY <2>2, <2>3, <3>0, <3>2, <4>1 DEF TypeOK
    <3>. QED
      BY <2>4, <3>1, <3>2 DEF Allow
  <2>5. ASSUME NEW w \in Worker, SetLabel(w) PROVE TypeOK'
    <3>1. todo' \in [Worker -> Seq(Labels)]
      <4>1. Tail(todo[w]) \in Seq(Labels)
        BY <2>5 DEF SetLabel, TypeOK
      <4>. QED
        BY <2>5, <4>1 DEF SetLabel, TypeOK
    <3>2. gauge' \in [Labels -> BOOLEAN]
      <4>1. (Head(todo[w]) = shown[w]) \in BOOLEAN
        OBVIOUS
      <4>. QED
        BY <2>5, <4>1, Zenon DEF SetLabel, TypeOK
    <3>. QED
      BY <2>5, <3>1, <3>2 DEF SetLabel, TypeOK, lockVars
  <2>6. ASSUME NEW w \in Worker, Succeeded(w) \/ Failed(w) PROVE TypeOK'
    <3>1. /\ call' \in [Worker -> {"none", "normal", "probe"}]
          /\ elapsed' \in [Worker -> 0..MaxCall]
      <4>1. Over(w)
        BY <2>6 DEF Succeeded, Failed, Judged
      <4>. QED
        BY <4>1, TimeAssumption DEF Over, TypeOK
    <3>2. \E s \in Labels : Publish(w, s)
      BY <2>6 DEF Succeeded, Failed, Labels
    <3>3. opened' \in BOOLEAN /\ probing' \in BOOLEAN /\ unjudged' \in BOOLEAN
      BY <2>6, Zenon DEF Succeeded, Failed, Judged
    <3>4. age' \in 0..OPEN_S
      <4>1. age' = 0
        BY <2>6 DEF Succeeded, Failed
      <4>. QED
        BY <4>1, TimeAssumption
    <3>. QED
      BY <2>3, <3>1, <3>2, <3>3, <3>4 DEF TypeOK
  <2>7. ASSUME NEW w \in Worker, Raised(w) PROVE TypeOK'
    <3>1. /\ call' \in [Worker -> {"none", "normal", "probe"}]
          /\ elapsed' \in [Worker -> 0..MaxCall]
      BY <2>7, TimeAssumption DEF Raised, Over, TypeOK
    <3>2. unjudged' \in BOOLEAN
      BY <2>7, Zenon DEF Raised
    <3>. QED
      BY <2>7, <3>1, <3>2 DEF Raised, TypeOK, lockVars
  <2>8. CASE UNCHANGED vars
    BY <2>8 DEF TypeOK, vars, lockVars
  <2>. QED
    BY <2>1, <2>4, <2>5, <2>6, <2>7, <2>8 DEF Next
<1>. QED
  BY <1>1, <1>2, PTL DEF Spec

\* The strengthened invariant, step by step.
THEOREM Invariance == Spec => []IInv
<1> USE TimeAssumption
<1>1. Init => IInv
  <2>1. Init => TypeOK
    BY InitTypeOK
  <2>. QED
    BY <2>1 DEF Init, IInv, ProbesAreSpaced, ProbeIsInFlight, OlderThanOpening, ClosedIsQuiet
<1>2. IInv /\ TypeOK' /\ [Next]_vars => IInv'
  <2> SUFFICES ASSUME IInv, TypeOK', [Next]_vars
               PROVE  (ProbesAreSpaced /\ ProbeIsInFlight /\ OlderThanOpening /\ ClosedIsQuiet)'
    BY DEF IInv
  <2> USE DEF IInv, TypeOK, ProbesAreSpaced, ProbeIsInFlight, OlderThanOpening, ClosedIsQuiet
  <2>1. CASE Tick
    <3>1. \A w \in Worker : call[w] = "probe" => elapsed'[w] = elapsed[w] + 1
      BY <2>1 DEF Tick
    <3>2. /\ age' \in {age, age + 1} /\ opened' = opened /\ probing' = probing
          /\ call' = call /\ unjudged' = unjudged
      BY <2>1 DEF Tick, Older
    <3>3. \A w \in Worker : elapsed[w] \in Int
      OBVIOUS
    <3>4. ProbesAreSpaced'
      <4> SUFFICES ASSUME NEW v \in Worker, NEW w \in Worker, v # w,
                          call[v] = "probe", call[w] = "probe"
                   PROVE  \/ elapsed'[v] - elapsed'[w] >= OPEN_S
                          \/ elapsed'[w] - elapsed'[v] >= OPEN_S
        BY <3>2
      <4>1. \/ elapsed[v] - elapsed[w] >= OPEN_S
            \/ elapsed[w] - elapsed[v] >= OPEN_S
        OBVIOUS
      <4>2. elapsed'[v] = elapsed[v] + 1 /\ elapsed'[w] = elapsed[w] + 1
        BY <3>1
      <4>3. elapsed[v] \in Int /\ elapsed[w] \in Int /\ OPEN_S \in Int
        BY <3>3
      <4>. QED
        BY ONLY <4>1, <4>2, <4>3
    <3>5. OlderThanOpening'
      BY <3>1, <3>2, <3>3
    <3>. QED
      BY <3>2, <3>4, <3>5
  <2>2. ASSUME NEW w \in Worker, Allow(w)
        PROVE  (ProbesAreSpaced /\ ProbeIsInFlight /\ OlderThanOpening /\ ClosedIsQuiet)'
    <3>1. CASE ~opened /\ Admit(w, "normal") /\ UNCHANGED lockVars
      <4>1. \A v \in Worker : call'[v] = "probe" => call[v] = "probe" /\ elapsed'[v] = elapsed[v]
        BY <3>1 DEF Admit
      <4>2. ~probing' /\ ~opened'
        BY <3>1 DEF lockVars
      <4>. QED
        BY <4>1, <4>2
    <3>2. CASE /\ opened /\ ~probing /\ age = OPEN_S
               /\ Admit(w, "probe") /\ probing' = TRUE /\ UNCHANGED opened
      <4>1. \A v \in Worker \ {w} : /\ call'[v] = call[v]
                                    /\ elapsed'[v] = elapsed[v]
                                    /\ call[v] = "probe" => elapsed[v] >= OPEN_S
        BY <3>2 DEF Admit
      <4>2. call'[w] = "probe" /\ elapsed'[w] = 0
        BY <3>2 DEF Admit
      <4>3. ProbesAreSpaced'
        <5> SUFFICES ASSUME NEW u \in Worker, NEW v \in Worker, u # v,
                            call'[u] = "probe", call'[v] = "probe"
                     PROVE  \/ elapsed'[u] - elapsed'[v] >= OPEN_S
                            \/ elapsed'[v] - elapsed'[u] >= OPEN_S
          OBVIOUS
        <5>1. elapsed[u] \in Int /\ elapsed[v] \in Int /\ OPEN_S \in Int
          OBVIOUS
        <5>2. CASE u # w /\ v # w
          BY <4>1, <5>2
        <5>3. CASE u = w
          BY <4>1, <4>2, <5>1, <5>3
        <5>4. CASE v = w
          BY <4>1, <4>2, <5>1, <5>4
        <5>. QED
          BY <5>2, <5>3, <5>4
      <4>. QED
        BY <3>2, <4>1, <4>2, <4>3
    <3>. QED
      BY <2>2, <3>1, <3>2 DEF Allow
  <2>3. ASSUME NEW w \in Worker, SetLabel(w)
        PROVE  (ProbesAreSpaced /\ ProbeIsInFlight /\ OlderThanOpening /\ ClosedIsQuiet)'
    BY <2>3 DEF SetLabel, lockVars
  <2>4. ASSUME NEW w \in Worker, Succeeded(w) \/ Failed(w)
        PROVE  (ProbesAreSpaced /\ ProbeIsInFlight /\ OlderThanOpening /\ ClosedIsQuiet)'
    <3>1. \A v \in Worker : call'[v] = "probe" => call[v] = "probe" /\ elapsed'[v] = elapsed[v]
      BY <2>4 DEF Succeeded, Failed, Judged, Over
    <3>2. ~probing' /\ age' = 0
      BY <2>4 DEF Succeeded, Failed
    <3>. QED
      BY <3>1, <3>2
  <2>5. ASSUME NEW w \in Worker, Raised(w)
        PROVE  (ProbesAreSpaced /\ ProbeIsInFlight /\ OlderThanOpening /\ ClosedIsQuiet)'
    <3>1. \A v \in Worker : call'[v] = "probe" => call[v] = "probe" /\ elapsed'[v] = elapsed[v]
      BY <2>5 DEF Raised, Over
    <3>2. opened' = opened /\ age' = age /\ probing' = probing
      BY <2>5 DEF Raised, lockVars
    <3>3. probing => unjudged' \/ \E v \in Worker : call'[v] = "probe"
      BY <2>5 DEF Raised, Over
    <3>. QED
      BY <3>1, <3>2, <3>3
  <2>6. CASE UNCHANGED vars
    BY <2>6 DEF vars, lockVars
  <2>. QED
    BY <2>1, <2>2, <2>3, <2>4, <2>5, <2>6 DEF Next
<1>3. IInv => TypeOK
  BY DEF IInv
<1>. QED
  BY <1>1, <1>2, TypeCorrect, PTL DEF Spec

\* Requests the open breaker lets through start at least OPEN_S apart, whatever
\* else the workers do meanwhile (Breaker.allow and its callers).
THEOREM Spacing == Spec => []ProbesAreSpaced
<1>1. IInv => ProbesAreSpaced
  BY DEF IInv
<1>. QED
  BY <1>1, Invariance, PTL

\* No order of old calls, probes and verdicts makes the breaker forget a probe:
\* it is half open without one only after a probe ended by an exception that
\* post_hold does not catch (Breaker.allow, succeeded, failed, post_hold).
THEOREM NoForgottenProbe == Spec => []ProbeIsInFlight
<1>1. IInv => ProbeIsInFlight
  BY DEF IInv
<1>. QED
  BY <1>1, Invariance, PTL

===============================================================================

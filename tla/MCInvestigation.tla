---------------------------- MODULE MCInvestigation ----------------------------
EXTENDS Investigation, TLC

\* Body, trim and end of line, where two characteristics are measured.
body == <<1, 1>>
trim == <<2, 1>>
test == <<3, 1>>
tail == <<3, 2>>
MCChars == {body, trim, test, tail}
MCFitsLot == {2}

On(station, chars) == [station |-> station, chars |-> chars]
MCFaultMap ==
    1 :> <<On(1, <<body>>)>>
    @@ 2 :> <<On(2, <<trim>>), On(1, <<body>>)>>
    @@ 3 :> <<On(3, <<test, tail>>), On(2, <<trim>>)>>

\* Rankings on and off the map, in the author's order and not, and one that pins the
\* trim's characteristic on the body.
Own(c) == Hypothesis(c[1], c)
MCAnswers ==
    {<<Own(c)>> : c \in {body, trim, tail}} \cup {<<Own(body), Own(trim)>>, <<Hypothesis(1, trim)>>}
MCOddCodes == {{EOL + 1}}

Inject(kind, c, from, to, by) ==
    [kind |-> kind, station |-> c[1], char |-> Every, bench |-> 1, lot |-> lot_id(2, 0),
     start |-> from, end |-> to, magnitude |-> by]
Scenario(n, injects) ==
    [vehicles |-> n, injects |-> injects, defects |-> {}, shared |-> [v \in 0..n - 1 |-> v % 3],
     repeated |-> {}, scattered |-> {}]

\* A step, a wearing tool, a bad lot, a biased bench, one defect, a gauge that
\* scatters, and noise.
MCScenarios == {
    Scenario(7, {Inject("step", trim, 4, Open, 3)}),
    Scenario(7, {Inject("drift", trim, 1, 6, 5)}),
    Scenario(7, {Inject("lot", trim, 0, Open, 3)}),
    Scenario(6, {Inject("bench_bias", test, 0, Open, 4)}),
    [Scenario(6, {}) EXCEPT !.defects = {[vehicle |-> 4, char |-> body, sign |-> -1]}],
    [Scenario(6, {Inject("step", tail, 3, Open, 3)}) EXCEPT !.repeated = {1, 3}, !.scattered = {1}],
    Scenario(6, {Inject("noise", body, 2, 6, 2)})}

===============================================================================

------------------------------- MODULE MesHolds -------------------------------
(***************************************************************************)
(* The plant system's hold endpoint as the agent sees it                   *)
(* (services/mock-mes/src/qgate_mock_mes/main.py): a hold is created once  *)
(* per idempotency key, the key being the containment id; the same body    *)
(* replays it, another body is a conflict.  Requests take effect one at a  *)
(* time.  The chaos modes (an error before the effect, a reply dropped     *)
(* after it) are outcomes of the caller's attempt, in GateSystem.          *)
(***************************************************************************)

CONSTANTS Cid, Vin

VARIABLE hold   \* hold[c]: the vehicles held under key c; {} when there is none
                \* (the contract asks for at least one VIN)

HoldInit == hold = [c \in Cid |-> {}]

Held(c) == hold[c] # {}

\* 201: a new hold, or 200: the stored one again.
CreateOrReplay(c, vins) ==
    /\ hold[c] \in {{}, vins}
    /\ hold' = [hold EXCEPT ![c] = vins]

\* 409: the key was used with a different body.
Conflict(c, vins) == hold[c] \notin {{}, vins}

===============================================================================

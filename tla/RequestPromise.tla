---------------------------- MODULE RequestPromise ----------------------------
(***************************************************************************)
(* What RequestProxy::send() promises its caller, abstractly: a request is *)
(* opened once and its result callback reports one outcome, which is never *)
(* revised; a request that is open is settled sooner or later.             *)
(***************************************************************************)
CONSTANTS Proxies,   \* the requests
          Outcomes   \* what the callback may report

VARIABLES state,     \* idle, open, settled
          outcome    \* what was reported, "Init" before

pvars == <<state, outcome>>

Init == /\ state = [p \in Proxies |-> "idle"]
        /\ outcome = [p \in Proxies |-> "Init"]

Open(p) == /\ state[p] = "idle"
           /\ state' = [state EXCEPT ![p] = "open"]
           /\ UNCHANGED outcome

(* send() itself may settle a request it cannot send *)
Settle(p, o) == /\ state[p] \in {"idle", "open"}
                /\ state' = [state EXCEPT ![p] = "settled"]
                /\ outcome' = [outcome EXCEPT ![p] = o]

Next == \E p \in Proxies : Open(p) \/ \E o \in Outcomes : Settle(p, o)

(* what may never happen, without what must *)
Safety == Init /\ [][Next]_pvars

SettleOpen(p) == state[p] = "open" /\ \E o \in Outcomes : Settle(p, o)

Spec == Safety /\ \A p \in Proxies : WF_pvars(SettleOpen(p))

===============================================================================

----------------------------- MODULE DurableInbox -----------------------------
(***************************************************************************)
(* What the gateway promises about a delivery, without tables, services or *)
(* retries: an accepted alert keeps its content and is never lost, one is  *)
(* worked on at a time, an interrupted or failed one goes back or is given *)
(* up, only a given-up one is replayed, and a finished one stays finished  *)
(* unless MayReopen.                                                       *)
(***************************************************************************)
CONSTANTS Keys, Alerts, NoAlert, MayReopen

VARIABLE inbox

States == {"absent", "waiting", "working", "done", "given_up"}

Init == inbox = [k \in Keys |-> [alert |-> NoAlert, state |-> "absent"]]

Nobody == \A k \in Keys : inbox[k].state # "working"

Move(k, from, to) ==
  inbox[k].state = from /\ inbox' = [inbox EXCEPT ![k].state = to]

Accept(k, a) ==
  /\ inbox[k].state = "absent"
  /\ inbox' = [inbox EXCEPT ![k] = [alert |-> a, state |-> "waiting"]]

Start(k) == Nobody /\ Move(k, "waiting", "working")
Finish(k) == Move(k, "working", "done")
PutBack(k) == Move(k, "working", "waiting")
GiveUp(k) == Move(k, "working", "given_up")
Replay(k) == Move(k, "given_up", "waiting")
Reopen(k) == MayReopen /\ (Move(k, "done", "waiting") \/ Move(k, "done", "given_up"))

Next ==
  \E k \in Keys :
    \/ \E a \in Alerts : Accept(k, a)
    \/ Start(k) \/ Finish(k) \/ PutBack(k) \/ GiveUp(k) \/ Replay(k) \/ Reopen(k)

Spec == Init /\ [][Next]_inbox
==============================================================================

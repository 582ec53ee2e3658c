------------------------------ MODULE Teardown ------------------------------
(***************************************************************************)
(* What the HTTP and UDP tracker clients promise about destroy(cb), with   *)
(* no word on what a request does: it calls back once, as soon as no       *)
(* request is registered any more, and after a pause at the latest, when   *)
(* the rest is forced to end.                                              *)
(***************************************************************************)
CONSTANT Requests

VARIABLES
    open,    \* the requests that are registered
    stage    \* "alive", "leaving" (destroy() waits) or "gone" (cb was called)

vars == <<open, stage>>

Init == open = {} /\ stage = "alive"

Begin(r) ==
    /\ stage = "alive"
    /\ r \notin open
    /\ open' = open \cup {r}
    /\ UNCHANGED stage

(* The last request that ends lets a waiting destroy() call back.          *)
End(r) ==
    /\ r \in open
    /\ open' = open \ {r}
    /\ stage' = IF stage = "leaving" /\ open' = {} THEN "gone" ELSE stage

Leave ==
    /\ stage = "alive"
    /\ stage' = IF open = {} THEN "gone" ELSE "leaving"
    /\ UNCHANGED open

Force ==
    /\ stage = "leaving"
    /\ open' = {}
    /\ stage' = "gone"

Next == Leave \/ Force \/ \E r \in Requests : Begin(r) \/ End(r)

Safety == Init /\ [][Next]_vars

Spec == Safety /\ WF_vars(Force)
=============================================================================

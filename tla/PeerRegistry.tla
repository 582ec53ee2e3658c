---------------------------- MODULE PeerRegistry ----------------------------
(***************************************************************************)
(* What a swarm promises to the rest of the tracker, without a cache: a    *)
(* bounded set of peers, each a seeder or a leecher, and two counters that *)
(* always agree with it.                                                   *)
(***************************************************************************)
EXTENDS Integers, FiniteSets

CONSTANTS Keys, MaxPresent

VARIABLES
    role,                   \* "absent", "leecher" or "seeder"
    complete, incomplete    \* the counters

vars == <<role, complete, incomplete>>

In(r) == {k \in Keys : role[k] = r}
Present == In("leecher") \cup In("seeder")

(* The counters follow the roles.                                          *)
Count ==
    /\ complete' = Cardinality(In("seeder")')
    /\ incomplete' = Cardinality(In("leecher")')

Init ==
    /\ role = [k \in Keys |-> "absent"]
    /\ complete = 0
    /\ incomplete = 0

(* A peer comes in; if there is no room for it, another one goes.          *)
Enter(k, r) ==
    /\ role[k] = "absent"
    /\ \/ /\ Cardinality(Present) < MaxPresent
          /\ role' = [role EXCEPT ![k] = r]
       \/ /\ Cardinality(Present) = MaxPresent
          /\ \E v \in Present : role' = [role EXCEPT ![k] = r, ![v] = "absent"]
    /\ Count

(* A peer whose entry expired comes in again in one step.                  *)
Renew(k, r) ==
    /\ role[k] # "absent"
    /\ role' = [role EXCEPT ![k] = r]
    /\ Count

Finish(k) ==
    /\ role[k] = "leecher"
    /\ role' = [role EXCEPT ![k] = "seeder"]
    /\ Count

(* A peer stops, loses its connection or expires.                          *)
Exit(k) ==
    /\ role[k] # "absent"
    /\ role' = [role EXCEPT ![k] = "absent"]
    /\ Count

Next ==
    \E k \in Keys :
        \/ \E r \in {"leecher", "seeder"} : Enter(k, r) \/ Renew(k, r)
        \/ Finish(k)
        \/ Exit(k)

Spec == Init /\ [][Next]_vars
=============================================================================

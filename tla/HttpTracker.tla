---------------------------- MODULE HttpTracker ----------------------------
(***************************************************************************)
(* An HTTP tracker client (lib/client/http-tracker.js). Each announce or   *)
(* scrape is a fetch: the response arrives, then its body, and either      *)
(* fails when the network pleases or when the request is aborted, by       *)
(* REQUEST_TIMEOUT or by destroy(). fetch is external; that it rejects     *)
(* once its signal is aborted is what the code relies on.                  *)
(*                                                                         *)
(* A response may be reported by several events. The listeners of each run *)
(* inside the handler and may call the client, destroy() too, before it    *)
(* goes on. While `reporting` is not empty such a handler has not          *)
(* returned: timers and the network wait for it. That a request is an      *)
(* announce or a scrape makes no difference until it is answered.          *)
(***************************************************************************)
EXTENDS FiniteSets

CONSTANT Req    \* requests: a bound on announces and scrapes in a behaviour

VARIABLES
    phase,       \* "new", "fetch", "read" (the body) or "done"
    cleanupFns,  \* the requests whose cleanup function is registered
    aborted,     \* the requests whose signal is aborted
    stage,       \* destroy(): "alive", "leaving" (it waits) or "gone"
    interval,    \* whether the interval timer is armed
    emitted,     \* what came of a request: kinds of events, or "unhandled"
    reporting    \* the request whose response is being reported, if any

vars == <<phase, cleanupFns, aborted, stage, interval, emitted, reporting>>

UnderWay == {r \in Req : phase[r] \in {"fetch", "read"}}
destroyed == stage # "alive"
NoHandler == reporting = {}     \* the next one may start

Init ==
    /\ phase = [r \in Req |-> "new"]
    /\ cleanupFns = {}
    /\ aborted = {}
    /\ stage = "alive"
    /\ interval = FALSE
    /\ emitted = [r \in Req |-> {}]
    /\ reporting = {}

-----------------------------------------------------------------------------
(* announce() or scrape(), called by the client, in a listener or not, or  *)
(* by the interval timer.                                                  *)
Request(r) ==
    /\ ~destroyed
    /\ phase[r] = "new"
    /\ phase' = [phase EXCEPT ![r] = "fetch"]
    /\ cleanupFns' = cleanupFns \cup {r}
    /\ UNCHANGED <<aborted, stage, interval, emitted, reporting>>

(* fetch resolves.                                                         *)
Responds(r) ==
    /\ NoHandler
    /\ phase[r] = "fetch"
    /\ r \notin aborted
    /\ phase' = [phase EXCEPT ![r] = "read"]
    /\ UNCHANGED <<cleanupFns, aborted, stage, interval, emitted, reporting>>

(* fetch rejects: cb(err) is a warning. The cleanup function stays.        *)
FetchFails(r) ==
    /\ NoHandler
    /\ phase[r] = "fetch"
    /\ phase' = [phase EXCEPT ![r] = "done"]
    /\ emitted' = [emitted EXCEPT ![r] = {"warning"}]
    /\ UNCHANGED <<cleanupFns, aborted, stage, interval, reporting>>

(* arrayBuffer() rejects, and with it the promise of _request, which       *)
(* nobody handles. A body that is a stream emits 'error', too: cb(err).    *)
BodyFails(r) ==
    /\ NoHandler
    /\ phase[r] = "read"
    /\ phase' = [phase EXCEPT ![r] = "done"]
    /\ \E stream \in BOOLEAN :
          emitted' = [emitted EXCEPT ![r] =
                        {"unhandled"} \cup IF stream THEN {"warning"} ELSE {}]
    /\ UNCHANGED <<cleanupFns, aborted, stage, interval, reporting>>

(* Mutant of Cleanup: a waiting destroy() is not told.                     *)
CleanupQuietly(r) ==
    /\ cleanupFns' = cleanupFns \ {r}
    /\ aborted' = aborted \cup {r}
    /\ UNCHANGED stage

(* cleanup(), once the body is here, removes itself and lets a waiting     *)
(* destroy() call back if it was the last one.                             *)
Cleanup(r) ==
    /\ cleanupFns' = cleanupFns \ {r}
    /\ aborted' = aborted \cup {r}
    /\ stage' = IF stage = "leaving" /\ cleanupFns' = {} THEN "gone" ELSE stage

(* cb(null, data): an announce sets the interval timer if the response     *)
(* names an interval, and emits 'update'; a scrape emits 'scrape'.         *)
Answer(r) ==
    \/ /\ emitted' = [emitted EXCEPT ![r] = @ \cup {"update"}]
       /\ interval' \in {interval, TRUE}
    \/ /\ emitted' = [emitted EXCEPT ![r] = @ \cup {"scrape"}]
       /\ UNCHANGED interval

Warn(r) ==
    /\ emitted' = [emitted EXCEPT ![r] = @ \cup {"warning"}]
    /\ UNCHANGED interval

(* Mutant of BodyArrives: nothing is said of destroy().                    *)
BodyArrivesLate(r) ==
    /\ NoHandler
    /\ phase[r] = "read"
    /\ r \notin aborted
    /\ phase' = [phase EXCEPT ![r] = "done"]
    /\ Cleanup(r)
    /\ reporting' = {r}
    /\ Warn(r) \/ Answer(r)

(* The body is here. Nothing comes of it once destroy() was called. A      *)
(* failure is a warning; so is a message, and it comes before the answer.  *)
BodyArrives(r) ==
    /\ NoHandler
    /\ phase[r] = "read"
    /\ r \notin aborted
    /\ phase' = [phase EXCEPT ![r] = "done"]
    /\ Cleanup(r)
    /\ \/ destroyed /\ UNCHANGED <<interval, emitted, reporting>>
       \/ ~destroyed /\ reporting' = {r} /\ (Warn(r) \/ Answer(r))

(* After the message comes the answer. After 'update' come the peers, and  *)
(* after 'scrape' others, which make no difference here. A list of peers   *)
(* that is not well formed is a warning, and the end. None of them asks    *)
(* what a listener has done.                                               *)
ReportsOn(r) ==
    /\ r \in reporting
    /\ \/ emitted[r] = {"warning"} /\ Answer(r) /\ UNCHANGED reporting
       \/ /\ "update" \in emitted[r]
          /\ emitted' = [emitted EXCEPT ![r] = @ \cup {"peer"}]
          /\ UNCHANGED <<interval, reporting>>
       \/ "update" \in emitted[r] /\ Warn(r) /\ reporting' = {}
    /\ UNCHANGED <<phase, cleanupFns, aborted, stage>>

(* The last listener, and then the handler, return.                        *)
Returns ==
    /\ reporting # {}
    /\ reporting' = {}
    /\ UNCHANGED <<phase, cleanupFns, aborted, stage, interval, emitted>>

(* Mutant of TimesOut: the timeout covers the response, not its body.      *)
TimesOutInFetch(r) ==
    /\ NoHandler
    /\ phase[r] = "fetch" /\ r \notin aborted
    /\ aborted' = aborted \cup {r}
    /\ UNCHANGED <<phase, cleanupFns, stage, interval, emitted, reporting>>

(* REQUEST_TIMEOUT is over.                                                *)
TimesOut(r) ==
    /\ NoHandler
    /\ r \in UnderWay \ aborted
    /\ aborted' = aborted \cup {r}
    /\ UNCHANGED <<phase, cleanupFns, stage, interval, emitted, reporting>>

-----------------------------------------------------------------------------
(* Client.start and Client.setInterval set the interval timer, or clear it *)
(* for an interval of 0. A client that is destroyed forgets its trackers.  *)
SetInterval ==
    /\ ~destroyed
    /\ interval' \in BOOLEAN
    /\ UNCHANGED <<phase, cleanupFns, aborted, stage, emitted, reporting>>

(* destroy(cb): the callback is called when `stage` becomes "gone".        *)
Destroy ==
    /\ ~destroyed
    /\ stage' = IF cleanupFns = {} THEN "gone" ELSE "leaving"
    /\ interval' = FALSE
    /\ UNCHANGED <<phase, cleanupFns, aborted, emitted, reporting>>

(* Mutant of DestroyTimeout: the cleanup functions are dropped, not called.*)
DestroyTimeoutDrops ==
    /\ NoHandler
    /\ stage = "leaving"
    /\ stage' = "gone"
    /\ cleanupFns' = {}
    /\ UNCHANGED <<phase, aborted, interval, emitted, reporting>>

(* DESTROY_TIMEOUT is over: destroyCleanup aborts what is registered.      *)
DestroyTimeout ==
    /\ NoHandler
    /\ stage = "leaving"
    /\ stage' = "gone"
    /\ aborted' = aborted \cup cleanupFns
    /\ cleanupFns' = {}
    /\ UNCHANGED <<phase, interval, emitted, reporting>>

Next ==
    \/ \E r \in Req : \/ Request(r) \/ Responds(r) \/ BodyArrives(r)
                      \/ FetchFails(r) \/ BodyFails(r) \/ TimesOut(r)
                      \/ ReportsOn(r)
    \/ SetInterval \/ Destroy \/ DestroyTimeout \/ Returns

(* Timers fire, listeners return, and what is aborted rejects.             *)
Fairness ==
    /\ WF_vars(Returns)
    /\ WF_vars(DestroyTimeout)
    /\ \A r \in Req :
          /\ WF_vars(TimesOut(r))
          /\ WF_vars(r \in aborted /\ (FetchFails(r) \/ BodyFails(r)))

Spec == Init /\ [][Next]_vars /\ Fairness

-----------------------------------------------------------------------------
(***************************************************************************)
(* Properties.                                                             *)
(***************************************************************************)

(* The types of the variables.                                             *)
TypeOK ==
    /\ phase \in [Req -> {"new", "fetch", "read", "done"}]
    /\ cleanupFns \subseteq Req
    /\ aborted \subseteq Req
    /\ stage \in {"alive", "leaving", "gone"}
    /\ interval \in BOOLEAN
    /\ emitted \in [Req -> SUBSET {"update", "peer", "scrape", "warning", "unhandled"}]
    /\ reporting \subseteq Req

(* Until destroy() calls back, the requests under way are registered, and  *)
(* so are those that failed (their cleanup functions hold up destroy() for *)
(* DESTROY_TIMEOUT), but none whose body has arrived. After it, all that   *)
(* is under way is aborted.                                                *)
Failed(r) == phase[r] = "done" /\ r \in cleanupFns
Answered(r) == emitted[r] \cap {"update", "scrape"} # {}
CleanupTracked ==
    /\ stage # "gone" => UnderWay \subseteq cleanupFns
    /\ stage = "gone" => cleanupFns = {} /\ UnderWay \subseteq aborted
    /\ \A r \in Req : Failed(r) => emitted[r] # {} /\ ~Answered(r)

(* What may come of one request: a failure, or an answer to what it was,   *)
(* announce or scrape. A warning may come with either.                     *)
OneAnswer(events) ==
    /\ "peer" \in events => "update" \in events
    /\ \A x, y \in events \cap {"update", "scrape", "unhandled"} : x = y

(* A request is reported once, by one failure or one response. While       *)
(* requests go on after destroy(), none is answered and no interval timer  *)
(* starts. The exception is the response whose message is heard by a       *)
(* listener that calls destroy(): its answer still comes, and may start    *)
(* the timer of a tracker that is destroyed.                               *)
ReportStep ==
    /\ \A r \in Req : /\ OneAnswer(emitted'[r])
                      /\ emitted'[r] # emitted[r] => emitted[r] = {} \/ r \in reporting
                      /\ ~Answered(r) /\ Answered(r)' /\ destroyed' => emitted[r] = {"warning"}
    /\ destroyed' /\ interval' =>
          /\ destroyed
          /\ interval \/ \E r \in Req : emitted[r] = {"warning"} /\ "update" \in emitted'[r]
OneReport == [][ReportStep]_vars

(* test/destroy.js:26, `no "update" event should fire, since client is     *)
(* destroyed`. False of the code if destroy() is called by a listener that *)
(* hears the message of a response.                                        *)
NoUpdateAfterDestroy ==
    [][\A r \in Req : destroyed /\ "update" \in emitted'[r] => "update" \in emitted[r]]_vars

(* Every request ends, whatever the network does.                          *)
RequestEnds == \A r \in Req : (r \in UnderWay) ~> (r \notin UnderWay)

(* No request ends in a rejection that nobody handles.                     *)
NoUnhandledRejection == \A r \in Req : "unhandled" \notin emitted[r]

(* destroy() calls back once: when the last registered request ends, or    *)
(* when DESTROY_TIMEOUT is over.                                           *)
Contract == INSTANCE Teardown WITH Requests <- Req, open <- cleanupFns

ImplementsTeardown == Contract!Spec
=============================================================================

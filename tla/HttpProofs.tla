----------------------------- MODULE HttpProofs -----------------------------
(***************************************************************************)
(* Proofs about HttpTracker, for any number of requests.                   *)
(***************************************************************************)
EXTENDS HttpTracker, TLAPS

(* destroy() waits only for registered requests, which have begun; what is *)
(* not done has no outcome; and what is being reported has not failed and  *)
(* is registered no more.                                                  *)
IInv ==
    /\ TypeOK
    /\ CleanupTracked
    /\ \A r \in cleanupFns : phase[r] # "new"
    /\ stage = "leaving" => cleanupFns # {}
    /\ \A r \in Req : phase[r] # "done" => emitted[r] = {}
    /\ \A r \in Req : OneAnswer(emitted[r])
    /\ \A r \in reporting : /\ phase[r] = "done" /\ r \notin cleanupFns
                            /\ "unhandled" \notin emitted[r]

LEMMA InitInv == Init => IInv
BY DEF Init, IInv, TypeOK, CleanupTracked, UnderWay, Failed, OneAnswer, destroyed

(* A request whose body arrives is registered: it is not aborted, and once *)
(* destroy() has called back all that is under way is.                     *)
LEMMA BodyRegistered ==
    ASSUME IInv, NEW r \in Req, BodyArrives(r)
    PROVE  r \in cleanupFns /\ stage # "gone"
BY DEF IInv, CleanupTracked, UnderWay, BodyArrives

(* Each step keeps the invariant and does what OneReport says.            *)
LEMMA StepInv == IInv /\ [Next]_vars => IInv' /\ (ReportStep \/ UNCHANGED vars)
<1> SUFFICES ASSUME IInv, [Next]_vars PROVE IInv' /\ (ReportStep \/ UNCHANGED vars)
  OBVIOUS
<1> USE DEF UnderWay, Failed, Answered
<1>1. ASSUME NEW r \in Req, Request(r) \/ Responds(r) PROVE IInv' /\ ReportStep
  BY <1>1 DEF IInv, TypeOK, CleanupTracked, ReportStep, Request, Responds, destroyed
<1>2. ASSUME NEW r \in Req, FetchFails(r) \/ BodyFails(r) PROVE IInv' /\ ReportStep
  <2>1. /\ phase[r] \in {"fetch", "read"}
        /\ phase' = [phase EXCEPT ![r] = "done"]
        /\ UNCHANGED <<cleanupFns, aborted, stage, interval, reporting>>
        /\ reporting = {}
    BY <1>2 DEF FetchFails, BodyFails, NoHandler
  <2>2. PICK e \in SUBSET {"warning", "unhandled"} :
           e # {} /\ emitted' = [emitted EXCEPT ![r] = e]
    BY <1>2 DEF FetchFails, BodyFails
  <2>3. OneAnswer(e)
    BY <2>2 DEF OneAnswer
  <2>4. IInv'
    BY <2>1, <2>2, <2>3 DEF IInv, TypeOK, CleanupTracked
  <2> QED
    BY <2>1, <2>2, <2>3, <2>4 DEF IInv, TypeOK, ReportStep, destroyed
<1>3. ASSUME NEW r \in Req, BodyArrives(r) PROVE IInv' /\ ReportStep
  <2>1. r \in cleanupFns /\ stage # "gone"
    BY <1>3, BodyRegistered
  <2>2. /\ phase[r] = "read"
        /\ phase' = [phase EXCEPT ![r] = "done"]
        /\ Cleanup(r)
    BY <1>3 DEF BodyArrives
  <2>3. \/ destroyed /\ UNCHANGED <<interval, emitted, reporting>>
        \/ /\ ~destroyed /\ reporting' = {r}
           /\ \E e \in {"warning", "update", "scrape"} : emitted' = [emitted EXCEPT ![r] = {e}]
           /\ interval' \in BOOLEAN
    BY <1>3 DEF IInv, TypeOK, BodyArrives, Warn, Answer
  <2>4. /\ phase' \in [Req -> {"new", "fetch", "read", "done"}]
        /\ cleanupFns' \subseteq Req /\ aborted' \subseteq Req
        /\ stage' \in {"alive", "leaving", "gone"}
        /\ CleanupTracked'
        /\ \A q \in cleanupFns' : phase'[q] # "new"
        /\ stage' = "leaving" => cleanupFns' # {}
        /\ destroyed' <=> destroyed
        /\ r \notin cleanupFns'
    <3>1. \A q \in Req \ {r} : emitted'[q] = emitted[q]
      BY <2>3 DEF IInv, TypeOK
    <3> QED
      BY <2>1, <2>2, <3>1 DEF IInv, TypeOK, CleanupTracked, Cleanup, destroyed
  <2>5. \A q \in Req : OneAnswer(emitted'[q]) /\ (emitted'[q] # emitted[q] => emitted[q] = {})
    BY <2>2, <2>3 DEF IInv, TypeOK, OneAnswer
  <2>6. interval' \in BOOLEAN /\ reporting' \in {{}, {r}} /\ "unhandled" \notin emitted'[r]
    BY <1>3, <2>2, <2>3 DEF IInv, TypeOK, BodyArrives, NoHandler
  <2>7. emitted' \in [Req -> SUBSET {"update", "peer", "scrape", "warning", "unhandled"}]
    BY <2>3 DEF IInv, TypeOK
  <2>8. \A q \in Req : phase'[q] # "done" => emitted'[q] = {}
    BY <2>2, <2>3 DEF IInv, TypeOK
  <2>9. IInv'
    BY <2>2, <2>4, <2>5, <2>6, <2>7, <2>8 DEF IInv, TypeOK
  <2>10. ReportStep
    BY <2>3, <2>4, <2>5 DEF ReportStep
  <2> QED
    BY <2>9, <2>10
<1>4. ASSUME NEW r \in Req, TimesOut(r) PROVE IInv' /\ ReportStep
  BY <1>4 DEF IInv, TypeOK, CleanupTracked, ReportStep, TimesOut, destroyed
<1>5. ASSUME SetInterval PROVE IInv' /\ ReportStep
  BY <1>5 DEF IInv, TypeOK, CleanupTracked, ReportStep, SetInterval, destroyed
<1>6. ASSUME Destroy PROVE IInv' /\ ReportStep
  BY <1>6 DEF IInv, TypeOK, CleanupTracked, ReportStep, Destroy, destroyed
<1>7. ASSUME DestroyTimeout PROVE IInv' /\ ReportStep
  BY <1>7 DEF IInv, TypeOK, CleanupTracked, ReportStep, DestroyTimeout, destroyed
<1>8. ASSUME NEW r \in Req, ReportsOn(r) PROVE IInv' /\ ReportStep
  <2>1. /\ r \in reporting /\ reporting' \in {reporting, {}}
        /\ UNCHANGED <<phase, cleanupFns, aborted, stage>>
    BY <1>8 DEF ReportsOn
  <2>2. \/ emitted[r] = {"warning"} /\ Answer(r)
        \/ /\ "update" \in emitted[r] /\ UNCHANGED interval
           /\ \E e \in {"peer", "warning"} : emitted' = [emitted EXCEPT ![r] = @ \cup {e}]
    BY <1>8 DEF ReportsOn, Warn
  <2>3. PICK e \in {"update", "scrape", "peer", "warning"} :
           /\ emitted' = [emitted EXCEPT ![r] = @ \cup {e}]
           /\ e \in {"update", "scrape"} => emitted[r] = {"warning"}
           /\ e \in {"peer", "warning"} => "update" \in emitted[r]
           /\ e # "update" => UNCHANGED interval
           /\ interval' \in BOOLEAN
    BY <2>2 DEF IInv, TypeOK, Answer
  <2>4. OneAnswer(emitted'[r]) /\ "unhandled" \notin emitted'[r]
    <3>1. emitted'[r] = emitted[r] \cup {e} /\ OneAnswer(emitted[r]) /\ "unhandled" \notin emitted[r]
      BY <2>1, <2>3 DEF IInv, TypeOK
    <3> QED
      BY <2>3, <3>1 DEF OneAnswer
  <2>5. IInv'
    BY <2>1, <2>3, <2>4 DEF IInv, TypeOK, CleanupTracked
  <2>6. /\ \A q \in Req \ {r} : emitted'[q] = emitted[q]
        /\ emitted'[r] = emitted[r] \cup {e}
        /\ \A q \in Req : OneAnswer(emitted'[q])
    BY <2>3, <2>5 DEF IInv, TypeOK
  <2> QED
    BY <2>1, <2>3, <2>5, <2>6 DEF ReportStep, destroyed
<1>9. ASSUME Returns PROVE IInv' /\ ReportStep
  BY <1>9 DEF IInv, TypeOK, CleanupTracked, ReportStep, Returns, destroyed
<1>10. ASSUME UNCHANGED vars PROVE IInv'
  BY <1>10 DEF IInv, TypeOK, CleanupTracked, vars
<1> QED
  BY <1>1, <1>2, <1>3, <1>4, <1>5, <1>6, <1>7, <1>8, <1>9, <1>10 DEF Next

-----------------------------------------------------------------------------
(* Until destroy() calls back, registered are the requests under way and   *)
(* those that failed; after it, all that is under way is aborted.          *)
THEOREM CleanupCorrect == Spec => []CleanupTracked
<1>1. IInv => CleanupTracked
  BY DEF IInv
<1> QED
  BY <1>1, InitInv, StepInv, PTL DEF Spec

(* A request is reported once, by one failure or one response. None is     *)
(* answered after destroy(), and no interval timer starts, but by the      *)
(* response whose message is heard by a listener that calls destroy().     *)
THEOREM ReportsCorrect == Spec => OneReport
<1>1. IInv /\ [Next]_vars => IInv' /\ [ReportStep]_vars
  BY StepInv
<1> QED
  BY <1>1, InitInv, PTL DEF Spec, OneReport

(* Seen from the registered cleanup functions, every step is a step of     *)
(* Teardown or none: destroy() calls back once, as soon as no request is   *)
(* registered, or when DESTROY_TIMEOUT is over.                            *)
THEOREM TeardownCorrect == Spec => Contract!Safety
<1>1. Init => Contract!Init
  BY DEF Init, Contract!Init
<1>2. ASSUME IInv, Next PROVE Contract!Next \/ UNCHANGED Contract!vars
  <2> USE DEF Contract!Next, Contract!vars, destroyed
  <2>1. ASSUME NEW r \in Req, Request(r) PROVE Contract!Begin(r)
    BY <1>2, <2>1 DEF IInv, Request, Contract!Begin
  <2>2. ASSUME NEW r \in Req, BodyArrives(r) PROVE Contract!End(r)
    BY <1>2, <2>2, BodyRegistered DEF BodyArrives, Cleanup, Contract!End
  <2>3. ASSUME Destroy PROVE Contract!Leave
    BY <2>3 DEF Destroy, Contract!Leave
  <2>4. ASSUME DestroyTimeout PROVE Contract!Force
    BY <2>4 DEF DestroyTimeout, Contract!Force
  <2> QED
    BY <1>2, <2>1, <2>2, <2>3, <2>4
    DEF Next, Responds, FetchFails, BodyFails, TimesOut, SetInterval, ReportsOn, Returns
<1>3. UNCHANGED vars => UNCHANGED Contract!vars
  BY DEF vars, Contract!vars
<1> QED
  BY <1>1, <1>2, <1>3, InitInv, StepInv, PTL DEF Spec, Contract!Safety
=============================================================================

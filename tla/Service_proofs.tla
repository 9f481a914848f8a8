--------------------------- MODULE Service_proofs ---------------------------
(***************************************************************************)
(* Type correctness of the service, and that what Nacos lists is serving.  *)
(* The inductive invariant follows the registration through the phases of  *)
(* the service: what is listed is known to be registered or in doubt, a    *)
(* request that may still arrive is a doubt, and a registry that is done   *)
(* without a doubt has left nothing behind.                                *)
(***************************************************************************)
EXTENDS Service, TLAPS

Active == Registering \cup {"beat", "login", "relogin", "refresh", "recover", "sleep"}

\* Where the registry is in each phase of the service.
InStep ==
  /\ phase \in {"new", "queue", "http"} => registry.at = "off"
  /\ phase \in {"registering", "up", "stopping"} => registry.at \in Active
  /\ phase = "deregistering" => registry.at \in {"deregister", "done"}
  /\ phase \in {"closing", "http_closing", "queue_closing", "exited"} => registry.at = "done"
  /\ phase = "crashed" => registry.at \in {"off", "done"} /\ registry.unsure

\* What the registry knows of its listing, and what it does not.
Known ==
  /\ nacos.late => registry.unsure
  /\ nacos.listed => registry.registered \/ registry.unsure
  /\ registry.at \in {"beat", "deregister"} => registry.registered
  /\ registry.at = "off" => ~nacos.listed /\ ~nacos.late
  /\ registry.at = "done" /\ ~registry.unsure => ~nacos.listed

IInv == TypeOK /\ InStep /\ Known

----------------------------------------------------------------------------
(* Types.                                                                  *)

LEMMA Ordered ==
  /\ Starting[1] = "new" /\ Starting[2] = "queue" /\ Starting[3] = "http"
  /\ Starting[4] = "registering" /\ Starting[5] = "up"
  /\ Stopping[1] = "stopping" /\ Stopping[2] = "deregistering" /\ Stopping[3] = "closing"
  /\ Stopping[4] = "http_closing" /\ Stopping[5] = "queue_closing" /\ Stopping[6] = "exited"
  BY DEF Starting, Stopping

LEMMA PhasesAre ==
  Phases = {"new", "queue", "http", "registering", "up", "stopping", "deregistering",
            "closing", "http_closing", "queue_closing", "exited", "crashed"}
  BY Ordered DEF Phases

LEMMA LongestBounds ==
  /\ Longest \in Nat /\ SaturateSec \in 0..Longest /\ RecoverSec \in 0..Longest
  BY AdmissionAssumption DEF Longest

\* The timers of the controller do not leave their range.
LEMMA EvaluateType ==
  ASSUME NEW d \in {1, 2} PROVE AdmissionType /\ Evaluate(d) => admission' \in [over : None..Longest, under : None..Longest, saturated : BOOLEAN]
<1> SUFFICES ASSUME AdmissionType, Evaluate(d)
             PROVE  admission' \in [over : None..Longest, under : None..Longest, saturated : BOOLEAN]
  OBVIOUS
<1>1. ASSUME NEW since \in None..Longest PROVE Later(since, d) \in None..Longest
  BY LongestBounds DEF Later, None
<1>2. /\ admission.over \in None..Longest /\ admission.under \in None..Longest
      /\ admission.saturated \in BOOLEAN
  BY DEF AdmissionType
<1>3. /\ Later(admission.over, d) \in None..Longest /\ Later(admission.under, d) \in None..Longest
      /\ 0 \in None..Longest /\ None \in None..Longest
  BY <1>1, <1>2, LongestBounds DEF None
<1> QED
  BY <1>2, <1>3 DEF Evaluate

LEMMA InitInv == Init => IInv
<1> SUFFICES ASSUME Init PROVE IInv
  OBVIOUS
<1>1. AdmissionType
  BY LongestBounds DEF Init, AdmissionInit, AdmissionType, None
<1>2. RegistryType
  BY RegistryAssumption DEF Init, RegistryInit, RegistryType, Requests, Registering
<1>3. phase \in Phases /\ served \in 0..MaxServed /\ heavy \in BOOLEAN
  <2>1. phase \in Phases
    BY PhasesAre DEF Init
  <2>2. served \in 0..MaxServed
    BY ServiceAssumption DEF Init
  <2>3. heavy \in BOOLEAN
    BY DEF Init
  <2> QED
    BY <2>1, <2>2, <2>3
<1>4. InStep /\ Known
  BY DEF Init, RegistryInit, InStep, Known
<1> QED
  BY <1>1, <1>2, <1>3, <1>4 DEF IInv, TypeOK

----------------------------------------------------------------------------
(* The registry.                                                           *)

RegistryInv == RegistryType /\ Known /\ registry.at \in Active

\* A step of the loop, a request that is answered, lost or refused included.
LEMMA LoopInv == RegistryInv /\ RegistryLoop => RegistryInv'
<1> SUFFICES ASSUME RegistryInv, RegistryLoop PROVE RegistryInv'
  OBVIOUS
<1> USE DEF RegistryInv, RegistryType, Known, Active, Requests, Registering
<1>1. CASE Login
  BY <1>1 DEF Login, AfterLogin
<1>2. CASE Register
  <2>1. PICK answer \in Answers :
          /\ registry.at \in Registering
          /\ registry' =
               CASE answer = "ok"     -> [registry EXCEPT !.at = "sleep", !.registered = TRUE, !.unsure = nacos.late]
                 [] answer = "denied" -> [registry EXCEPT !.at = IF @ = "register" THEN "relogin" ELSE "sleep"]
                 [] answer = "error"  -> [registry EXCEPT !.at = "sleep"]
                 [] answer = "lost"   -> [registry EXCEPT !.at = "sleep", !.unsure = TRUE]
          /\ nacos' = [nacos EXCEPT !.listed = @ \/ answer = "ok", !.late = @ \/ answer = "lost"]
    BY <1>2 DEF Register
  <2>2. answer \in {"ok", "denied", "error", "lost"}
    BY DEF Answers
  <2>3. CASE answer = "ok"
    <3>1. /\ registry' = [registry EXCEPT !.at = "sleep", !.registered = TRUE, !.unsure = nacos.late]
          /\ nacos' = [nacos EXCEPT !.listed = TRUE]
      BY <2>1, <2>3
    <3> QED
      BY <3>1
  <2>4. CASE answer = "denied"
    <3>1. /\ \E a \in {"relogin", "sleep"} : registry' = [registry EXCEPT !.at = a]
          /\ nacos' = nacos
      BY <2>1, <2>4
    <3> QED
      BY <3>1
  <2>5. CASE answer = "error"
    <3>1. registry' = [registry EXCEPT !.at = "sleep"] /\ nacos' = nacos
      BY <2>1, <2>5
    <3> QED
      BY <3>1
  <2>6. CASE answer = "lost"
    <3>1. /\ registry' = [registry EXCEPT !.at = "sleep", !.unsure = TRUE]
          /\ nacos' = [nacos EXCEPT !.late = TRUE]
      BY <2>1, <2>6
    <3> QED
      BY <3>1
  <2> QED
    BY <2>2, <2>3, <2>4, <2>5, <2>6
<1>3. CASE Beat
  <2>1. PICK answer \in Answers :
          /\ registry.at = "beat"
          /\ IF answer = "ok"
             THEN \/ /\ registry' = [registry EXCEPT !.at = "sleep", !.unsure = nacos.late]
                     /\ nacos' = [nacos EXCEPT !.listed = TRUE]
                  \/ /\ registry' = [registry EXCEPT !.at = "recover"]
                     /\ UNCHANGED nacos
             ELSE /\ registry' = [registry EXCEPT !.at = "recover", !.unsure = @ \/ answer = "lost"]
                  /\ nacos' = [nacos EXCEPT !.late = @ \/ answer = "lost"]
    BY <1>3 DEF Beat
  <2>2. CASE answer = "ok"
    <3>1. CASE registry' = [registry EXCEPT !.at = "sleep", !.unsure = nacos.late]
               /\ nacos' = [nacos EXCEPT !.listed = TRUE]
      BY <2>1, <3>1
    <3>2. CASE registry' = [registry EXCEPT !.at = "recover"] /\ nacos' = nacos
      BY <3>2
    <3> QED
      BY <2>1, <2>2, <3>1, <3>2
  <2>3. CASE answer = "lost"
    <3>1. /\ registry' = [registry EXCEPT !.at = "recover", !.unsure = TRUE]
          /\ nacos' = [nacos EXCEPT !.late = TRUE]
      BY <2>1, <2>3
    <3> QED
      BY <3>1
  <2>4. CASE answer \notin {"ok", "lost"}
    <3>1. /\ registry' = [registry EXCEPT !.at = "recover", !.unsure = @ \/ FALSE]
          /\ nacos' = [nacos EXCEPT !.late = @ \/ FALSE]
      BY <2>1, <2>4
    <3> QED
      BY <3>1
  <2> QED
    BY <2>2, <2>3, <2>4
<1>4. CASE WakeUp
  BY <1>4 DEF WakeUp
<1> QED
  BY <1>1, <1>2, <1>3, <1>4 DEF RegistryLoop

\* Whatever the server and the network do.
LEMMA ServerInv ==
  RegistryType /\ Known /\ Server =>
    RegistryType' /\ Known' /\ registry'.at = registry.at /\ registry'.unsure = registry.unsure
<1> SUFFICES ASSUME RegistryType, Known, Server
             PROVE  RegistryType' /\ Known' /\ registry'.at = registry.at /\ registry'.unsure = registry.unsure
  OBVIOUS
<1> USE RegistryAssumption DEF RegistryType, Known
<1>1. CASE LateRequest
  BY <1>1 DEF LateRequest
<1>2. CASE ListingExpires
  BY <1>2 DEF ListingExpires
<1>3. CASE TokenAges \/ TokenExpires
  BY <1>3 DEF TokenAges, TokenExpires
<1>4. CASE ServerRestarts
  <2>1. nacos.faults + 1 \in 0..MaxFaults
    BY <1>4 DEF ServerRestarts
  <2> QED
    BY <1>4, <2>1 DEF ServerRestarts
<1>5. CASE NetworkBreaks
  <2>1. nacos.faults + 1 \in 0..MaxFaults
    BY <1>5 DEF NetworkBreaks
  <2> QED
    BY <1>5, <2>1 DEF NetworkBreaks
<1>6. CASE NetworkHeals
  BY <1>6 DEF NetworkHeals
<1> QED
  BY <1>1, <1>2, <1>3, <1>4, <1>5, <1>6 DEF Server

----------------------------------------------------------------------------
(* The steps of the service.                                               *)

LEMMA NextInv == IInv /\ [Next]_vars => IInv'
<1> SUFFICES ASSUME IInv, [Next]_vars PROVE IInv'
  OBVIOUS
<1> USE PhasesAre DEF IInv, TypeOK
<1>1. CASE StartPart
  <2>1. \/ phase = "new" /\ phase' = "queue"
        \/ phase = "queue" /\ phase' = "http"
    BY <1>1, Ordered DEF StartPart
  <2> QED
    BY <1>1, <2>1 DEF StartPart, InStep, Known, AdmissionType, RegistryType
<1>2. CASE StartGateway
  BY <1>2 DEF StartGateway, StartRegistry, InStep, Known, AdmissionType, RegistryType, Active, Requests, Registering
<1>3. CASE Started \/ Signal
  BY <1>3 DEF Started, Signal, InStep, Known, AdmissionType, RegistryType
<1>4. CASE LeaveRegistry
  <2>1. /\ phase = "stopping" /\ phase' = "deregistering" /\ registry.at \in Active
        /\ UNCHANGED <<probe, admission, served, heavy>>
    BY <1>4 DEF LeaveRegistry, InStep
  <2>2. /\ registry' = [registry EXCEPT !.at = IF registry.registered THEN "deregister" ELSE "done",
                                        !.unsure = @ \/ registry.at \in Registering \cup {"beat"}]
        /\ nacos' = [nacos EXCEPT !.late = @ \/ registry.at \in Registering \cup {"beat"}]
    BY <1>4 DEF LeaveRegistry, StopRegistry
  <2>3. RegistryType'
    BY <2>2 DEF RegistryType, Requests
  <2>4. Known'
    BY <2>2 DEF RegistryType, Known
  <2>5. InStep'
    BY <2>1, <2>2 DEF RegistryType, InStep
  <2> QED
    BY <2>1, <2>3, <2>4, <2>5 DEF AdmissionType
<1>5. CASE CloseGateway
  BY <1>5 DEF CloseGateway, InStep, Known, AdmissionType, RegistryType
<1>6. CASE StopPart
  <2>1. \/ phase = "closing" /\ phase' = "http_closing"
        \/ phase = "http_closing" /\ phase' = "queue_closing"
        \/ phase = "queue_closing" /\ phase' = "exited"
    BY <1>6, Ordered DEF StopPart
  <2> QED
    BY <1>6, <2>1 DEF StopPart, InStep, Known, AdmissionType, RegistryType
<1>7. CASE Die
  <2>1. served' \in 0..MaxServed
    BY <1>7, ServiceAssumption DEF Die
  <2>2. /\ phase' = "crashed" /\ UNCHANGED <<probe, admission, nacos, heavy>>
        /\ registry' = [registry EXCEPT !.at = IF @ = "off" THEN @ ELSE "done", !.unsure = TRUE]
    BY <1>7 DEF Die
  <2>3. RegistryType'
    BY <2>2 DEF RegistryType
  <2>4. Known'
    BY <2>2 DEF RegistryType, Known
  <2>5. InStep'
    BY <2>2 DEF RegistryType, InStep
  <2> QED
    BY <2>1, <2>2, <2>3, <2>4, <2>5 DEF AdmissionType
<1>8. CASE NewSession \/ EndSession
  <2>1. served' \in 0..MaxServed
    BY <1>8, ServiceAssumption DEF NewSession, EndSession
  <2> QED
    BY <1>8, <2>1 DEF NewSession, EndSession, InStep, Known, AdmissionType, RegistryType
<1>9. CASE LoadChanges
  BY <1>9 DEF LoadChanges, InStep, Known, AdmissionType, RegistryType
<1>10. CASE AdmissionRound
  <2>1. AdmissionType'
    BY <1>10, EvaluateType DEF AdmissionRound, AdmissionType
  <2> QED
    BY <1>10, <2>1 DEF AdmissionRound, InStep, Known, RegistryType
<1>11. ASSUME NEW p \in Probes, Measure(p) PROVE IInv'
  <2>1. probe' \in [Probes -> {"low", "middle", "high"}]
    BY <1>11 DEF Measure, AdmissionType, Towards
  <2> QED
    BY <1>11, <2>1 DEF Measure, InStep, Known, AdmissionType, RegistryType
<1>12. CASE RegistryRound
  <2>1. phase \in {"registering", "up"} /\ registry.at \in Active
    BY <1>12 DEF RegistryRound, LoopsRun, InStep
  <2>2. RegistryInv'
    BY <1>12, <2>1, LoopInv DEF RegistryRound, RegistryInv
  <2> QED
    BY <1>12, <2>1, <2>2 DEF RegistryRound, Alone, RegistryInv, InStep, AdmissionType
<1>13. CASE LastRequest
  <2>1. PICK answer \in Answers :
          /\ registry.at = "deregister"
          /\ registry' = [registry EXCEPT !.at = "done", !.registered = FALSE,
                                          !.unsure = @ \/ answer # "ok" \/ nacos.late]
          /\ nacos' = [nacos EXCEPT !.listed = @ /\ answer # "ok"]
    BY <1>13 DEF LastRequest, Deregister
  <2>2. phase = "deregistering" /\ phase' = phase
    BY <1>13, <2>1 DEF LastRequest, Alone, InStep, Active, Registering
  <2>3. RegistryType' /\ Known'
    <3>1. CASE answer = "ok"
      BY <2>1, <3>1 DEF Known, RegistryType
    <3>2. CASE answer # "ok"
      BY <2>1, <3>2 DEF Known, RegistryType
    <3> QED
      BY <3>1, <3>2
  <2>4. InStep'
    BY <2>1, <2>2 DEF InStep, RegistryType
  <2> QED
    BY <1>13, <2>3, <2>4 DEF LastRequest, Alone, AdmissionType
<1>14. CASE NacosMoves
  BY <1>14, ServerInv DEF NacosMoves, Alone, InStep, AdmissionType
<1>15. CASE UNCHANGED vars
  BY <1>15 DEF vars, InStep, Known, AdmissionType, RegistryType
<1>16. CASE Stopped
  BY <1>15, <1>16 DEF Stopped
<1> QED
  BY <1>1, <1>2, <1>3, <1>4, <1>5, <1>6, <1>7, <1>8, <1>10, <1>11, <1>12, <1>13, <1>14, <1>15, <1>16, <1>9 DEF Next

----------------------------------------------------------------------------
(* Theorems.                                                               *)

LEMMA Invariant == Spec => []IInv
  BY InitInv, NextInv, PTL DEF Spec

\* Every reachable state of the service, its controller and its registry is well
\* formed, for any set of probes, limits and bounds.
THEOREM ServiceTypeCorrect == Spec => []TypeOK
<1>1. IInv => TypeOK
  BY DEF IInv
<1> QED
  BY <1>1, Invariant, PTL

\* What Nacos lists is serving, or in doubt, however requests fail, arrive late or are
\* cancelled, tokens expire, the server restarts and the service stops or dies.
THEOREM ListedServes == Spec => []AdvertisedServing
<1>1. IInv => AdvertisedServing
  BY PhasesAre DEF IInv, TypeOK, InStep, Known, AdvertisedServing, Serving
<1> QED
  BY <1>1, Invariant, PTL
============================================================================

----------------------------- MODULE Admission -----------------------------
(***************************************************************************)
(* The admission controller (server/admission.py): probes of the load,     *)
(* each with a limit, and a hysteresis between admitting and refusing new  *)
(* sessions.  A probe's value is what its limit tells apart: "low" (below  *)
(* half of it), "middle", or "high" (above it).  The module has no Next:   *)
(* Service says when the controller evaluates and whose sessions it is     *)
(* asked about.                                                            *)
(***************************************************************************)
EXTENDS Integers

CONSTANTS
  Probes,       \* the names of the probes
  Attribute,    \* what the engines have under a probe's name: "method", "property" or "absent"
  SaturateSec,  \* admission.saturate_sec
  RecoverSec    \* admission.recover_sec

ASSUME AdmissionAssumption ==
  /\ {SaturateSec, RecoverSec} \subseteq Nat
  /\ Attribute \in [Probes -> {"method", "property", "absent"}]

VARIABLES
  probe,     \* the value of each probe
  admission  \* the AdmissionController

None == -1
Longest == IF SaturateSec >= RecoverSec THEN SaturateSec ELSE RecoverSec

\* ASRRealtimeService.__init__: getattr, and only what is callable becomes a probe.
Wired == {p \in Probes : Attribute[p] = "method"}

AdmissionInit ==
  /\ probe = [p \in Probes |-> "low"]
  /\ admission = [over |-> None, under |-> None, saturated |-> FALSE]

AdmissionType ==
  /\ probe \in [Probes -> {"low", "middle", "high"}]
  /\ admission \in [over : None..Longest, under : None..Longest, saturated : BOOLEAN]

\* How long _over_since or _under_since lies back, d seconds later.
Later(since, d) ==
  IF since = None THEN None ELSE IF since + d < Longest THEN since + d ELSE Longest

Over == \E p \in Wired : probe[p] = "high"
AllBelowHalf == \A p \in Wired : probe[p] = "low"

\* Fault: the beginning of the calm is forgotten at every evaluation.
EvaluateForgetful(d) ==
  LET a == admission
  IN admission' =
       IF Over
       THEN [over |-> IF a.over = None THEN 0 ELSE Later(a.over, d), under |-> None,
             saturated |-> a.saturated \/ (a.over # None /\ Later(a.over, d) >= SaturateSec)]
       ELSE [a EXCEPT !.over = None, !.under = IF a.saturated /\ AllBelowHalf THEN 0 ELSE None]

\* evaluate, d seconds after it was last called.
Evaluate(d) ==
  LET a     == admission
      over  == Later(a.over, d)
      under == Later(a.under, d)
  IN admission' =
       IF Over
       THEN [over |-> IF over = None THEN 0 ELSE over, under |-> None,
             saturated |-> a.saturated \/ (over # None /\ over >= SaturateSec)]
       ELSE IF a.saturated /\ AllBelowHalf /\ under # None /\ under >= RecoverSec
       THEN [over |-> None, under |-> None, saturated |-> FALSE]
       ELSE [over |-> None, saturated |-> a.saturated,
             under |-> IF ~a.saturated THEN a.under
                       ELSE IF ~AllBelowHalf THEN None
                       ELSE IF under = None THEN 0 ELSE under]

\* allow_new_session
AllowNewSession == ~admission.saturated
============================================================================

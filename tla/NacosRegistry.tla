--------------------------- MODULE NacosRegistry ---------------------------
(***************************************************************************)
(* The registration of the service with a Nacos server                     *)
(* (core/registry/nacos_registry.py): log in, register, and a heartbeat    *)
(* loop that refreshes the token and registers again.  The server is not   *)
(* part of the repository: it lists an instance that registers or beats    *)
(* with a token it accepts, drops it when no beat arrives, and may restart *)
(* without tokens and instances.  A request is one step, answered by the   *)
(* server or, while the network is down, by an error; the server may still *)
(* receive a request whose answer was lost or not waited for.              *)
(***************************************************************************)
EXTENDS Integers

CONSTANTS
  Auth,      \* registry.username is set
  MaxFaults  \* bound: failures of the network and restarts of the server

ASSUME RegistryAssumption == Auth \in BOOLEAN /\ MaxFaults \in Nat

VARIABLES
  registry,  \* the NacosRegistry
  nacos      \* the server and the network before it

\* at is where start, the heartbeat loop or stop is; unsure is history: a registration
\* may be on the server that no answer has confirmed, or a deregistration failed.
RegistryInit ==
  /\ registry = [at |-> "off", registered |-> FALSE, token |-> "none", unsure |-> FALSE]
  /\ nacos = [up |-> TRUE, listed |-> FALSE, accepts |-> FALSE, late |-> FALSE, faults |-> 0]

Registering == {"register", "retry"}
Requests == Registering \cup {"beat", "login", "relogin", "refresh", "recover", "deregister"}

RegistryType ==
  /\ registry \in [at : Requests \cup {"off", "sleep", "done"}, registered : BOOLEAN,
                   token : {"none", "young", "stale"}, unsure : BOOLEAN]
  /\ nacos \in [up : BOOLEAN, listed : BOOLEAN, accepts : BOOLEAN, late : BOOLEAN, faults : 0..MaxFaults]

\* The answers to a request that needs the token.
Answers == IF ~nacos.up THEN {"error", "lost"}
           ELSE IF Auth /\ ~nacos.accepts THEN {"denied"} ELSE {"ok"}

----------------------------------------------------------------------------
(* The requests.                                                           *)

\* start
StartRegistry ==
  /\ registry.at = "off"
  /\ registry' = [registry EXCEPT !.at = IF Auth THEN "login" ELSE "register"]
  /\ UNCHANGED nacos

\* Where a login leads: start gives up when it fails; the recovery of a failed beat
\* registers whatever it yields; after a refresh the round goes on.
AfterLogin(ok) ==
  CASE registry.at = "login"   -> IF ok THEN "register" ELSE "sleep"
    [] registry.at = "relogin" -> IF ok THEN "retry" ELSE "sleep"
    [] registry.at = "recover" -> "register"
    [] registry.at = "refresh" -> IF registry.registered THEN "beat" ELSE "register"

\* _login
Login ==
  /\ registry.at \in {"login", "relogin", "recover", "refresh"}
  /\ registry' = [registry EXCEPT !.at = AfterLogin(nacos.up \/ ~Auth),
                                   !.token = IF Auth /\ nacos.up THEN "young" ELSE @]
  /\ nacos' = [nacos EXCEPT !.accepts = @ \/ nacos.up]

\* _register: the request, and after a 401 or 403 a login and one more.
Register ==
  \E answer \in Answers :
    /\ registry.at \in Registering
    /\ registry' =
         CASE answer = "ok"     -> [registry EXCEPT !.at = "sleep", !.registered = TRUE, !.unsure = nacos.late]
           [] answer = "denied" -> [registry EXCEPT !.at = IF @ = "register" THEN "relogin" ELSE "sleep"]
           [] answer = "error"  -> [registry EXCEPT !.at = "sleep"]
           [] answer = "lost"   -> [registry EXCEPT !.at = "sleep", !.unsure = TRUE]
    /\ nacos' = [nacos EXCEPT !.listed = @ \/ answer = "ok", !.late = @ \/ answer = "lost"]

\* Fault: an instance that was registered once is not registered again.
BeatWithoutRecovery ==
  \E answer \in Answers :
    /\ registry.at = "beat"
    /\ registry' = [registry EXCEPT !.at = "sleep"]
    /\ nacos' = [nacos EXCEPT !.late = @ \/ answer = "lost"]

\* _send_beat: of an instance it does not list, the server refuses it or lists it again.
Beat ==
  \E answer \in Answers :
    /\ registry.at = "beat"
    /\ IF answer = "ok"
       THEN \/ /\ registry' = [registry EXCEPT !.at = "sleep", !.unsure = nacos.late]
               /\ nacos' = [nacos EXCEPT !.listed = TRUE]
            \/ /\ ~nacos.listed
               /\ registry' = [registry EXCEPT !.at = "recover"]
               /\ UNCHANGED nacos
       ELSE /\ registry' = [registry EXCEPT !.at = "recover", !.unsure = @ \/ answer = "lost"]
            /\ nacos' = [nacos EXCEPT !.late = @ \/ answer = "lost"]

\* The heartbeat loop comes round.
WakeUp ==
  /\ registry.at = "sleep"
  /\ registry' = [registry EXCEPT !.at =
       IF registry.token = "stale" THEN "refresh"
       ELSE IF registry.registered THEN "beat" ELSE "register"]
  /\ UNCHANGED nacos

RegistryLoop == Login \/ Register \/ Beat \/ WakeUp

\* Fault: the loop goes on, and so may a request of it.
StopRegistryHasty ==
  /\ registry.at \notin {"off", "deregister", "done"}
  /\ registry' = [registry EXCEPT !.at = "done"]
  /\ UNCHANGED nacos

\* stop: the loop is cancelled, in the middle of a request perhaps, and what is known
\* to be registered is deregistered.
StopRegistry ==
  LET inFlight == registry.at \in Registering \cup {"beat"}
  IN /\ registry.at \notin {"off", "deregister", "done"}
     /\ registry' = [registry EXCEPT !.at = IF registry.registered THEN "deregister" ELSE "done",
                                     !.unsure = @ \/ inFlight]
     /\ nacos' = [nacos EXCEPT !.late = @ \/ inFlight]

\* The DELETE, whose status is only logged.
Deregister ==
  \E answer \in Answers :
    /\ registry.at = "deregister"
    /\ registry' = [registry EXCEPT !.at = "done", !.registered = FALSE,
                                    !.unsure = @ \/ answer # "ok" \/ nacos.late]
    /\ nacos' = [nacos EXCEPT !.listed = @ /\ answer # "ok"]

----------------------------------------------------------------------------
(* The server and the network.                                             *)

\* A request that was lost arrives, or never does.
LateRequest ==
  /\ nacos.late
  /\ \E arrives \in BOOLEAN :
       nacos' = [nacos EXCEPT !.late = FALSE, !.listed = @ \/ arrives]
  /\ UNCHANGED registry

\* No beat has come for a while.
ListingExpires ==
  /\ nacos.listed /\ (~nacos.up \/ registry.at \in {"off", "done"})
  /\ nacos' = [nacos EXCEPT !.listed = FALSE]
  /\ UNCHANGED registry

\* 0.8 of its lifetime have passed, or all of it: hours, so that it happens between two
\* rounds of the loop.
TokenAges ==
  /\ registry.token = "young" /\ registry.at = "sleep"
  /\ registry' = [registry EXCEPT !.token = "stale"]
  /\ UNCHANGED nacos

TokenExpires ==
  /\ registry.token = "stale" /\ registry.at = "sleep" /\ nacos.accepts
  /\ nacos' = [nacos EXCEPT !.accepts = FALSE]
  /\ UNCHANGED registry

ServerRestarts ==
  /\ nacos.faults < MaxFaults
  /\ nacos' = [nacos EXCEPT !.listed = FALSE, !.accepts = FALSE, !.faults = @ + 1]
  /\ UNCHANGED registry

NetworkBreaks ==
  /\ nacos.up /\ nacos.faults < MaxFaults
  /\ nacos' = [nacos EXCEPT !.up = FALSE, !.faults = @ + 1]
  /\ UNCHANGED registry

NetworkHeals ==
  /\ ~nacos.up
  /\ nacos' = [nacos EXCEPT !.up = TRUE]
  /\ UNCHANGED registry

Server ==
  LateRequest \/ ListingExpires \/ TokenAges \/ TokenExpires
    \/ ServerRestarts \/ NetworkBreaks \/ NetworkHeals
============================================================================

------------------------------ MODULE Service ------------------------------
(***************************************************************************)
(* The service as a whole (server/service.py): the order in which its      *)
(* parts are started and stopped, with the admission controller that       *)
(* decides about new sessions and the registry that advertises the         *)
(* gateway.  The probes of the load are averages that move only when work  *)
(* is done for some session; what the load tends to is the environment's.  *)
(***************************************************************************)
EXTENDS Admission, NacosRegistry

CONSTANT
  MaxServed  \* bound: sessions at a time

ASSUME ServiceAssumption == MaxServed \in Nat \ {0}

VARIABLES
  phase,   \* how far start or stop is
  served,  \* sessions
  heavy    \* whether the load is above the limits

vars == <<probe, admission, registry, nacos, phase, served, heavy>>

Init ==
  /\ AdmissionInit /\ RegistryInit
  /\ phase = "new" /\ served = 0 /\ heavy = FALSE

\* start runs one part after the other, and stop takes them down.
Starting == <<"new", "queue", "http", "registering", "up">>
Stopping == <<"stopping", "deregistering", "closing", "http_closing", "queue_closing", "exited">>
Phases == {Starting[k] : k \in 1..5} \cup {Stopping[k] : k \in 1..6} \cup {"crashed"}

\* The gateway listens.
Serving == phase \in {"registering", "up", "stopping", "deregistering"}
\* The process lives, and with it the tasks of the event loop that have been started.
LoopsRun == phase \in {"registering", "up"}

----------------------------------------------------------------------------
(* start and stop.                                                         *)

\* final_queue.start, http_server.start; neither touches the rest.
StartPart ==
  /\ \E k \in 1..2 : phase = Starting[k] /\ phase' = Starting[k + 1]
  /\ UNCHANGED <<probe, admission, registry, nacos, served, heavy>>

\* ws_gateway.start, the maintenance tasks and admission.start, then registry.start.
StartGateway ==
  /\ phase = "http" /\ phase' = "registering"
  /\ StartRegistry
  /\ UNCHANGED <<probe, admission, served, heavy>>

\* Whatever came of the registration, the service is up.
Started ==
  /\ phase = "registering" /\ registry.at = "sleep"
  /\ phase' = "up"
  /\ UNCHANGED <<probe, admission, registry, nacos, served, heavy>>

\* A signal: the maintenance tasks and the controller are cancelled first.
Signal ==
  /\ phase = "up" /\ phase' = "stopping"
  /\ UNCHANGED <<probe, admission, registry, nacos, served, heavy>>

\* registry.stop, before the gateway stops listening.
LeaveRegistry ==
  /\ phase = "stopping" /\ phase' = "deregistering"
  /\ StopRegistry
  /\ UNCHANGED <<probe, admission, served, heavy>>

\* ws_gateway.stop: nobody is let in, connections are closed and their handlers awaited.
CloseGateway ==
  /\ phase = "deregistering" /\ registry.at = "done" /\ phase' = "closing"
  /\ UNCHANGED <<probe, admission, registry, nacos, served, heavy>>

\* The HTTP server, the queue with the engines and the thread pool.
StopPart ==
  /\ phase = "closing" => served = 0
  /\ \E k \in 3..5 : phase = Stopping[k] /\ phase' = Stopping[k + 1]
  /\ UNCHANGED <<probe, admission, registry, nacos, served, heavy>>

\* start() raises (a port is taken), a signal arrives before run() handles it, or the
\* process is killed: nothing is stopped.
Die ==
  /\ phase \notin {"new", "exited", "crashed"} /\ phase' = "crashed"
  /\ served' = 0
  /\ registry' = [registry EXCEPT !.at = IF @ = "off" THEN @ ELSE "done", !.unsure = TRUE]
  /\ UNCHANGED <<probe, admission, nacos, heavy>>

----------------------------------------------------------------------------
(* Sessions and their load.                                                *)

\* _admit_new_session; a resume does not ask, and brings no new session.
NewSession ==
  /\ Serving /\ AllowNewSession /\ served < MaxServed
  /\ served' = served + 1
  /\ UNCHANGED <<probe, admission, registry, nacos, phase, heavy>>

\* Fault: a session may leave the count a second time.
EndSessionTwice ==
  /\ served' = served - 1
  /\ UNCHANGED <<probe, admission, registry, nacos, phase, heavy>>

EndSession ==
  /\ served > 0
  /\ served' = served - 1
  /\ UNCHANGED <<probe, admission, registry, nacos, phase, heavy>>

LoadChanges ==
  /\ LoopsRun /\ heavy' = ~heavy
  /\ UNCHANGED <<probe, admission, registry, nacos, phase, served>>

Towards(value) ==
  IF heavy THEN IF value = "low" THEN "middle" ELSE "high"
  ELSE IF value = "high" THEN "middle" ELSE "low"

\* A chunk or a sentence of some session is folded into an average.
Measure(p) ==
  /\ LoopsRun /\ served > 0
  /\ probe[p] # Towards(probe[p])
  /\ probe' = [probe EXCEPT ![p] = Towards(@)]
  /\ UNCHANGED <<admission, registry, nacos, phase, served, heavy>>

\* run: every second, or later when the event loop lags.
AdmissionRound ==
  /\ LoopsRun /\ \E d \in {1, 2} : Evaluate(d)
  /\ UNCHANGED <<probe, registry, nacos, phase, served, heavy>>

----------------------------------------------------------------------------
Alone == UNCHANGED <<probe, admission, phase, served, heavy>>

RegistryRound ==
  /\ LoopsRun /\ (registry.at = "sleep" => phase = "up")
  /\ RegistryLoop
  /\ Alone

LastRequest == Deregister /\ Alone
NacosMoves == Server /\ Alone

Stopped == phase \in {"exited", "crashed"} /\ UNCHANGED vars

Next ==
  \/ StartPart \/ StartGateway \/ Started
  \/ Signal \/ LeaveRegistry \/ CloseGateway \/ StopPart \/ Die
  \/ NewSession \/ EndSession \/ LoadChanges \/ AdmissionRound
  \/ \E p \in Probes : Measure(p)
  \/ RegistryRound \/ LastRequest \/ NacosMoves \/ Stopped

\* Tasks of the event loop go on.  Nothing is assumed of the clients, the load, the
\* network or the signal: a session that only pings, or sends silence, measures nothing.
Fairness == WF_vars(RegistryRound) /\ WF_vars(AdmissionRound)

Spec == Init /\ [][Next]_vars /\ Fairness

----------------------------------------------------------------------------
(* Properties.                                                             *)

TypeOK ==
  /\ AdmissionType /\ RegistryType
  /\ phase \in Phases /\ served \in 0..MaxServed /\ heavy \in BOOLEAN

\* docs/client-integration-guide.md, 2.2: an instance in the list can be connected to.
\* Through start, stop, failed and repeated registrations, expired tokens and restarts
\* of the server, it is - unless the process died, a deregistration failed, or a
\* request whose answer never came was still under way when the service stopped.
AdvertisedServing == nacos.listed => Serving \/ registry.unsure

\* As long as the service is up and the network does not break again, it ends up in
\* the list and stays there, whatever state the failures before left it in.
Relisted == <>[](phase = "up" /\ nacos.up) => <>[]nacos.listed

\* Sessions do work of every kind, so that again and again each average has caught up
\* with the load.  The code does not see to it: without work the averages stay where they
\* are, and so does a refusal.
WorkGoesOn == \A p \in Probes : []<>(probe[p] = Towards(probe[p]))

\* As long as work goes on, a refusal ends once the load has gone: the calm in which all
\* averages are low lasts long enough, although they fall one by one.
RefusalEnds ==
  WorkGoesOn => ((admission.saturated /\ LoopsRun) ~> (~admission.saturated \/ heavy \/ ~LoopsRun))

\* config.default.yaml:18: while the probes stay above their limits, new sessions are
\* refused.  They are when the probes are wired; the service wires none.
OverloadRefused ==
  <>[](phase = "up" /\ \A p \in Probes : probe[p] = "high") => <>[]admission.saturated
============================================================================

----------------------------- MODULE VadEngine -----------------------------
(***************************************************************************)
(* The FSMN-VAD engine (core/vad/fsmn_vad.py): one model, which executor   *)
(* threads of all sessions call one at a time under the inference lock,    *)
(* and which any of them may send into a reload.                           *)
(***************************************************************************)
EXTENDS EngineHealth, FiniteSets

CONSTANT Callers   \* the executor threads

VARIABLES
  lock,    \* _lock: the caller that holds it, or Nobody
  caller   \* where each thread is in process_chunk

vars == <<healthVars, lock, caller>>
engineVars == <<loaded, reloading, loading, finishing>>

Nobody == "nobody"

ASSUME CallersAssumption == Nobody \notin Callers

Init ==
  /\ HealthInit
  /\ lock = Nobody
  /\ caller = [c \in Callers |-> "idle"]

\* process_chunk takes the lock and finds a model.  Without one it returns no
\* boundaries, and leaves no trace.
Enter(c) ==
  /\ caller[c] = "idle" /\ lock = Nobody /\ loaded
  /\ lock' = c
  /\ caller' = [caller EXCEPT ![c] = "inside"]
  /\ UNCHANGED healthVars

\* generate returns; its outcome is counted, and the lock released.
Succeeds(c) ==
  /\ caller[c] = "inside"
  /\ NoteSuccess
  /\ lock' = Nobody
  /\ caller' = [caller EXCEPT ![c] = "idle"]
  /\ UNCHANGED engineVars

\* generate raises; the caller may have been given a reason to reload.
Fails(c) ==
  /\ caller[c] = "inside"
  /\ NoteError
  /\ lock' = Nobody
  /\ caller' = [caller EXCEPT ![c] = IF GivesReason THEN "told" ELSE "idle"]
  /\ UNCHANGED engineVars

\* Fault: nobody looks whether a reload is in flight.
StartReloadAlways(c) ==
  /\ caller[c] = "told"
  /\ reloading' = TRUE
  /\ caller' = [caller EXCEPT ![c] = "unloading"]
  /\ UNCHANGED <<loaded, errors, loading, finishing, lock>>

\* _start_reload, some time after the lock was released.
StartReload(c) ==
  /\ caller[c] = "told"
  /\ \/ ClaimReload /\ caller' = [caller EXCEPT ![c] = "unloading"]
     \/ ReloadClaimed /\ caller' = [caller EXCEPT ![c] = "idle"]
  /\ UNCHANGED <<loaded, errors, loading, finishing, lock>>

\* Fault: the model is dropped without the inference lock.
DropModelUnlocked(c) ==
  /\ caller[c] = "unloading"
  /\ Unload
  /\ caller' = [caller EXCEPT ![c] = "idle"]
  /\ UNCHANGED <<errors, reloading, finishing, lock>>

\* It waits for the inference lock to drop the model.
DropModel(c) ==
  /\ caller[c] = "unloading" /\ lock = Nobody
  /\ Unload
  /\ caller' = [caller EXCEPT ![c] = "idle"]
  /\ UNCHANGED <<errors, reloading, finishing, lock>>

Worker ==
  /\ ReloadWorker
  /\ UNCHANGED <<lock, caller>>

Step(c) == Succeeds(c) \/ Fails(c) \/ StartReload(c)

Next ==
  \/ \E c \in Callers : Enter(c) \/ Step(c) \/ DropModel(c)
  \/ Worker

\* A thread that runs goes on, and a model that is there loads in the end.  Nothing
\* is assumed about who gets the lock.
Fairness == WF_vars(Worker) /\ \A c \in Callers : WF_vars(Step(c))

Spec == Init /\ [][Next]_vars /\ Fairness

----------------------------------------------------------------------------
(* Properties.                                                             *)

TypeOK ==
  /\ HealthTypeOK
  /\ lock \in Callers \union {Nobody}
  /\ caller \in [Callers -> {"idle", "inside", "told", "unloading"}]

Unloading == {c \in Callers : caller[c] = "unloading"}

\* However many callers fail at once, one reload is in flight at a time: somebody
\* is about to drop the model, or one worker loads it, or one has loaded it; and a
\* model is missing only while a worker is loading its replacement.
OneReload ==
  /\ Cardinality(Unloading) + loading + finishing = IF reloading THEN 1 ELSE 0
  /\ ~loaded <=> loading = 1

\* A model is never taken away, or replaced, under the caller that is running it.
ModelHeldWhileUsed ==
  \A c \in Callers : caller[c] = "inside" => lock = c /\ loaded /\ loading = 0

\* An outage ends with a model in service and the next reload possible, whatever
\* callers do meanwhile.
OutageEnds == ~loaded ~> (loaded /\ ~reloading)
============================================================================

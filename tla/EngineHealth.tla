---------------------------- MODULE EngineHealth ----------------------------
(***************************************************************************)
(* SelfHealingMixin (core/engine_health.py): the state an engine keeps     *)
(* about its one model, and the steps by which it is unloaded after too    *)
(* many failures and loaded again by a thread of its own.  The hosts       *)
(* (VadEngine, ForwardBatcher) say who calls them, and when.               *)
(*                                                                         *)
(* Each block under _state_lock is one step.  The backoff between two      *)
(* attempts to load is not modelled.                                       *)
(***************************************************************************)
EXTENDS Integers

CONSTANT ReloadAfter     \* reload_after_errors

ASSUME HealthAssumption == ReloadAfter \in Nat \ {0}

VARIABLES
  loaded,     \* _model is not None
  errors,     \* _consecutive_errors, which nothing tells apart above ReloadAfter
  reloading,  \* _reloading
  loading,    \* reload workers that are loading a model
  finishing   \* reload workers that have loaded one and not yet said so

healthVars == <<loaded, errors, reloading, loading, finishing>>

HealthInit ==
  /\ loaded = TRUE /\ errors = 0 /\ reloading = FALSE
  /\ loading = 0 /\ finishing = 0

OneMore(n) == IF n < ReloadAfter THEN n + 1 ELSE n

\* _note_error, and whether it gives a reason to reload.
NoteError == errors' = OneMore(errors)
GivesReason == OneMore(errors) >= ReloadAfter

\* _note_success.
NoteSuccess == errors' = 0

\* The first block of _start_reload.
ClaimReload == ~reloading /\ reloading' = TRUE
ReloadClaimed == reloading /\ UNCHANGED reloading

\* The rest of _start_reload, under the inference lock: the model is dropped, and
\* the worker started.
Unload == loaded' = FALSE /\ loading' = loading + 1

\* Fault: the worker ends when the model does not load.
LoadOrGiveUp ==
  /\ loading > 0
  /\ loading' = loading - 1
  /\ \/ loaded' = TRUE /\ finishing' = finishing + 1
     \/ UNCHANGED <<loaded, finishing>>
  /\ UNCHANGED <<errors, reloading>>

\* _init_model succeeds, in the end; a failed attempt leaves no trace.
Load ==
  /\ loading > 0
  /\ loading' = loading - 1 /\ finishing' = finishing + 1
  /\ loaded' = TRUE
  /\ UNCHANGED <<errors, reloading>>

\* It says so: failures of the old model are forgotten, and a reload is possible.
FinishReload ==
  /\ finishing > 0
  /\ finishing' = finishing - 1
  /\ errors' = 0 /\ reloading' = FALSE
  /\ UNCHANGED <<loaded, loading>>

ReloadWorker == Load \/ FinishReload

HealthTypeOK ==
  /\ loaded \in BOOLEAN /\ reloading \in BOOLEAN
  /\ errors \in 0..ReloadAfter
  /\ loading \in {0, 1} /\ finishing \in {0, 1}
============================================================================

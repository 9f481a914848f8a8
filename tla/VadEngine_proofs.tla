-------------------------- MODULE VadEngine_proofs --------------------------
(***************************************************************************)
(* What holds of the self-healing VAD engine for any set of callers, finite *)
(* or not, and any number of failures that makes it reload.                *)
(***************************************************************************)
EXTENDS VadEngine, FiniteSetTheorems, TLAPS

\* The one reload in flight, without counting: at most one caller is unloading, and
\* then no worker has been started yet.
ReloadSlot ==
  /\ \A c, d \in Unloading : c = d
  /\ Unloading # {} => reloading /\ loading = 0 /\ finishing = 0
  /\ loading = 1 => reloading /\ finishing = 0
  /\ finishing = 1 => reloading
  /\ reloading => Unloading # {} \/ loading = 1 \/ finishing = 1
  /\ ~loaded <=> loading = 1

IInv == TypeOK /\ ReloadSlot /\ ModelHeldWhileUsed

\* The first failure of all may already be the last the engine tolerates.
LEMMA OneMoreType == ASSUME NEW n \in 0..ReloadAfter PROVE OneMore(n) \in 0..ReloadAfter
BY HealthAssumption DEF OneMore

LEMMA InitInv == Init => IInv
<1> SUFFICES ASSUME Init PROVE IInv
  OBVIOUS
<1>1. TypeOK
  <2>1. 0 \in 0..ReloadAfter
    BY HealthAssumption
  <2>2. HealthTypeOK
    BY <2>1 DEF Init, HealthInit, HealthTypeOK
  <2> QED BY <2>1, <2>2 DEF Init, TypeOK
<1>2. Unloading = {}
  BY DEF Init, Unloading
<1>3. ReloadSlot
  BY <1>2 DEF Init, HealthInit, ReloadSlot
<1>4. ModelHeldWhileUsed
  BY DEF Init, ModelHeldWhileUsed
<1> QED BY <1>1, <1>3, <1>4 DEF IInv

\* A caller that only enters, leaves or is told leaves the reload where it is.
LEMMA SlotKept ==
  ASSUME ReloadSlot, UNCHANGED engineVars, Unloading' = Unloading
  PROVE  ReloadSlot'
BY DEF ReloadSlot, engineVars

LEMMA EnterInv == ASSUME IInv, NEW c \in Callers, Enter(c) PROVE IInv'
<1> USE DEF IInv
<1>1. TypeOK'
  BY DEF Enter, TypeOK, HealthTypeOK, healthVars
<1>2. Unloading' = Unloading
  BY DEF Enter, TypeOK, Unloading
<1>3. ReloadSlot'
  BY <1>2, SlotKept DEF Enter, healthVars, engineVars
<1>4. ModelHeldWhileUsed'
  <2>1. loading = 0
    BY DEF Enter, TypeOK, HealthTypeOK, ReloadSlot
  <2>2. \A d \in Callers : caller[d] # "inside"
    BY CallersAssumption DEF Enter, ModelHeldWhileUsed
  <2> QED BY <2>1, <2>2 DEF Enter, TypeOK, healthVars, ModelHeldWhileUsed
<1> QED BY <1>1, <1>3, <1>4

\* The caller leaves the lock, and the others were not inside.
LEMMA LeaveHeld ==
  ASSUME TypeOK, ModelHeldWhileUsed, NEW c \in Callers, caller[c] = "inside",
         NEW where \in {"idle", "told"}, caller' = [caller EXCEPT ![c] = where]
  PROVE  ModelHeldWhileUsed' /\ Unloading' = Unloading
<1>1. \A d \in Callers : d # c => caller[d] # "inside"
  BY DEF ModelHeldWhileUsed
<1>2. \A d \in Callers : caller'[d] # "inside"
  BY <1>1 DEF TypeOK
<1>3. Unloading' = Unloading
  BY DEF Unloading, TypeOK
<1> QED BY <1>2, <1>3 DEF ModelHeldWhileUsed

LEMMA ReturnInv ==
  ASSUME IInv, NEW c \in Callers, Succeeds(c) \/ Fails(c)
  PROVE  IInv'
<1> USE DEF IInv
<1>1. PICK where \in {"idle", "told"} : caller' = [caller EXCEPT ![c] = where]
  BY DEF Succeeds, Fails
<1>2. caller[c] = "inside" /\ UNCHANGED engineVars /\ lock' = Nobody
  BY DEF Succeeds, Fails
<1>3. ModelHeldWhileUsed' /\ Unloading' = Unloading
  BY <1>1, <1>2, LeaveHeld
<1>4. errors' \in 0..ReloadAfter
  BY OneMoreType, HealthAssumption
     DEF Succeeds, Fails, NoteSuccess, NoteError, TypeOK, HealthTypeOK
<1>5. TypeOK'
  BY <1>1, <1>2, <1>4 DEF TypeOK, HealthTypeOK, engineVars
<1> QED BY <1>2, <1>3, <1>5, SlotKept

LEMMA StartReloadInv == ASSUME IInv, NEW c \in Callers, StartReload(c) PROVE IInv'
<1> USE DEF IInv
<1>1. TypeOK'
  BY DEF StartReload, ClaimReload, ReloadClaimed, TypeOK, HealthTypeOK
<1>2. \A d \in Callers : caller'[d] = "inside" => caller[d] = "inside"
  BY DEF StartReload, TypeOK
<1>3. ModelHeldWhileUsed'
  BY <1>2 DEF StartReload, ModelHeldWhileUsed
<1>4. CASE ClaimReload /\ caller' = [caller EXCEPT ![c] = "unloading"]
  <2>1. Unloading = {} /\ loading = 0 /\ finishing = 0
    BY <1>4 DEF ClaimReload, ReloadSlot, TypeOK, HealthTypeOK
  <2>2. Unloading' = {c}
    BY <1>4, <2>1 DEF Unloading, TypeOK
  <2> QED BY <1>1, <1>3, <1>4, <2>1, <2>2 DEF StartReload, ClaimReload, ReloadSlot
<1>5. CASE ReloadClaimed /\ caller' = [caller EXCEPT ![c] = "idle"]
  <2>1. Unloading' = Unloading
    BY <1>5 DEF StartReload, Unloading, TypeOK
  <2> QED BY <1>1, <1>3, <1>5, <2>1, SlotKept DEF StartReload, ReloadClaimed, engineVars
<1> QED BY <1>4, <1>5 DEF StartReload

LEMMA DropModelInv == ASSUME IInv, NEW c \in Callers, DropModel(c) PROVE IInv'
<1> USE DEF IInv
<1>1. c \in Unloading
  BY DEF DropModel, Unloading
<1>2. reloading /\ loading = 0 /\ finishing = 0 /\ Unloading = {c}
  BY <1>1 DEF ReloadSlot
<1>3. TypeOK'
  <2>1. loading' \in {0, 1} /\ finishing' \in {0, 1} /\ loaded' = FALSE
    BY <1>2 DEF DropModel, Unload, TypeOK, HealthTypeOK
  <2>2. HealthTypeOK'
    BY <2>1 DEF DropModel, TypeOK, HealthTypeOK
  <2> QED BY <2>2 DEF DropModel, TypeOK
<1>4. Unloading' = {}
  BY <1>2 DEF DropModel, Unloading, TypeOK
<1>5. ReloadSlot'
  BY <1>2, <1>4 DEF DropModel, Unload, ReloadSlot
<1>6. \A d \in Callers : caller[d] # "inside"
  BY CallersAssumption DEF DropModel, ModelHeldWhileUsed
<1>7. ModelHeldWhileUsed'
  BY <1>6 DEF DropModel, TypeOK, ModelHeldWhileUsed
<1> QED BY <1>3, <1>5, <1>7

LEMMA WorkerInv == ASSUME IInv, Worker PROVE IInv'
<1> USE DEF IInv
<1>1. Unloading' = Unloading /\ lock' = lock /\ caller' = caller
  BY DEF Worker, Unloading
<1>3. CASE Load
  <2>1. loading = 1
    BY <1>3 DEF Load, TypeOK, HealthTypeOK
  <2>2. Unloading = {} /\ reloading /\ finishing = 0
    BY <2>1 DEF ReloadSlot
  <2>3. TypeOK' /\ ReloadSlot'
    BY <1>1, <1>3, <2>1, <2>2, HealthAssumption DEF Load, TypeOK, HealthTypeOK, ReloadSlot
  <2>4. \A d \in Callers : caller[d] # "inside"
    BY <2>1 DEF ModelHeldWhileUsed
  <2> QED BY <1>1, <2>3, <2>4 DEF ModelHeldWhileUsed
<1>4. CASE FinishReload
  <2>1. finishing = 1
    BY <1>4 DEF FinishReload, TypeOK, HealthTypeOK
  <2>2. Unloading = {} /\ loading = 0 /\ loaded
    BY <2>1 DEF ReloadSlot, TypeOK, HealthTypeOK
  <2>3. finishing' = 0 /\ 0 \in 0..ReloadAfter /\ UNCHANGED <<loaded, loading>>
    BY <1>4, <2>1, HealthAssumption DEF FinishReload
  <2>4. HealthTypeOK'
    BY <1>4, <2>3 DEF FinishReload, TypeOK, HealthTypeOK
  <2>5. TypeOK'
    BY <1>1, <2>4 DEF TypeOK
  <2>6. ReloadSlot'
    BY <1>1, <1>4, <2>2, <2>3 DEF FinishReload, ReloadSlot
  <2> QED BY <1>1, <1>4, <2>5, <2>6 DEF FinishReload, ModelHeldWhileUsed
<1> QED BY <1>3, <1>4 DEF Worker, ReloadWorker

LEMMA NextInv == IInv /\ [Next]_vars => IInv'
<1> SUFFICES ASSUME IInv, [Next]_vars PROVE IInv'
  OBVIOUS
<1>1. ASSUME NEW c \in Callers, Enter(c) PROVE IInv'
  BY <1>1, EnterInv
<1>2. ASSUME NEW c \in Callers, Step(c) PROVE IInv'
  BY <1>2, ReturnInv, StartReloadInv DEF Step
<1>3. ASSUME NEW c \in Callers, DropModel(c) PROVE IInv'
  BY <1>3, DropModelInv
<1>4. CASE Worker
  BY <1>4, WorkerInv
<1>5. CASE UNCHANGED vars
  BY <1>5 DEF vars, healthVars, IInv, TypeOK, HealthTypeOK, ReloadSlot, Unloading,
              ModelHeldWhileUsed
<1> QED BY <1>1, <1>2, <1>3, <1>4, <1>5 DEF Next

\* The invariant of the engine, of which the theorems below are parts.
THEOREM EngineInvariant == Spec => []IInv
<1> QED BY InitInv, NextInv, PTL DEF Spec

----------------------------------------------------------------------------
(* What follows from it.                                                   *)

\* Type correctness of every reachable state of the engine.
THEOREM EngineTypeCorrect == Spec => []TypeOK
<1>1. IInv => TypeOK
  BY DEF IInv
<1> QED BY <1>1, EngineInvariant, PTL

\* _start_reload is idempotent, as its comment promises: however many callers fail
\* at once, and whatever errors they hold, one of them unloads the model and one
\* worker loads the next, and no model is missing without a worker on its way.
THEOREM OneReloadAtATime == Spec => []OneReload
<1>1. IInv => OneReload
  <2> SUFFICES ASSUME IInv PROVE OneReload
    OBVIOUS
  <2>1. ReloadSlot /\ TypeOK
    BY DEF IInv
  <2>2. CASE Unloading = {}
    <3>1. Cardinality(Unloading) = 0
      BY <2>2, FS_EmptySet
    <3> QED BY <2>1, <2>2, <3>1 DEF ReloadSlot, TypeOK, HealthTypeOK, OneReload
  <2>3. CASE Unloading # {}
    <3>1. PICK c \in Unloading : TRUE
      BY <2>3
    <3>2. Unloading = {c}
      BY <2>1, <3>1 DEF ReloadSlot
    <3>3. Cardinality(Unloading) = 1
      BY <3>2, FS_Singleton
    <3> QED BY <2>1, <2>3, <3>3 DEF ReloadSlot, OneReload
  <2> QED BY <2>2, <2>3
<1> QED BY <1>1, EngineInvariant, PTL

\* The model a caller runs under the inference lock is neither dropped nor replaced
\* under it, although the worker that replaces it takes no lock.
THEOREM ModelHeld == Spec => []ModelHeldWhileUsed
<1>1. IInv => ModelHeldWhileUsed
  BY DEF IInv
<1> QED BY <1>1, EngineInvariant, PTL
=============================================================================

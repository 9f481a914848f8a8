------------------------- MODULE FinalQueue_proofs -------------------------
(***************************************************************************)
(* Answers, their count and the places of the semaphore, for any jobs, any *)
(* queue and any batches.  For the answers the invariant speaks of one job *)
(* at a time and not of the batches: whatever a batch holds, what zip      *)
(* pairs with a job is what the engine made for it, and only a future that *)
(* is not done is answered.  For the semaphore it follows the jobs to the  *)
(* engine: each is at one place, and its phase says at which.  The types   *)
(* come last: what the filter keeps is shown by induction on the length of *)
(* the batch, as a set of numbers (Reaches).                               *)
(***************************************************************************)
EXTENDS FinalQueue, SequenceTheorems, FiniteSetTheorems, WellFoundedInduction, TLAPS

Records ==
  /\ phase \in [Jobs -> Phases]
  /\ result \in [Jobs -> Jobs \union Raised \union {NoAnswer}]
  /\ reply \in [Jobs -> Answers \union {NoAnswer}]
  /\ fallbacks \in [Jobs -> Nat]

OwnResult == \A j \in Jobs : result[j] \in {j, NoAnswer} \union Raised
NewIsOpen == \A j \in Jobs : phase[j] = "new" => ~Done(j)

Ledger == Records /\ OwnResult /\ NewIsOpen /\ OwnAnswer /\ CountedAsAnswered

----------------------------------------------------------------------------
(* Results.                                                                *)

\* The pairing of zip: the place of the job in the batch is that of its result.
LEMMA PairedWithItsOwn ==
  ASSUME NEW b \in DOMAIN batches, NEW j \in Elems(batches[b].jobs)
  PROVE  ResultFor(b, j) = result[j]
<1> DEFINE k == CHOOSE i \in DOMAIN batches[b].jobs : batches[b].jobs[i] = j
<1>1. \E i \in DOMAIN batches[b].jobs : batches[b].jobs[i] = j
  BY DEF Elems
<1>2. k \in DOMAIN batches[b].jobs /\ batches[b].jobs[k] = j
  BY <1>1
<1>3. Gathered(b)[k] = result[batches[b].jobs[k]]
  BY <1>2 DEF Gathered
<1> QED
  BY <1>2, <1>3 DEF ResultFor

\* What the answers count.
LEMMA CountedValues ==
  ASSUME NEW j \in Jobs
  PROVE  /\ Counted(j) = 0 /\ Counted("cancelled") = 0 /\ Counted(NoAnswer) = 0
         /\ Counted("overflow") = 1 /\ Counted("timeout") = 1 /\ Counted("error") = 1
         /\ Counted("engine_timeout") = 2
<1>1. /\ j \notin Failures /\ "cancelled" \notin Failures /\ NoAnswer \notin Failures
      /\ {"overflow", "timeout", "error", "engine_timeout"} = Failures
  BY QueueAssumption DEF Answers, Failures, Raised
<1>2. /\ j # "engine_timeout" /\ NoAnswer # "engine_timeout"
  BY <1>1
<1> QED BY <1>1, <1>2 DEF Counted

\* What a step must do to each job's future and count: an open future gets the job's
\* own text, a cancellation, a failure, or nothing, and is counted for what it got.
Answered(j) ==
  \/ reply'[j] = reply[j] /\ fallbacks'[j] = fallbacks[j]
  \/ /\ ~Done(j)
     /\ reply'[j] \in {j, "cancelled", NoAnswer} \union Failures
     /\ fallbacks'[j] = fallbacks[j] + Counted(reply'[j])

\* A step that answers only what is open, each with its own, keeps the ledger.
LEMMA StepKeepsLedger ==
  ASSUME Ledger, Records', OwnResult',
         \A j \in Jobs : Answered(j),
         \A j \in Jobs : phase'[j] = "new" => phase[j] = "new" /\ reply'[j] = reply[j]
  PROVE  Ledger'
<1>1. ASSUME NEW j \in Jobs
      PROVE  /\ reply'[j] \in Jobs => reply'[j] = j
             /\ fallbacks'[j] = Counted(reply'[j])
  <2>1. /\ reply[j] \in Jobs => reply[j] = j
        /\ fallbacks[j] = Counted(reply[j])
    BY DEF Ledger, OwnAnswer, CountedAsAnswered
  <2>2. CASE reply'[j] = reply[j] /\ fallbacks'[j] = fallbacks[j]
    BY <2>1, <2>2
  <2>3. CASE /\ ~Done(j)
             /\ reply'[j] \in {j, "cancelled", NoAnswer} \union Failures
             /\ fallbacks'[j] = fallbacks[j] + Counted(reply'[j])
    <3>1. fallbacks[j] = 0
      BY <2>1, <2>3, CountedValues DEF Done
    <3>2. reply'[j] \in Jobs => reply'[j] = j
      BY <2>3, QueueAssumption DEF Answers, Failures
    <3>3. Counted(reply'[j]) \in Nat
      BY DEF Counted
    <3> QED BY <2>3, <3>1, <3>2, <3>3
  <2> QED BY <2>2, <2>3 DEF Answered
<1>2. NewIsOpen'
  BY DEF Ledger, NewIsOpen, Done
<1> QED
  BY <1>1, <1>2 DEF Ledger, OwnAnswer, CountedAsAnswered

\* A step that answers nobody.
LEMMA SilentStep ==
  ASSUME Ledger, UNCHANGED <<reply, fallbacks>>, OwnResult',
         phase' \in [Jobs -> Phases], result' \in [Jobs -> Jobs \union Raised \union {NoAnswer}],
         \A j \in Jobs : phase'[j] = "new" => phase[j] = "new"
  PROVE  Ledger'
  BY DEF Ledger, Records, OwnAnswer, CountedAsAnswered, NewIsOpen, Done

----------------------------------------------------------------------------
(* The steps.                                                              *)

LEMMA InitLedger == Init => Ledger
<1> SUFFICES ASSUME Init PROVE Ledger
  OBVIOUS
<1>1. Records /\ OwnResult /\ NewIsOpen
  BY DEF Init, Records, OwnResult, NewIsOpen, Done, Phases
<1>2. OwnAnswer /\ CountedAsAnswered
  BY QueueAssumption, CountedValues DEF Init, OwnAnswer, CountedAsAnswered, Answers
<1> QED
  BY <1>1, <1>2 DEF Ledger

LEMMA SubmitLedger == ASSUME Ledger, NEW j \in Jobs, Submit(j) PROVE Ledger'
<1>1. phase[j] = "new" /\ ~Done(j)
  BY DEF Submit, Comes, Ledger, NewIsOpen
<1>2. CASE phase' = [phase EXCEPT ![j] = "queued"] /\ UNCHANGED <<reply, fallbacks, result>>
  BY <1>2, SilentStep DEF Ledger, Records, OwnResult, Phases
<1>3. CASE /\ phase' = [phase EXCEPT ![j] = "refused"]
           /\ reply' = [reply EXCEPT ![j] = "overflow"]
           /\ fallbacks' = [fallbacks EXCEPT ![j] = @ + 1]
           /\ UNCHANGED result
  <2>1. Records' /\ OwnResult'
    BY <1>3 DEF Ledger, Records, OwnResult, Phases, Answers, Failures
  <2>2. \A i \in Jobs : Answered(i)
    <3>1. ASSUME NEW i \in Jobs, i # j PROVE Answered(i)
      BY <1>3, <3>1 DEF Answered, Ledger, Records
    <3>2. Answered(j)
      BY <1>1, <1>3, CountedValues DEF Answered, Ledger, Records, Failures
    <3> QED
      BY <3>1, <3>2
  <2>3. \A i \in Jobs : phase'[i] = "new" => phase[i] = "new" /\ reply'[i] = reply[i]
    BY <1>3 DEF Ledger, Records
  <2> QED
    BY <2>1, <2>2, <2>3, StepKeepsLedger
<1> QED
  BY <1>2, <1>3 DEF Submit, Enqueue

LEMMA TimeoutLedger ==
  ASSUME Ledger, NEW j \in Jobs, Timeout(j) \/ CancelCaller(j) PROVE Ledger'
<1>1. /\ phase[j] # "new" /\ ~Done(j) /\ UNCHANGED <<phase, result>>
  BY DEF Timeout, CancelCaller, Waiting
<1>2. CASE Timeout(j)
  <2>1. Records' /\ OwnResult'
    BY <1>1, <1>2 DEF Timeout, Ledger, Records, OwnResult, Answers, Failures
  <2>2. ASSUME NEW i \in Jobs, i # j PROVE Answered(i)
    BY <1>2, <2>2 DEF Timeout, Answered, Ledger, Records
  <2>3. Answered(j)
    BY <1>1, <1>2, CountedValues DEF Timeout, Answered, Ledger, Records, Failures
  <2>4. \A i \in Jobs : phase'[i] = "new" => phase[i] = "new" /\ reply'[i] = reply[i]
    BY <1>1, <1>2 DEF Timeout, Ledger, Records
  <2> QED
    BY <2>1, <2>2, <2>3, <2>4, StepKeepsLedger
<1>3. CASE CancelCaller(j)
  <2>1. Records' /\ OwnResult'
    BY <1>1, <1>3 DEF CancelCaller, Ledger, Records, OwnResult, Answers
  <2>2. ASSUME NEW i \in Jobs, i # j PROVE Answered(i)
    BY <1>3, <2>2 DEF CancelCaller, Answered, Ledger, Records
  <2>3. Answered(j)
    BY <1>1, <1>3, CountedValues DEF CancelCaller, Answered, Ledger, Records
  <2>4. \A i \in Jobs : phase'[i] = "new" => phase[i] = "new" /\ reply'[i] = reply[i]
    BY <1>1, <1>3 DEF CancelCaller, Ledger, Records
  <2> QED
    BY <2>1, <2>2, <2>3, <2>4, StepKeepsLedger
<1> QED
  BY <1>2, <1>3

LEMMA FilterLedger == ASSUME Ledger, NEW b \in DOMAIN batches, FilterBatch(b) PROVE Ledger'
<1>1. PICK expired \in SUBSET {j \in Elems(batches[b].jobs) : ~Done(j)} :
        /\ reply' = [j \in Jobs |-> IF j \in expired THEN "timeout" ELSE reply[j]]
        /\ fallbacks' = [j \in Jobs |-> fallbacks[j] + IF j \in expired THEN 1 ELSE 0]
        /\ phase' = [j \in Jobs |->
                       IF j \notin Elems(batches[b].jobs) THEN phase[j]
                       ELSE IF Done(j) \/ j \in expired THEN "filtered" ELSE "waiting"]
        /\ UNCHANGED result
  BY DEF FilterBatch
<1>2. Records' /\ OwnResult'
  BY <1>1 DEF Ledger, Records, OwnResult, Answers, Failures, Phases
<1>3. ASSUME NEW j \in Jobs PROVE Answered(j)
  <2>1. CASE j \in expired
    BY <1>1, <2>1, CountedValues DEF Answered, Failures
  <2>2. CASE j \notin expired
    <3>1. fallbacks[j] \in Nat
      BY DEF Ledger, Records
    <3> QED BY <1>1, <2>2, <3>1 DEF Answered
  <2> QED
    BY <2>1, <2>2
<1>4. \A j \in Jobs : phase'[j] = "new" => phase[j] = "new" /\ reply'[j] = reply[j]
  BY <1>1
<1> QED
  BY <1>2, <1>3, <1>4, StepKeepsLedger

LEMMA DeliverLedger == ASSUME Ledger, NEW b \in DOMAIN batches, Deliver(b) PROVE Ledger'
<1>1. /\ reply' = [j \in Jobs |-> IF j \in Open(b) THEN ResultFor(b, j) ELSE reply[j]]
      /\ fallbacks' = [j \in Jobs |->
           fallbacks[j] + IF j \in Open(b) THEN Counted(ResultFor(b, j)) ELSE 0]
      /\ \A j \in Elems(batches[b].jobs) : phase[j] = "ran"
      /\ UNCHANGED <<phase, result>>
  BY DEF Deliver
<1>2. ASSUME NEW j \in Jobs, j \in Open(b)
      PROVE  ~Done(j) /\ phase[j] = "ran" /\ ResultFor(b, j) \in {j, NoAnswer} \union Raised
  BY <1>1, <1>2, PairedWithItsOwn DEF Open, Ledger, OwnResult
<1>3. Records' /\ OwnResult'
  <2>1. \A x : Counted(x) \in Nat
    BY DEF Counted
  <2> QED BY <1>1, <1>2, <2>1 DEF Ledger, Records, OwnResult, Answers, Failures
<1>4. ASSUME NEW j \in Jobs PROVE Answered(j)
  <2>1. CASE j \in Open(b)
    BY <1>1, <1>2, <2>1 DEF Answered, Failures
  <2>2. CASE j \notin Open(b)
    <3>1. fallbacks[j] \in Nat
      BY DEF Ledger, Records
    <3> QED BY <1>1, <2>2, <3>1 DEF Answered
  <2> QED
    BY <2>1, <2>2
<1>5. \A j \in Jobs : phase'[j] = "new" => phase[j] = "new" /\ reply'[j] = reply[j]
  BY <1>1, <1>2
<1> QED
  BY <1>3, <1>4, <1>5, StepKeepsLedger

LEMMA DrainLedger == ASSUME Ledger, Drain PROVE Ledger'
<1>1. /\ phase' = [j \in Jobs |-> IF phase[j] = "queued" THEN "lost" ELSE phase[j]]
      /\ reply' = [j \in Jobs |-> IF phase[j] = "queued" /\ ~Done(j) THEN "cancelled" ELSE reply[j]]
      /\ UNCHANGED <<result, fallbacks>>
  BY DEF Drain
<1>2. Records' /\ OwnResult'
  BY <1>1 DEF Ledger, Records, OwnResult, Answers, Phases
<1>3. ASSUME NEW j \in Jobs PROVE Answered(j)
  <2>1. fallbacks[j] \in Nat /\ Counted("cancelled") = 0
    BY CountedValues DEF Ledger, Records
  <2> QED BY <1>1, <2>1 DEF Answered
<1>4. \A j \in Jobs : phase'[j] = "new" => phase[j] = "new" /\ reply'[j] = reply[j]
  BY <1>1
<1> QED
  BY <1>2, <1>3, <1>4, StepKeepsLedger

\* The dispatcher, the semaphore, the engine and stop answer nobody.
LEMMA OthersLedger ==
  ASSUME Ledger,
         \/ Collect \/ Dispatch \/ Stop
         \/ \E j \in Jobs : Acquire(j) \/ EngineReturns(j)
         \/ UNCHANGED vars
  PROVE  Ledger'
<1> USE DEF Ledger, Records, OwnResult, Phases
<1>1. CASE Collect
  BY <1>1, SilentStep DEF Collect
<1>2. CASE Dispatch
  BY <1>2, SilentStep DEF Dispatch
<1>3. CASE Stop
  BY <1>3, SilentStep DEF Stop
<1>4. ASSUME NEW j \in Jobs, Acquire(j) PROVE Ledger'
  BY <1>4, SilentStep DEF Acquire
<1>5. ASSUME NEW j \in Jobs, EngineReturns(j) PROVE Ledger'
  <2>1. PICK r \in {j} \union Raised : result' = [result EXCEPT ![j] = r]
    BY <1>5 DEF EngineReturns, Transcriptions
  <2>2. OwnResult' /\ result' \in [Jobs -> Jobs \union Raised \union {NoAnswer}]
    BY <2>1
  <2> QED
    BY <1>5, <2>2, SilentStep DEF EngineReturns
<1>6. CASE UNCHANGED vars
  BY <1>6, SilentStep DEF vars
<1> QED
  BY <1>1, <1>2, <1>3, <1>4, <1>5, <1>6

LEMMA NextLedger == Ledger /\ [Next]_vars => Ledger'
<1> SUFFICES ASSUME Ledger, [Next]_vars PROVE Ledger'
  OBVIOUS
<1>1. ASSUME NEW j \in Jobs, Submit(j) PROVE Ledger'
  BY <1>1, SubmitLedger
<1>2. ASSUME NEW j \in Jobs, Timeout(j) \/ CancelCaller(j) PROVE Ledger'
  BY <1>2, TimeoutLedger
<1>3. ASSUME NEW b \in DOMAIN batches, FilterBatch(b) PROVE Ledger'
  BY <1>3, FilterLedger
<1>4. ASSUME NEW b \in DOMAIN batches, Deliver(b) PROVE Ledger'
  BY <1>4, DeliverLedger
<1>5. CASE Drain
  BY <1>5, DrainLedger
<1>6. CASE \/ Collect \/ Dispatch \/ Stop
           \/ \E j \in Jobs : Acquire(j) \/ EngineReturns(j)
           \/ UNCHANGED vars
  BY <1>6, OthersLedger
<1> QED
  BY <1>1, <1>2, <1>3, <1>4, <1>5, <1>6 DEF Next, Quiet

----------------------------------------------------------------------------
(* The jobs in the engine.                                                 *)

Fields == {"taken", "jobs", "filtered", "answered"}

Shapes ==
  /\ phase \in [Jobs -> Phases]
  /\ queue \in Seq(Jobs) /\ batch \in Seq(Jobs)
  /\ Len(batches) \in Nat /\ batches = [b \in 1..Len(batches) |-> batches[b]]
  /\ \A b \in 1..Len(batches) : DOMAIN batches[b] = Fields

\* The jobs of a batch that is not yet filtered; of none, when it is.
Held(bs, b) == IF bs[b].filtered THEN {} ELSE Elems(bs[b].jobs)

\* Until its batch is filtered a job is at one place.
Apart ==
  /\ \A i, k \in DOMAIN queue : queue[i] = queue[k] => i = k
  /\ \A b, c \in 1..Len(batches) : b # c => Held(batches, b) \cap Held(batches, c) = {}

\* And its phase says at which.
InPlace ==
  /\ \A i \in DOMAIN queue : phase[queue[i]] = "queued"
  /\ \A i \in DOMAIN batch : phase[batch[i]] = "collected"
  /\ \A b \in 1..Len(batches) : \A j \in Held(batches, b) : j \in Jobs /\ phase[j] = "dispatched"

Places == Shapes /\ Apart /\ InPlace

LEMMA HeldKept ==
  ASSUME NEW bs, NEW cs, NEW b, cs[b].filtered = bs[b].filtered, cs[b].jobs = bs[b].jobs
  PROVE  Held(cs, b) = Held(bs, b)
  BY DEF Held

LEMMA InitPlaces == Init => Places
<1> SUFFICES ASSUME Init PROVE Places
  OBVIOUS
<1> QED
  BY DEF Init, Places, Shapes, Apart, InPlace, Phases

\* A step that moves no job that is queued, collected or dispatched.
LEMMA ElsewhereKept ==
  ASSUME Places, UNCHANGED <<queue, batch, batches>>, phase' \in [Jobs -> Phases],
         \A j \in Jobs : phase[j] \in {"queued", "collected", "dispatched"} => phase'[j] = phase[j]
  PROVE  Places'
<1>1. Shapes' /\ Apart'
  BY DEF Places, Shapes, Apart
<1>2. \A i \in DOMAIN queue : queue[i] \in Jobs
  BY DEF Places, Shapes
<1>3. \A i \in DOMAIN batch : batch[i] \in Jobs
  BY DEF Places, Shapes
<1>4. \A b \in 1..Len(batches) : \A j \in Held(batches, b) : j \in Jobs /\ phase[j] = "dispatched"
  BY DEF Places, InPlace
<1>5. InPlace'
  BY <1>2, <1>3, <1>4 DEF Places, InPlace
<1> QED
  BY <1>1, <1>5 DEF Places

LEMMA SubmitPlaces == ASSUME Places, NEW j \in Jobs, Submit(j) PROVE Places'
<1>1. phase[j] = "new" /\ UNCHANGED <<batch, batches>>
  BY DEF Submit, Comes, Enqueue
<1>2. CASE queue' = Append(queue, j) /\ phase' = [phase EXCEPT ![j] = "queued"]
  <2>1. /\ queue' \in Seq(Jobs) /\ Len(queue') = Len(queue) + 1 /\ Len(queue) \in Nat
        /\ \A i \in 1..Len(queue) : queue'[i] = queue[i] /\ queue[i] \in Jobs
        /\ queue'[Len(queue) + 1] = j
        /\ DOMAIN queue = 1..Len(queue) /\ DOMAIN queue' = 1..(Len(queue) + 1)
    BY <1>2 DEF Places, Shapes
  <2>2. \A i \in 1..Len(queue) : phase[queue[i]] = "queued" /\ queue[i] # j
    BY <1>1, <2>1 DEF Places, InPlace
  <2>3. Shapes'
    BY <1>1, <1>2, <2>1 DEF Places, Shapes, Phases
  <2>4. \A i, k \in DOMAIN queue' : queue'[i] = queue'[k] => i = k
    BY <2>1, <2>2 DEF Places, Apart
  <2>5. Apart'
    BY <1>1, <2>4 DEF Places, Apart
  <2>6. \A i \in DOMAIN queue' : phase'[queue'[i]] = "queued"
    BY <1>2, <2>1, <2>2 DEF Places, Shapes
  <2>7. \A i \in DOMAIN batch : batch[i] # j /\ batch[i] \in Jobs
    BY <1>1 DEF Places, InPlace, Shapes
  <2>8. \A b \in 1..Len(batches) : \A i \in Held(batches, b) : i # j /\ i \in Jobs /\ phase[i] = "dispatched"
    BY <1>1 DEF Places, InPlace
  <2>9. \A i \in Jobs : i # j => phase'[i] = phase[i]
    BY <1>2 DEF Places, Shapes
  <2>10. \A i \in DOMAIN batch : phase'[batch[i]] = "collected"
    BY <2>7, <2>9 DEF Places, InPlace
  <2>11. InPlace'
    BY <1>1, <2>6, <2>8, <2>9, <2>10 DEF InPlace
  <2> QED
    BY <2>3, <2>5, <2>11 DEF Places
<1>3. CASE queue' = queue /\ phase' = [phase EXCEPT ![j] = "refused"]
  <2>1. /\ phase' \in [Jobs -> Phases]
        /\ \A i \in Jobs : phase[i] \in {"queued", "collected", "dispatched"} => phase'[i] = phase[i]
    BY <1>1, <1>3 DEF Places, Shapes, Phases
  <2> QED
    BY <1>1, <1>3, <2>1, ElsewhereKept
<1> QED
  BY <1>2, <1>3 DEF Submit, Enqueue

LEMMA CollectPlaces == ASSUME Places, Collect PROVE Places'
<1> DEFINE h == Head(queue)
<1>1. /\ queue # <<>> /\ batch' = Append(batch, h) /\ queue' = Tail(queue)
      /\ phase' = [phase EXCEPT ![h] = "collected"] /\ UNCHANGED batches
  BY DEF Collect
<1>2. /\ queue' \in Seq(Jobs) /\ Len(queue) \in Nat \ {0} /\ DOMAIN queue = 1..Len(queue)
      /\ DOMAIN queue' = 1..(Len(queue) - 1) /\ h = queue[1]
      /\ \A i \in DOMAIN queue' : queue'[i] = queue[i + 1]
      /\ \A i \in DOMAIN queue : queue[i] \in Jobs
  BY <1>1 DEF Places, Shapes
<1>3. /\ batch' \in Seq(Jobs) /\ Len(batch) \in Nat /\ DOMAIN batch = 1..Len(batch)
      /\ DOMAIN batch' = 1..(Len(batch) + 1) /\ batch'[Len(batch) + 1] = h
      /\ \A i \in DOMAIN batch : batch'[i] = batch[i] /\ batch[i] \in Jobs
  BY <1>1, <1>2 DEF Places, Shapes
<1>4. h \in Jobs /\ phase[h] = "queued" /\ phase'[h] = "collected"
      /\ \A j \in Jobs : j # h => phase'[j] = phase[j]
  BY <1>1, <1>2 DEF Places, InPlace, Shapes
<1>5. Shapes'
  BY <1>1, <1>2, <1>3, <1>4 DEF Places, Shapes, Phases
<1>6. \A i, k \in DOMAIN queue' : queue'[i] = queue'[k] => i = k
  BY <1>2 DEF Places, Apart
<1>7. Apart'
  BY <1>1, <1>6 DEF Places, Apart
<1>8. \A i \in DOMAIN queue' : queue'[i] # h /\ queue'[i] \in Jobs /\ phase[queue'[i]] = "queued"
  BY <1>2 DEF Places, Apart, InPlace
<1>9. \A i \in DOMAIN batch : batch[i] # h /\ phase[batch[i]] = "collected"
  BY <1>4 DEF Places, InPlace
<1>10. \A b \in 1..Len(batches) : \A j \in Held(batches, b) : j # h /\ j \in Jobs /\ phase[j] = "dispatched"
  BY <1>4 DEF Places, InPlace
<1>11. \A b \in 1..Len(batches') : Held(batches', b) = Held(batches, b)
  BY <1>1
<1>12. \A i \in DOMAIN batch' : phase'[batch'[i]] = "collected"
  BY <1>3, <1>4, <1>9
<1>13. InPlace'
  BY <1>1, <1>4, <1>8, <1>10, <1>11, <1>12 DEF InPlace
<1> QED
  BY <1>5, <1>7, <1>13 DEF Places

LEMMA DispatchPlaces == ASSUME Places, Dispatch PROVE Places'
<1> DEFINE new == [taken |-> batch, jobs |-> batch, filtered |-> FALSE, answered |-> FALSE]
           n == Len(batches)
<1>1. /\ batches' = Append(batches, new) /\ batch' = <<>> /\ UNCHANGED queue
      /\ phase' = [j \in Jobs |-> IF j \in Elems(batch) THEN "dispatched" ELSE phase[j]]
  BY DEF Dispatch
<1>2. batches \in Seq({batches[b] : b \in 1..n})
  BY DEF Places, Shapes
<1>3. /\ n \in Nat /\ Len(batches') = n + 1 /\ batches'[n + 1] = new
      /\ \A b \in 1..n : batches'[b] = batches[b]
      /\ batches' = [b \in 1..(n + 1) |-> batches'[b]]
  BY <1>1, <1>2
<1>4. \A b \in 1..n : Held(batches', b) = Held(batches, b)
  BY <1>3, HeldKept
<1>5. Held(batches', n + 1) = Elems(batch)
  BY <1>3 DEF Held
<1>6. \A j \in Elems(batch) : j \in Jobs /\ phase[j] = "collected" /\ phase'[j] = "dispatched"
  BY <1>1 DEF Places, Shapes, InPlace, Elems
<1>7. Shapes'
  <2>1. \A b \in 1..n : DOMAIN batches[b] = Fields
    BY DEF Places, Shapes
  <2>2. DOMAIN new = Fields
    BY DEF Fields
  <2>3. n \in Nat /\ DOMAIN batches'[n + 1] = Fields
    BY <1>3, <2>2
  <2>4. \A b \in 1..n : DOMAIN batches'[b] = Fields
    BY <1>3, <2>1
  <2>5. \A b \in 1..(n + 1) : DOMAIN batches'[b] = Fields
    <3> SUFFICES ASSUME NEW b \in 1..(n + 1) PROVE DOMAIN batches'[b] = Fields
      OBVIOUS
    <3>1. b \in 1..n \/ b = n + 1
      BY <2>3
    <3> QED
      BY <2>3, <2>4, <3>1
  <2>6. phase' \in [Jobs -> Phases]
    BY <1>1 DEF Places, Shapes, Phases
  <2>7. queue' \in Seq(Jobs) /\ batch' \in Seq(Jobs)
    BY <1>1 DEF Places, Shapes
  <2>8. Len(batches') \in Nat /\ batches' = [b \in 1..Len(batches') |-> batches'[b]]
    BY <1>3
  <2>9. 1..Len(batches') = 1..(n + 1)
    BY <1>3
  <2> QED
    BY <2>5, <2>6, <2>7, <2>8, <2>9 DEF Shapes
<1>8. \A b \in 1..n : Held(batches, b) \cap Elems(batch) = {}
  BY <1>6 DEF Places, InPlace
<1>9. \A b \in 1..Len(batches') : b \in 1..n \/ b = n + 1
  BY <1>3
<1>10. Apart'
  <2>1. \A b, c \in 1..Len(batches') :
          b # c => Held(batches', b) \cap Held(batches', c) = {}
    BY <1>4, <1>5, <1>8, <1>9 DEF Places, Apart
  <2> QED
    BY <1>1, <2>1 DEF Places, Apart
<1>11. \A i \in DOMAIN queue : phase'[queue[i]] = "queued"
  <2>1. \A i \in DOMAIN queue : queue[i] \in Jobs /\ phase[queue[i]] = "queued"
    BY DEF Places, Shapes, InPlace
  <2> QED
    BY <1>1, <1>6, <2>1
<1>12. \A b \in 1..Len(batches') : \A j \in Held(batches', b) : j \in Jobs /\ phase'[j] = "dispatched"
  <2>1. \A b \in 1..n : \A j \in Held(batches, b) : j \in Jobs /\ phase[j] = "dispatched"
    BY DEF Places, InPlace
  <2>2. \A j \in Jobs : phase[j] = "dispatched" => phase'[j] = "dispatched"
    BY <1>1
  <2> QED
    BY <1>4, <1>5, <1>6, <1>9, <2>1, <2>2
<1>13. InPlace'
  <2>1. DOMAIN batch' = {}
    BY <1>1
  <2>2. DOMAIN queue' = DOMAIN queue /\ \A i \in DOMAIN queue' : phase'[queue'[i]] = "queued"
    BY <1>1, <1>11
  <2> QED
    BY <1>12, <2>1, <2>2 DEF InPlace
<1> QED
  BY <1>7, <1>10, <1>13 DEF Places

LEMMA FilterPlaces ==
  ASSUME Places, NEW b \in DOMAIN batches, FilterBatch(b)
  PROVE  /\ Places'
         /\ \A j \in Jobs : phase'[j] = "running" <=> phase[j] = "running"
<1>1. PICK expired \in SUBSET {j \in Elems(batches[b].jobs) : ~Done(j)} :
        /\ phase' = [j \in Jobs |->
                       IF j \notin Elems(batches[b].jobs) THEN phase[j]
                       ELSE IF Done(j) \/ j \in expired THEN "filtered" ELSE "waiting"]
        /\ batches' = [batches EXCEPT ![b].jobs = Active(b, expired), ![b].filtered = TRUE,
                                      ![b].answered = (Active(b, expired) = <<>>)]
        /\ UNCHANGED <<queue, batch>> /\ ~batches[b].filtered
  BY DEF FilterBatch
<1>2. b \in 1..Len(batches) /\ DOMAIN batches = 1..Len(batches)
  BY DEF Places, Shapes
<1>3. /\ batches' = [c \in 1..Len(batches) |-> batches'[c]] /\ Len(batches') = Len(batches)
      /\ \A c \in 1..Len(batches) : c # b => batches'[c] = batches[c]
      /\ batches'[b].filtered /\ DOMAIN batches'[b] = Fields
  <2> DEFINE r == batches[b]
             q == [r EXCEPT !.jobs = Active(b, expired), !.filtered = TRUE,
                            !.answered = (Active(b, expired) = <<>>)]
  <2>1. batches' = [c \in 1..Len(batches) |-> IF c = b THEN q ELSE batches[c]]
    BY <1>1, <1>2
  <2>2. DOMAIN r = Fields
    BY <1>2 DEF Places, Shapes
  <2>3. q.filtered /\ DOMAIN q = Fields
    BY <2>2 DEF Fields
  <2>4. Len(batches') = Len(batches)
    BY <2>1 DEF Places, Shapes
  <2> HIDE DEF q
  <2> QED
    BY <1>2, <2>1, <2>3, <2>4
<1>4. Held(batches, b) = Elems(batches[b].jobs) /\ \A j \in Held(batches, b) : j \in Jobs /\ phase[j] = "dispatched"
  BY <1>1, <1>2 DEF Held, Places, InPlace
<1>5. Held(batches', b) = {} /\ \A c \in 1..Len(batches) : c # b => Held(batches', c) = Held(batches, c)
  BY <1>3, HeldKept DEF Held
<1>6. \A j \in Jobs : j \notin Held(batches, b) => phase'[j] = phase[j]
  BY <1>1, <1>4
<1>7. Shapes'
  <2>1. \A c \in 1..Len(batches) : DOMAIN batches'[c] = Fields
    BY <1>3 DEF Places, Shapes
  <2>2. phase' \in [Jobs -> Phases]
    BY <1>1 DEF Places, Shapes, Phases
  <2> QED
    BY <1>1, <1>3, <2>1, <2>2 DEF Places, Shapes
<1>8. Apart'
  <2>1. \A c, d \in 1..Len(batches') :
          c # d => Held(batches', c) \cap Held(batches', d) = {}
    BY <1>3, <1>5 DEF Places, Apart
  <2> QED
    BY <1>1, <2>1 DEF Places, Apart
<1>9. \A i \in DOMAIN queue : queue[i] \in Jobs /\ phase[queue[i]] = "queued"
  BY DEF Places, Shapes, InPlace
<1>10. \A i \in DOMAIN batch : batch[i] \in Jobs /\ phase[batch[i]] = "collected"
  BY DEF Places, Shapes, InPlace
<1>11. \A c \in 1..Len(batches) : \A j \in Held(batches', c) : j \in Jobs /\ phase'[j] = "dispatched"
  BY <1>2, <1>5, <1>6 DEF Places, Apart, InPlace
<1>12. InPlace'
  <2>1. \A i \in DOMAIN queue' : phase'[queue'[i]] = "queued"
    BY <1>1, <1>4, <1>6, <1>9
  <2>2. \A i \in DOMAIN batch' : phase'[batch'[i]] = "collected"
    BY <1>1, <1>4, <1>6, <1>10
  <2> QED
    BY <1>3, <1>11, <2>1, <2>2 DEF InPlace
<1>13. \A j \in Jobs : phase'[j] = "running" <=> phase[j] = "running"
  BY <1>1, <1>4, <1>6
<1> QED
  BY <1>7, <1>8, <1>12, <1>13 DEF Places

LEMMA DeliverPlaces == ASSUME Places, NEW b \in DOMAIN batches, Deliver(b) PROVE Places'
<1>1. /\ batches' = [batches EXCEPT ![b].answered = TRUE] /\ UNCHANGED <<queue, batch, phase>>
  BY DEF Deliver
<1>2. b \in 1..Len(batches) /\ DOMAIN batches = 1..Len(batches)
  BY DEF Places, Shapes
<1>3. /\ batches' = [c \in 1..Len(batches) |-> batches'[c]] /\ Len(batches') = Len(batches)
      /\ \A c \in 1..Len(batches) : c # b => batches'[c] = batches[c]
      /\ DOMAIN batches'[b] = Fields
      /\ batches'[b].jobs = batches[b].jobs /\ batches'[b].filtered = batches[b].filtered
  <2> DEFINE r == batches[b]
             q == [r EXCEPT !.answered = TRUE]
  <2>1. batches' = [c \in 1..Len(batches) |-> IF c = b THEN q ELSE batches[c]]
    BY <1>1, <1>2
  <2>2. DOMAIN r = Fields
    BY <1>2 DEF Places, Shapes
  <2>3. q.jobs = r.jobs /\ q.filtered = r.filtered /\ DOMAIN q = Fields
    BY <2>2 DEF Fields
  <2>4. Len(batches') = Len(batches)
    BY <2>1 DEF Places, Shapes
  <2> HIDE DEF q
  <2> QED
    BY <1>2, <2>1, <2>3, <2>4
<1>4. \A c \in 1..Len(batches) : Held(batches', c) = Held(batches, c)
  BY <1>3, HeldKept
<1>5. Shapes'
  BY <1>1, <1>3 DEF Places, Shapes
<1>6. Apart'
  BY <1>1, <1>3, <1>4 DEF Places, Apart
<1>7. InPlace'
  <2>1. \A c \in 1..Len(batches') : \A j \in Held(batches', c) :
          j \in Jobs /\ phase'[j] = "dispatched"
    <3>1. \A c \in 1..Len(batches) : \A j \in Held(batches, c) :
            j \in Jobs /\ phase[j] = "dispatched"
      BY DEF Places, InPlace
    <3> QED
      BY <1>1, <1>3, <1>4, <3>1
  <2> QED
    BY <1>1, <2>1 DEF Places, InPlace
<1> QED
  BY <1>5, <1>6, <1>7 DEF Places

LEMMA StopPlaces == ASSUME Places, Stop \/ Drain PROVE Places'
<1>1. CASE Stop
  <2>1. /\ batch' = <<>> /\ UNCHANGED <<queue, batches>>
        /\ phase' = [j \in Jobs |-> IF phase[j] = "collected" THEN "lost" ELSE phase[j]]
    BY <1>1 DEF Stop
  <2>2. \A b \in 1..Len(batches) : Held(batches', b) = Held(batches, b)
    BY <2>1
  <2>3. \A i \in DOMAIN queue : queue[i] \in Jobs /\ phase[queue[i]] = "queued"
    BY DEF Places, Shapes, InPlace
  <2>4. Shapes' /\ Apart'
    BY <2>1, <2>2 DEF Places, Shapes, Apart, Phases
  <2>5. InPlace'
    BY <2>1, <2>2, <2>3 DEF Places, InPlace
  <2> QED
    BY <2>4, <2>5 DEF Places
<1>2. CASE Drain
  <2>1. /\ queue' = <<>> /\ UNCHANGED <<batch, batches>>
        /\ phase' = [j \in Jobs |-> IF phase[j] = "queued" THEN "lost" ELSE phase[j]]
    BY <1>2 DEF Drain
  <2>2. \A b \in 1..Len(batches) : Held(batches', b) = Held(batches, b)
    BY <2>1
  <2>3. \A i \in DOMAIN batch : batch[i] \in Jobs /\ phase[batch[i]] = "collected"
    BY DEF Places, Shapes, InPlace
  <2>4. Shapes' /\ Apart'
    BY <2>1, <2>2 DEF Places, Shapes, Apart, Phases
  <2>5. InPlace'
    BY <2>1, <2>2, <2>3 DEF Places, InPlace
  <2> QED
    BY <2>4, <2>5 DEF Places
<1> QED
  BY <1>1, <1>2

LEMMA EnginePlaces ==
  ASSUME Places, NEW j \in Jobs, Acquire(j) \/ EngineReturns(j) PROVE Places'
<1>1. /\ phase[j] \in {"waiting", "running"} /\ UNCHANGED <<queue, batch, batches>>
      /\ \E p \in {"running", "ran"} : phase' = [phase EXCEPT ![j] = p]
  BY DEF Acquire, EngineReturns
<1>2. /\ phase' \in [Jobs -> Phases]
      /\ \A i \in Jobs : phase[i] \in {"queued", "collected", "dispatched"} => phase'[i] = phase[i]
  BY <1>1 DEF Places, Shapes, Phases
<1> QED
  BY <1>1, <1>2, ElsewhereKept

LEMMA NextPlaces == Places /\ [Next]_vars => Places'
<1> SUFFICES ASSUME Places, [Next]_vars PROVE Places'
  OBVIOUS
<1>1. ASSUME NEW j \in Jobs, Submit(j) PROVE Places'
  BY <1>1, SubmitPlaces
<1>2. ASSUME NEW j \in Jobs, Acquire(j) \/ EngineReturns(j) PROVE Places'
  BY <1>2, EnginePlaces
<1>3. CASE \/ \E j \in Jobs : Timeout(j) \/ CancelCaller(j)
           \/ UNCHANGED vars
  <2>1. UNCHANGED <<queue, batch, batches, phase>>
    BY <1>3 DEF Timeout, CancelCaller, vars
  <2> QED
    BY <2>1, ElsewhereKept DEF Places, Shapes
<1>4. CASE Collect
  BY <1>4, CollectPlaces
<1>5. CASE Dispatch
  BY <1>5, DispatchPlaces
<1>6. CASE Stop \/ Drain
  BY <1>6, StopPlaces
<1>7. ASSUME NEW b \in DOMAIN batches, FilterBatch(b) PROVE Places'
  BY <1>7, FilterPlaces
<1>8. ASSUME NEW b \in DOMAIN batches, Deliver(b) PROVE Places'
  BY <1>8, DeliverPlaces
<1> QED
  BY <1>1, <1>2, <1>3, <1>4, <1>5, <1>6, <1>7, <1>8 DEF Next, Quiet

----------------------------------------------------------------------------
(* The places of the semaphore.                                            *)

LEMMA EngineFinite == IsFiniteSet(InEngine) /\ Cardinality(InEngine) \in Nat
<1>1. Len(Arrivals) \in Nat /\ DOMAIN Arrivals = 1..Len(Arrivals)
  BY QueueAssumption
<1>2. Arrivals \in Surjection(1..Len(Arrivals), Jobs)
  BY <1>1, QueueAssumption DEF Surjection, Jobs, Elems
<1>3. IsFiniteSet(Jobs)
  BY <1>1, <1>2, FS_Interval, FS_Surjection
<1>4. InEngine \subseteq Jobs
  BY DEF InEngine
<1> QED
  BY <1>3, <1>4, FS_Subset, FS_CardinalityType

\* A step that takes nobody into the engine or out of it.
LEMMA EngineUnchanged ==
  ASSUME ConcurrencyBounded, permits' = permits,
         \A j \in Jobs : phase'[j] = "running" <=> phase[j] = "running"
  PROVE  ConcurrencyBounded'
<1>1. InEngine' = InEngine
  BY DEF InEngine
<1> QED
  BY <1>1 DEF ConcurrencyBounded

LEMMA AcquireBounded ==
  ASSUME Shapes, permits \in Int, ConcurrencyBounded, NEW j \in Jobs, Acquire(j)
  PROVE  ConcurrencyBounded'
<1>1. /\ j \notin InEngine /\ permits > 0 /\ permits' = permits - 1
      /\ InEngine' = InEngine \union {j}
  BY DEF Acquire, InEngine, Shapes
<1>2. Cardinality(InEngine') = Cardinality(InEngine) + 1
  BY <1>1, EngineFinite, FS_AddElement
<1> QED
  BY <1>1, <1>2, EngineFinite DEF ConcurrencyBounded

LEMMA ReturnBounded ==
  ASSUME Shapes, permits \in Int, ConcurrencyBounded, NEW j \in Jobs, EngineReturns(j)
  PROVE  ConcurrencyBounded'
<1>1. /\ j \in InEngine /\ permits' = permits + 1
      /\ InEngine' = InEngine \ {j}
  BY DEF EngineReturns, InEngine, Shapes
<1>2. Cardinality(InEngine') = Cardinality(InEngine) - 1
  BY <1>1, EngineFinite, FS_RemoveElement
<1> QED
  BY <1>1, <1>2, EngineFinite DEF ConcurrencyBounded

Bounded == Places /\ permits \in Int /\ ConcurrencyBounded

LEMMA InitBounded == Init => Bounded
<1> SUFFICES ASSUME Init PROVE Bounded
  OBVIOUS
<1>1. InEngine = {} /\ permits = MaxConcurrency /\ MaxConcurrency \in Nat
  BY QueueAssumption DEF Init, InEngine
<1>2. permits \in Int /\ ConcurrencyBounded
  BY <1>1, FS_EmptySet DEF ConcurrencyBounded
<1> QED
  BY <1>2, InitPlaces DEF Bounded

\* Only the semaphore moves a job into the engine or out of it: nothing else that
\* changes a phase finds the job there.
LEMMA NextBounded == Bounded /\ [Next]_vars => Bounded'
<1> SUFFICES ASSUME Bounded, [Next]_vars PROVE Bounded'
  OBVIOUS
<1>1. Places /\ Shapes /\ permits \in Int /\ ConcurrencyBounded /\ Places'
  BY NextPlaces DEF Bounded, Places
<1>2. ASSUME NEW j \in Jobs, Acquire(j) PROVE Bounded'
  <2>1. permits' \in Int
    BY <1>1, <1>2 DEF Acquire
  <2> QED
    BY <1>1, <1>2, <2>1, AcquireBounded DEF Bounded
<1>3. ASSUME NEW j \in Jobs, EngineReturns(j) PROVE Bounded'
  <2>1. permits' \in Int
    BY <1>1, <1>3 DEF EngineReturns
  <2> QED
    BY <1>1, <1>3, <2>1, ReturnBounded DEF Bounded
<1>4. ASSUME permits' = permits,
             \A j \in Jobs : phase'[j] = "running" <=> phase[j] = "running"
      PROVE  Bounded'
  BY <1>1, <1>4, EngineUnchanged DEF Bounded
<1>5. ASSUME NEW j \in Jobs, Submit(j) PROVE Bounded'
  <2>1. phase[j] = "new" /\ permits' = permits
        /\ \E p \in {"queued", "refused"} : phase' = [phase EXCEPT ![j] = p]
    BY <1>5 DEF Submit, Comes, Enqueue
  <2> QED
    BY <1>1, <1>4, <2>1 DEF Shapes
<1>6. CASE \/ \E j \in Jobs : Timeout(j) \/ CancelCaller(j)
           \/ UNCHANGED vars
  <2>1. UNCHANGED <<permits, phase>>
    BY <1>6 DEF Timeout, CancelCaller, vars
  <2> QED
    BY <1>4, <2>1
<1>7. CASE Collect
  <2>1. /\ permits' = permits /\ phase[Head(queue)] = "queued" /\ Head(queue) \in Jobs
        /\ phase' = [phase EXCEPT ![Head(queue)] = "collected"]
    BY <1>1, <1>7 DEF Collect, Places, Shapes, InPlace
  <2> QED
    BY <1>1, <1>4, <2>1 DEF Shapes
<1>8. CASE Dispatch
  <2>1. /\ permits' = permits /\ \A j \in Elems(batch) : phase[j] = "collected"
        /\ phase' = [j \in Jobs |-> IF j \in Elems(batch) THEN "dispatched" ELSE phase[j]]
    BY <1>1, <1>8 DEF Dispatch, Places, InPlace, Elems
  <2> QED
    BY <1>4, <2>1
<1>9. CASE Stop \/ Drain
  BY <1>4, <1>9 DEF Stop, Drain
<1>10. ASSUME NEW b \in DOMAIN batches, FilterBatch(b) PROVE Bounded'
  BY <1>1, <1>4, <1>10, FilterPlaces DEF FilterBatch
<1>11. ASSUME NEW b \in DOMAIN batches, Deliver(b) PROVE Bounded'
  BY <1>4, <1>11 DEF Deliver
<1> QED
  BY <1>2, <1>3, <1>5, <1>6, <1>7, <1>8, <1>9, <1>10, <1>11 DEF Next, Quiet

----------------------------------------------------------------------------
(* Types.                                                                  *)

LEMMA LeastNumber ==
  ASSUME NEW S \in SUBSET Nat, S # {}
  PROVE  \E k \in S : \A j \in S : k <= j
<1>1. PICK k \in S : \A j \in S : ~(<<j, k>> \in OpToRel(<, Nat))
  BY WFMin, NatLessThanWellFounded
<1>2. ASSUME NEW j \in S PROVE k <= j
  <2>1. j \in Nat /\ k \in Nat /\ ~(<<j, k>> \in OpToRel(<, Nat))
    BY <1>1
  <2>2. ~(j < k)
    BY <2>1 DEF OpToRel
  <2>3. ASSUME NEW a \in Nat, NEW b \in Nat, ~(a < b) PROVE b <= a
    BY <2>3
  <2> QED
    BY <2>1, <2>2, <2>3
<1> QED
  BY <1>2

\* Induction on the length of a sequence, for a set of lengths.
LEMMA Reaches ==
  ASSUME NEW T \in SUBSET Nat, 0 \in T, \A m \in Nat : m \in T => m + 1 \in T
  PROVE  T = Nat
<1> SUFFICES ASSUME T # Nat PROVE FALSE
  OBVIOUS
<1>1. PICK k \in Nat \ T : \A j \in Nat \ T : k <= j
  <2>1. Nat \ T \in SUBSET Nat /\ Nat \ T # {}
    OBVIOUS
  <2> QED
    BY <2>1, LeastNumber
<1>2. k # 0 /\ k - 1 \in Nat
  BY <1>1
<1>3. k - 1 \in T
  BY <1>1, <1>2
<1> QED
  BY <1>1, <1>2, <1>3

KeptBy(f, q, out, n) ==
  f = [k \in 0..n |->
         IF k = 0 THEN <<>> ELSE IF q[k] \in out THEN f[k - 1] ELSE Append(f[k - 1], q[k])]

LEMMA KeepOne ==
  ASSUME NEW S, NEW old \in Seq(S), NEW x \in S, NEW out
  PROVE  (IF x \in out THEN old ELSE Append(old, x)) \in Seq(S)
<1>1. Append(old, x) \in Seq(S)
  OBVIOUS
<1> QED
  BY <1>1

LEMMA KeptExists == ASSUME NEW q, NEW out, NEW n \in Nat PROVE \E f : KeptBy(f, q, out, n)
<1> DEFINE T == {m \in Nat : \E f : KeptBy(f, q, out, m)}
           Next1(old, k) == IF q[k] \in out THEN old ELSE Append(old, q[k])
<1>1. 0 \in T
  <2> DEFINE h == [k \in 0..0 |-> <<>>]
  <2>1. h = [k \in 0..0 |-> IF k = 0 THEN <<>> ELSE Next1(h[k - 1], k)]
    <3> HIDE DEF Next1
    <3> QED
      OBVIOUS
  <2> HIDE DEF h
  <2>2. KeptBy(h, q, out, 0)
    BY <2>1 DEF KeptBy
  <2> QED
    BY <2>2
<1>2. ASSUME NEW m \in Nat, m \in T PROVE m + 1 \in T
  <2>1. PICK f : KeptBy(f, q, out, m)
    BY <1>2
  <2> DEFINE h == [k \in 0..(m + 1) |-> IF k = m + 1 THEN Next1(f[m], m + 1) ELSE f[k]]
  <2>2. \A k \in 0..m : f[k] = IF k = 0 THEN <<>> ELSE Next1(f[k - 1], k)
    BY <2>1 DEF KeptBy
  <2> HIDE DEF Next1
  <2>3. ASSUME NEW k \in 0..(m + 1) PROVE h[k] = IF k = 0 THEN <<>> ELSE Next1(h[k - 1], k)
    <3>1. CASE k = m + 1
      <4>1. k # 0 /\ k - 1 \in 0..(m + 1) /\ k - 1 # m + 1 /\ k - 1 = m
        BY <3>1
      <4>2. h[k - 1] = f[m] /\ h[k] = Next1(f[m], m + 1)
        BY <3>1, <4>1
      <4> QED
        BY <3>1, <4>1, <4>2
    <3>2. CASE k # m + 1
      <4>1. k \in 0..m /\ f[k] = IF k = 0 THEN <<>> ELSE Next1(f[k - 1], k)
        BY <2>2, <3>2
      <4>2. k # 0 => k - 1 \in 0..(m + 1) /\ k - 1 # m + 1
        BY <4>1
      <4> QED
        BY <3>2, <4>1, <4>2
    <3> QED
      BY <3>1, <3>2
  <2>4. h = [k \in 0..(m + 1) |-> h[k]]
    OBVIOUS
  <2> HIDE DEF h
  <2>5. KeptBy(h, q, out, m + 1)
    BY <2>3, <2>4 DEF KeptBy, Next1
  <2> QED
    BY <2>5
<1> HIDE DEF T
<1>3. T = Nat
  <2>1. T \in SUBSET Nat
    BY DEF T
  <2> QED
    BY <1>1, <1>2, <2>1, Reaches
<1>4. n \in T
  BY <1>3
<1> QED
  BY <1>4 DEF T

\* What the filter keeps are jobs of the batch.
LEMMA WithoutTyped ==
  ASSUME NEW S, NEW q \in Seq(S), NEW out PROVE Without(q, out) \in Seq(S)
<1> DEFINE n == Len(q)
           f == CHOOSE h : KeptBy(h, q, out, n)
           T == {m \in Nat : m <= n => f[m] \in Seq(S)}
<1>1. n \in Nat /\ \A k \in 1..n : q[k] \in S
  OBVIOUS
<1>2. KeptBy(f, q, out, n) /\ Without(q, out) = f[n]
  <2>1. \E h : KeptBy(h, q, out, n)
    BY <1>1, KeptExists
  <2> QED
    BY <2>1 DEF Without, KeptBy
<1> HIDE DEF f, n
<1>3. \A k \in 0..n :
        f[k] = IF k = 0 THEN <<>> ELSE IF q[k] \in out THEN f[k - 1] ELSE Append(f[k - 1], q[k])
  BY <1>2 DEF KeptBy
<1>4. 0 \in T
  <2>1. 0 \in 0..n
    BY <1>1
  <2>2. f[0] = <<>>
    BY <1>3, <2>1
  <2>3. f[0] \in Seq(S)
    BY <2>2
  <2> QED
    BY <2>3
<1>5. ASSUME NEW m \in Nat, m \in T PROVE m + 1 \in T
  <2>1. ASSUME m + 1 <= n PROVE f[m + 1] \in Seq(S)
    <3>1. m + 1 \in 0..n /\ m + 1 # 0 /\ m + 1 - 1 = m /\ m + 1 \in 1..n /\ m <= n
      BY <1>1, <2>1
    <3>2. f[m] \in Seq(S) /\ q[m + 1] \in S
      BY <1>1, <1>5, <3>1
    <3>3. f[m + 1] = IF q[m + 1] \in out THEN f[m] ELSE Append(f[m], q[m + 1])
      BY <1>3, <3>1
    <3> QED
      BY <3>2, <3>3, KeepOne
  <2> QED
    BY <2>1
<1>6. T = Nat
  <2>1. T \in SUBSET Nat
    OBVIOUS
  <2> HIDE DEF T
  <2> QED
    BY <1>4, <1>5, <2>1, Reaches
<1>7. n \in T
  BY <1>1, <1>6
<1> QED
  BY <1>1, <1>2, <1>7

BatchType == [taken : Seq(Jobs), jobs : Seq(Jobs), filtered : BOOLEAN, answered : BOOLEAN]

\* What TypeOK says beyond the ledger and the places.
Room ==
  /\ {isRunning, draining} \subseteq BOOLEAN /\ dispatcher \in {"on", "off"}
  /\ queue \in Seq(Jobs) /\ Len(queue) <= MaxQueue
  /\ batch \in Seq(Jobs) /\ Len(batch) <= MaxBatch
  /\ batches \in Seq(BatchType)

LEMMA EmptyFits ==
  /\ <<>> \in Seq(Jobs) /\ <<>> \in Seq(BatchType)
  /\ Len(<<>>) <= MaxQueue /\ Len(<<>>) <= MaxBatch
<1>1. MaxQueue \in Nat /\ MaxBatch \in Nat
  BY QueueAssumption
<1>2. Len(<<>>) = 0
  BY EmptySeq
<1> QED
  BY <1>1, <1>2

LEMMA InitRoom == Init => Room
<1> SUFFICES ASSUME Init PROVE Room
  OBVIOUS
<1>1. /\ isRunning = FALSE /\ draining = FALSE /\ dispatcher = "off"
      /\ queue = <<>> /\ batch = <<>> /\ batches = <<>>
  BY DEF Init
<1> QED
  BY <1>1, EmptyFits DEF Room

LEMMA SubmitRoom == ASSUME Room, NEW j \in Jobs, Submit(j) PROVE Room'
<1>1. MaxQueue \in Nat /\ Len(queue) \in Nat
  BY QueueAssumption DEF Room
<1>2. queue' \in Seq(Jobs) /\ Len(queue') <= MaxQueue
  <2>1. queue \in Seq(Jobs) /\ Len(queue) <= MaxQueue
    BY DEF Room
  <2>2. CASE queue' = queue
    BY <2>1, <2>2
  <2>3. CASE Len(queue) < MaxQueue /\ queue' = Append(queue, j)
    <3>1. Append(queue, j) \in Seq(Jobs) /\ Len(Append(queue, j)) = Len(queue) + 1
      BY <2>1
    <3> QED
      BY <1>1, <2>3, <3>1
  <2> QED
    BY <2>2, <2>3 DEF Submit, Enqueue
<1>3. isRunning' \in BOOLEAN /\ dispatcher' \in {"on", "off"} /\ UNCHANGED <<draining, batch, batches>>
  BY DEF Room, Submit, Start, Enqueue
<1> QED
  BY <1>2, <1>3 DEF Room

LEMMA CollectRoom == ASSUME Room, Collect PROVE Room'
<1>1. /\ MaxQueue \in Nat /\ MaxBatch \in Nat /\ Len(queue) \in Nat /\ Len(batch) \in Nat
  BY QueueAssumption DEF Room
<1>2. Head(queue) \in Jobs /\ queue' \in Seq(Jobs) /\ Len(queue') = Len(queue) - 1
  BY DEF Room, Collect
<1>3. batch' \in Seq(Jobs) /\ Len(batch') = Len(batch) + 1 /\ Len(batch) < MaxBatch
  BY <1>2 DEF Room, Collect
<1> QED
  BY <1>1, <1>2, <1>3 DEF Room, Collect

LEMMA DispatchRoom == ASSUME Room, Dispatch PROVE Room'
<1> DEFINE new == [taken |-> batch, jobs |-> batch, filtered |-> FALSE, answered |-> FALSE]
<1>1. new \in BatchType
  BY DEF Room, BatchType
<1>2. batches' = Append(batches, new) /\ batch' = <<>> /\ UNCHANGED <<isRunning, dispatcher, draining, queue>>
  BY DEF Dispatch
<1> HIDE DEF new
<1>3. batches' \in Seq(BatchType)
  BY <1>1, <1>2 DEF Room
<1> QED
  BY <1>2, <1>3, EmptyFits DEF Room

LEMMA FilterRoom == ASSUME Room, NEW b \in DOMAIN batches, FilterBatch(b) PROVE Room'
<1>1. PICK expired :
        batches' = [batches EXCEPT ![b].jobs = Active(b, expired), ![b].filtered = TRUE,
                                   ![b].answered = (Active(b, expired) = <<>>)]
  BY DEF FilterBatch
<1> DEFINE r == batches[b]
           left == Active(b, expired)
           new == [r EXCEPT !.jobs = left, !.filtered = TRUE, !.answered = (left = <<>>)]
<1>2. r \in BatchType
  BY DEF Room
<1>3. left \in Seq(Jobs)
  <2>1. r.jobs \in Seq(Jobs)
    BY <1>2 DEF BatchType
  <2> QED
    BY <2>1, WithoutTyped DEF Active
<1>4. batches' = [batches EXCEPT ![b] = new]
  BY <1>1
<1> HIDE DEF r, left
<1>5. new \in BatchType
  BY <1>2, <1>3 DEF BatchType
<1> HIDE DEF new
<1>6. batches' \in Seq(BatchType)
  BY <1>4, <1>5 DEF Room
<1> QED
  BY <1>6 DEF Room, FilterBatch

LEMMA DeliverRoom == ASSUME Room, NEW b \in DOMAIN batches, Deliver(b) PROVE Room'
<1> DEFINE r == batches[b]
           new == [r EXCEPT !.answered = TRUE]
<1>1. batches' = [batches EXCEPT ![b] = new]
  BY DEF Deliver
<1>2. r \in BatchType
  BY DEF Room
<1>3. new \in BatchType
  BY <1>2 DEF BatchType
<1> HIDE DEF new
<1>4. batches' \in Seq(BatchType)
  BY <1>1, <1>3 DEF Room
<1> QED
  BY <1>4 DEF Room, Deliver

LEMMA NextRoom == Room /\ [Next]_vars => Room'
<1> SUFFICES ASSUME Room, [Next]_vars PROVE Room'
  OBVIOUS
<1>1. ASSUME NEW j \in Jobs, Submit(j) PROVE Room'
  BY <1>1, SubmitRoom
<1>2. ASSUME NEW j \in Jobs, Timeout(j) \/ CancelCaller(j) \/ Acquire(j) \/ EngineReturns(j) PROVE Room'
  BY <1>2 DEF Room, Timeout, CancelCaller, Acquire, EngineReturns
<1>3. CASE Collect
  BY <1>3, CollectRoom
<1>4. CASE Dispatch
  BY <1>4, DispatchRoom
<1>5. CASE Stop \/ Drain
  <2>1. /\ isRunning' \in BOOLEAN /\ dispatcher' \in {"on", "off"} /\ draining' \in BOOLEAN
        /\ queue' = queue \/ queue' = <<>>
        /\ batch' = batch \/ batch' = <<>>
        /\ batches' = batches
    BY <1>5 DEF Room, Stop, Drain
  <2> QED
    BY <2>1, EmptyFits DEF Room
<1>6. ASSUME NEW b \in DOMAIN batches, FilterBatch(b) PROVE Room'
  BY <1>6, FilterRoom
<1>7. ASSUME NEW b \in DOMAIN batches, Deliver(b) PROVE Room'
  BY <1>7, DeliverRoom
<1>8. CASE UNCHANGED vars
  BY <1>8 DEF Room, vars
<1> QED
  BY <1>1, <1>2, <1>3, <1>4, <1>5, <1>6, <1>7, <1>8 DEF Next, Quiet

----------------------------------------------------------------------------
(* Theorems.                                                               *)

LEMMA LedgerInvariant == Spec => []Ledger
  BY InitLedger, NextLedger, PTL DEF Spec

\* Whoever gets a text gets the text of its own audio, for any jobs, batches and timeouts.
THEOREM AnswersAreOwn == Spec => []OwnAnswer
<1>1. Ledger => OwnAnswer
  BY DEF Ledger
<1> QED
  BY <1>1, LedgerInvariant, PTL

\* A job is counted for the one answer its caller got, whichever of the timeout, the
\* filter, the overflow and the late result of a batch was first: twice for a timeout of
\* the engine, once for any other failure, and not at all otherwise, for any jobs,
\* batches and timeouts.
THEOREM FailuresCounted == Spec => []CountedAsAnswered
<1>1. Ledger => CountedAsAnswered
  BY DEF Ledger
<1> QED
  BY <1>1, LedgerInvariant, PTL

\* The engine never serves more jobs at a time than max_concurrency, across batches, and
\* every place it gave is given back, for any jobs, queue and batches.
THEOREM EngineBounded == Spec => []ConcurrencyBounded
<1>1. Bounded => ConcurrencyBounded
  BY DEF Bounded
<1> QED
  BY <1>1, InitBounded, NextBounded, PTL DEF Spec

\* Every value has its type, the queue and the batches their limits, and no more places
\* of the semaphore are free than there are, for any jobs, queue and batches.
THEOREM QueueTypeCorrect == Spec => []TypeOK
<1>1. Ledger /\ Bounded /\ Room => TypeOK
  <2> SUFFICES ASSUME Ledger, Bounded, Room PROVE TypeOK
    OBVIOUS
  <2>1. permits \in 0..MaxConcurrency
    <3>1. MaxConcurrency \in Nat
      BY QueueAssumption
    <3> QED
      BY <3>1, EngineFinite DEF Bounded, ConcurrencyBounded
  <2> QED
    BY <2>1 DEF Ledger, Records, Room, BatchType, TypeOK
<1>2. Spec => []Bounded
  BY InitBounded, NextBounded, PTL DEF Spec
<1>3. Spec => []Room
  BY InitRoom, NextRoom, PTL DEF Spec
<1> QED
  BY <1>1, <1>2, <1>3, LedgerInvariant, PTL
============================================================================

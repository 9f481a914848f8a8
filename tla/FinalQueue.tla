---------------------------- MODULE FinalQueue ----------------------------
(***************************************************************************)
(* The micro-batching queue in front of the second pass                    *)
(* (core/final_asr/qwen_queue.py).                                         *)
(*                                                                         *)
(* A caller's submit puts a job on a bounded queue and waits for its       *)
(* future.  One dispatcher collects jobs into batches; each batch runs in  *)
(* a task of its own, its jobs one by one under a semaphore, and answers   *)
(* them together when the last is done.  Durations are not modelled: a     *)
(* window closes, or a timeout fires, at any moment.                       *)
(***************************************************************************)
EXTENDS Integers, Sequences, FiniteSets

CONSTANTS
  Arrivals,        \* the segments the sessions submit, in the order of their submits
  MaxQueue,        \* max_queue_size
  MaxBatch,        \* max_batch_size
  MaxConcurrency,  \* max_concurrency, counted in jobs
  NoAnswer         \* a future that is not done

Elems(seq) == {seq[i] : i \in DOMAIN seq}
Jobs == Elems(Arrivals)

\* What a transcription may raise: a TimeoutError or another exception.
Raised == {"error", "engine_timeout"}
Failures == {"overflow", "timeout"} \union Raised
\* A text is named by the job it was made for.
Answers == Jobs \union Failures \union {"cancelled"}

ASSUME QueueAssumption ==
  /\ Arrivals \in Seq(Jobs)
  /\ \A i, j \in DOMAIN Arrivals : Arrivals[i] = Arrivals[j] => i = j
  /\ {MaxQueue, MaxBatch, MaxConcurrency} \subseteq Nat \ {0}
  /\ NoAnswer \notin Answers /\ Jobs \cap (Failures \union {"cancelled"}) = {}

VARIABLES
  isRunning,   \* _is_running
  dispatcher,  \* the worker task: "off" or "on"
  draining,    \* stop has cancelled the worker and not yet emptied the queue
  queue,       \* _queue
  batch,       \* the jobs the dispatcher has taken and not yet dispatched
  batches,     \* dispatched batches: [taken, jobs, filtered, answered]
  phase,       \* where each job is
  result,      \* what the engine returned for a job: a text, or what it raised
  permits,     \* free places of the semaphore
  reply,       \* the job's future
  fallbacks    \* how often the job was counted as a fallback

vars == <<isRunning, dispatcher, draining, queue, batch, batches, phase, result, permits, reply, fallbacks>>

Phases == {"new", "refused", "queued", "collected", "dispatched", "filtered",
           "waiting", "running", "ran", "lost"}

Init ==
  /\ isRunning = FALSE /\ dispatcher = "off" /\ draining = FALSE
  /\ queue = <<>> /\ batch = <<>> /\ batches = <<>>
  /\ phase = [j \in Jobs |-> "new"]
  /\ result = [j \in Jobs |-> NoAnswer]
  /\ permits = MaxConcurrency
  /\ reply = [j \in Jobs |-> NoAnswer]
  /\ fallbacks = [j \in Jobs |-> 0]

Done(j) == reply[j] # NoAnswer
Waiting(j) == phase[j] \notin {"new", "refused"} /\ ~Done(j)

----------------------------------------------------------------------------
\* The jobs come in the order of Arrivals.
Comes(j) ==
  \E k \in DOMAIN Arrivals :
    /\ Arrivals[k] = j /\ phase[j] = "new"
    /\ \A i \in 1..(k - 1) : phase[Arrivals[i]] # "new"

\* What submit does once the dispatcher runs: the job is queued, or refused at
\* once when the queue is full.
Enqueue(j) ==
  /\ \/ /\ Len(queue) < MaxQueue
        /\ queue' = Append(queue, j)
        /\ phase' = [phase EXCEPT ![j] = "queued"]
        /\ UNCHANGED <<reply, fallbacks>>
     \/ /\ Len(queue) >= MaxQueue
        /\ phase' = [phase EXCEPT ![j] = "refused"]
        /\ reply' = [reply EXCEPT ![j] = "overflow"]
        /\ fallbacks' = [fallbacks EXCEPT ![j] = @ + 1]
        /\ UNCHANGED queue
  /\ UNCHANGED <<draining, batch, batches, result, permits>>

\* Fault: only the first submit starts the dispatcher.
SubmitAfterStop(j) ==
  /\ Comes(j)
  /\ isRunning' = TRUE
  /\ dispatcher' = IF \A i \in Jobs : phase[i] = "new" THEN "on" ELSE dispatcher
  /\ Enqueue(j)

\* start
Start == isRunning' = TRUE /\ dispatcher' = IF isRunning THEN dispatcher ELSE "on"

\* submit, which starts the dispatcher if it is not running.
Submit(j) ==
  /\ Comes(j)
  /\ Start
  /\ Enqueue(j)

\* wait_for gives up and cancels the future; the job stays where it is.
Timeout(j) ==
  /\ Waiting(j)
  /\ reply' = [reply EXCEPT ![j] = "timeout"]
  /\ fallbacks' = [fallbacks EXCEPT ![j] = @ + 1]
  /\ UNCHANGED <<isRunning, dispatcher, draining, queue, batch, batches, phase, result, permits>>

\* The session's cleanup, or its STOP, cancels the task that waits.
CancelCaller(j) ==
  /\ Waiting(j)
  /\ reply' = [reply EXCEPT ![j] = "cancelled"]
  /\ UNCHANGED <<isRunning, dispatcher, draining, queue, batch, batches, phase, result, permits, fallbacks>>

----------------------------------------------------------------------------
\* The dispatcher: the first job opens a batch, more join it inside the window.
Collect ==
  /\ dispatcher = "on" /\ queue # <<>> /\ Len(batch) < MaxBatch
  /\ batch' = Append(batch, Head(queue))
  /\ queue' = Tail(queue)
  /\ phase' = [phase EXCEPT ![Head(queue)] = "collected"]
  /\ UNCHANGED <<isRunning, dispatcher, draining, batches, result, permits, reply, fallbacks>>

\* The window closes, or the batch is full.
Dispatch ==
  /\ dispatcher = "on" /\ batch # <<>>
  /\ batches' = Append(batches, [taken |-> batch, jobs |-> batch, filtered |-> FALSE, answered |-> FALSE])
  /\ phase' = [j \in Jobs |-> IF j \in Elems(batch) THEN "dispatched" ELSE phase[j]]
  /\ batch' = <<>>
  /\ UNCHANGED <<isRunning, dispatcher, draining, queue, result, permits, reply, fallbacks>>

\* The jobs that are not to be left out, in their order.
Without(jobs, out) ==
  LET kept[k \in 0..Len(jobs)] ==
        IF k = 0 THEN <<>>
        ELSE IF jobs[k] \in out THEN kept[k - 1] ELSE Append(kept[k - 1], jobs[k])
  IN kept[Len(jobs)]

\* The jobs of a batch to be run: neither answered already nor expired.
Active(b, expired) == Without(batches[b].jobs, {j \in Jobs : Done(j)} \union expired)

\* _process_batch begins: a job already answered is left out; one that has waited
\* too long is answered with a timeout, which submit counts as a fallback.
FilterBatch(b) ==
  /\ b \in DOMAIN batches /\ ~batches[b].filtered
  /\ \E expired \in SUBSET {j \in Elems(batches[b].jobs) : ~Done(j)} :
       /\ reply' = [j \in Jobs |-> IF j \in expired THEN "timeout" ELSE reply[j]]
       /\ fallbacks' = [j \in Jobs |-> fallbacks[j] + IF j \in expired THEN 1 ELSE 0]
       /\ phase' = [j \in Jobs |->
                      IF j \notin Elems(batches[b].jobs) THEN phase[j]
                      ELSE IF Done(j) \/ j \in expired THEN "filtered" ELSE "waiting"]
       /\ batches' = [batches EXCEPT ![b].jobs = Active(b, expired), ![b].filtered = TRUE,
                                     ![b].answered = (Active(b, expired) = <<>>)]
  /\ UNCHANGED <<isRunning, dispatcher, draining, queue, batch, result, permits>>

\* Fault: one place of the semaphore for a whole batch.
AcquirePerBatch(j) ==
  /\ phase[j] = "waiting"
  /\ \E b \in DOMAIN batches :
       /\ j \in Elems(batches[b].jobs)
       /\ LET begun == \E i \in Elems(batches[b].jobs) : phase[i] \in {"running", "ran"}
          IN /\ begun \/ permits > 0
             /\ permits' = IF begun THEN permits ELSE permits - 1
  /\ phase' = [phase EXCEPT ![j] = "running"]
  /\ UNCHANGED <<isRunning, dispatcher, draining, queue, batch, batches, result, reply, fallbacks>>

\* Fault: the engine is called outside the semaphore's block.
AcquireAtOnce(j) ==
  /\ phase[j] = "waiting"
  /\ permits' = permits - 1
  /\ phase' = [phase EXCEPT ![j] = "running"]
  /\ UNCHANGED <<isRunning, dispatcher, draining, queue, batch, batches, result, reply, fallbacks>>

\* _run_one enters the semaphore and calls the engine, whether or not the caller
\* still waits.
Acquire(j) ==
  /\ phase[j] = "waiting" /\ permits > 0
  /\ permits' = permits - 1
  /\ phase' = [phase EXCEPT ![j] = "running"]
  /\ UNCHANGED <<isRunning, dispatcher, draining, queue, batch, batches, result, reply, fallbacks>>

\* transcribe (core/final_asr/qwen_engine.py): a text for the audio; an exception for a
\* status that is not 200 or a connection that fails; and a TimeoutError, raised on as
\* it is, for a request that takes too long.
Transcriptions(j) == {j} \union Raised

\* The engine returns or raises; the place is given back either way.
EngineReturns(j) ==
  /\ phase[j] = "running"
  /\ permits' = permits + 1
  /\ phase' = [phase EXCEPT ![j] = "ran"]
  /\ \E r \in Transcriptions(j) : result' = [result EXCEPT ![j] = r]
  /\ UNCHANGED <<isRunning, dispatcher, draining, queue, batch, batches, reply, fallbacks>>

\* The results of gather, in the order of the jobs it was given.
Gathered(b) == [k \in DOMAIN batches[b].jobs |-> result[batches[b].jobs[k]]]

\* Fault: the results are paired with the batch as it was before the filter.
ResultForUnfiltered(b, j) ==
  LET k == CHOOSE i \in DOMAIN batches[b].taken : batches[b].taken[i] = j
  IN IF k \in DOMAIN batches[b].jobs THEN Gathered(b)[k] ELSE NoAnswer

\* The result zip pairs with job j of batch b.
ResultFor(b, j) ==
  Gathered(b)[CHOOSE k \in DOMAIN batches[b].jobs : batches[b].jobs[k] = j]

\* Fault: a future that is done already is answered, and counted, again.
OpenAll(b) == Elems(batches[b].jobs)

\* The jobs of a batch whose futures are not done when its results come.
Open(b) == {j \in Elems(batches[b].jobs) : ~Done(j)}

\* How often an answer is counted: once where it is made, and a TimeoutError of the
\* engine a second time by the submit it is raised in.
Counted(answer) ==
  IF answer = "engine_timeout" THEN 2 ELSE IF answer \in Failures THEN 1 ELSE 0

\* The rest of _process_batch: all results are in, and each future that is not
\* yet done gets its own.  Its caller is woken in the same step.
Deliver(b) ==
  /\ b \in DOMAIN batches /\ batches[b].filtered /\ ~batches[b].answered
  /\ \A j \in Elems(batches[b].jobs) : phase[j] = "ran"
  /\ reply' = [j \in Jobs |-> IF j \in Open(b) THEN ResultFor(b, j) ELSE reply[j]]
  /\ fallbacks' = [j \in Jobs |->
       fallbacks[j] + IF j \in Open(b) THEN Counted(ResultFor(b, j)) ELSE 0]
  /\ batches' = [batches EXCEPT ![b].answered = TRUE]
  /\ UNCHANGED <<isRunning, dispatcher, draining, queue, batch, phase, result, permits>>

\* stop cancels the dispatcher, with the batch it was collecting, and waits for
\* it; batches already dispatched go on.
Stop ==
  /\ isRunning /\ ~draining
  /\ isRunning' = FALSE /\ dispatcher' = "off" /\ draining' = TRUE
  /\ batch' = <<>>
  /\ phase' = [j \in Jobs |-> IF phase[j] = "collected" THEN "lost" ELSE phase[j]]
  /\ UNCHANGED <<queue, batches, result, permits, reply, fallbacks>>

\* Then it fails what is queued, jobs submitted meanwhile to a new dispatcher
\* included.
Drain ==
  /\ draining
  /\ draining' = FALSE
  /\ queue' = <<>>
  /\ phase' = [j \in Jobs |-> IF phase[j] = "queued" THEN "lost" ELSE phase[j]]
  /\ reply' = [j \in Jobs |-> IF phase[j] = "queued" /\ ~Done(j) THEN "cancelled" ELSE reply[j]]
  /\ UNCHANGED <<isRunning, dispatcher, batch, batches, result, permits, fallbacks>>

Quiet == (\A j \in Jobs : Done(j)) /\ UNCHANGED vars

Next ==
  \/ \E j \in Jobs : Submit(j) \/ Timeout(j) \/ CancelCaller(j) \/ Acquire(j) \/ EngineReturns(j)
  \/ Collect \/ Dispatch \/ Stop \/ Drain
  \/ \E b \in DOMAIN batches : FilterBatch(b) \/ Deliver(b)
  \/ Quiet

\* The dispatcher's task runs, a stop goes on to its end, and the timer of every wait_for fires.  Nothing is
\* assumed of the engine: a call of it may never return.
Fairness ==
  /\ WF_vars(Collect) /\ WF_vars(Dispatch) /\ WF_vars(Drain)
  /\ \A j \in Jobs : WF_vars(Timeout(j))

Spec == Init /\ [][Next]_vars /\ Fairness

----------------------------------------------------------------------------
(* Properties.                                                             *)

InEngine == {j \in Jobs : phase[j] = "running"}

TypeOK ==
  /\ {isRunning, draining} \subseteq BOOLEAN /\ dispatcher \in {"on", "off"}
  /\ queue \in Seq(Jobs) /\ Len(queue) <= MaxQueue
  /\ batch \in Seq(Jobs) /\ Len(batch) <= MaxBatch
  /\ batches \in Seq([taken : Seq(Jobs), jobs : Seq(Jobs), filtered : BOOLEAN, answered : BOOLEAN])
  /\ phase \in [Jobs -> Phases]
  /\ result \in [Jobs -> Jobs \union Raised \union {NoAnswer}]
  /\ permits \in 0..MaxConcurrency
  /\ reply \in [Jobs -> Answers \union {NoAnswer}]
  /\ fallbacks \in [Jobs -> Nat]

\* max_concurrency bounds the second-pass requests in flight, counted in jobs and
\* across batches, and no place is ever lost: free and used places always add up.
ConcurrencyBounded == permits >= 0 /\ permits + Cardinality(InEngine) = MaxConcurrency

\* A caller that gets a text gets the text of its own audio, however its batch was
\* thinned out by timeouts on the way.
OwnAnswer == \A j \in Jobs : reply[j] \in Jobs => reply[j] = j

\* A job is counted for the one answer its caller got, and for nothing else: the late
\* result of a batch neither replaces the timeout a caller has acted on nor counts it
\* again, and a failure nobody waits for is not counted.
CountedAsAnswered == \A j \in Jobs : fallbacks[j] = Counted(reply[j])

\* No caller waits for ever, through overflow, timeouts and stop; and a job that a
\* running dispatcher has queued does not stay there.
CallersAnswered ==
  \A j \in Jobs :
    /\ Waiting(j) ~> Done(j)
    /\ (phase[j] = "queued") ~> (phase[j] # "queued")

----------------------------------------------------------------------------
(* Refuted by a run of its own.                                            *)

============================================================================

--------------------------- MODULE ForwardBatcher ---------------------------
(***************************************************************************)
(* The streaming first pass (core/streaming_asr/onnx_batched_streaming.py):*)
(* the streams of the sessions, whose threads submit one request after     *)
(* another, and the one thread that forwards requests of several streams   *)
(* together, alone when that fails, and sends the model into a reload.     *)
(*                                                                         *)
(* The numbers of a forward are abstracted to what it integrates: the      *)
(* cache of a stream is the sequence of the requests the CIF has taken in  *)
(* since the sentence began.                                               *)
(***************************************************************************)
EXTENDS EngineHealth, Sequences, FiniteSets

CONSTANTS
  Streams,
  MaxBatch,     \* batch_size
  MaxRequests   \* bound: how many requests each stream makes

ASSUME BatcherAssumption == MaxBatch \in Nat \ {0} /\ MaxRequests \in [Streams -> Nat]

VARIABLES
  stream,   \* the streams: the next request, the one it waits for and whether that
            \* is a tail, the cache, and two history fields: the requests fed in this
            \* sentence, and whether one of them was late, lost or half written
  reply,    \* the futures: "none", "open" or "done"
  queue,    \* _queue
  thread,   \* where _loop is: "top", "get", "window", "run" or "ended"
  batch,    \* the requests collected and not yet grouped
  groups,   \* groups of it not yet forwarded
  solo,     \* requests of a failed group not yet tried alone
  reason,   \* reload_reason is not None
  stopped   \* _stop

batcherVars == <<thread, batch, groups, solo, reason>>
vars == <<stream, reply, queue, batcherVars, stopped, healthVars>>

Elems(seq) == {seq[i] : i \in DOMAIN seq}
Sentinel == [st |-> "none", n |-> 0, tail |-> FALSE]
Numbers(st) == 1..MaxRequests[st]
Request(st, n, tail) == [st |-> st, n |-> n, tail |-> tail]

Init ==
  /\ HealthInit
  /\ stream = [st \in Streams |->
       [next |-> 1, waits |-> 0, tail |-> FALSE, fed |-> <<>>, cache |-> <<>>, troubled |-> FALSE]]
  /\ reply = [st \in Streams |-> [n \in Numbers(st) |-> "none"]]
  /\ queue = <<>> /\ batch = <<>> /\ groups = <<>> /\ solo = <<>>
  /\ thread = "top" /\ reason = FALSE /\ stopped = FALSE

----------------------------------------------------------------------------
(* The threads of the sessions: process_chunk, one request at a time.      *)

\* A chunk, or the tail of a sentence, becomes a request.  The look at the model
\* before it may be out of date by now, and guards nothing.
Submit(st, tail) ==
  LET n == stream[st].next
  IN /\ stream[st].waits = 0 /\ n <= MaxRequests[st]
     /\ tail => stream[st].fed # <<>>
     /\ stream' = [stream EXCEPT ![st].next = n + 1, ![st].waits = n, ![st].tail = tail,
                                 ![st].fed = Append(@, n)]
     /\ reply' = [reply EXCEPT ![st][n] = "open"]
     /\ queue' = Append(queue, Request(st, n, tail))
     /\ UNCHANGED <<batcherVars, stopped, healthVars>>

\* _init_stream_cache at the end of a sentence.  What is still unanswered of the
\* stream will be forwarded on the new cache.
NextSentence(st) ==
  [stream[st] EXCEPT !.waits = 0, !.fed = <<>>, !.cache = <<>>,
     !.troubled = \E n \in Numbers(st) : n # stream[st].waits /\ reply[st][n] = "open"]

\* The future is done, and process_chunk goes on.
Return(st) ==
  /\ stream[st].waits # 0 /\ reply[st][stream[st].waits] # "open"
  /\ stream' = [stream EXCEPT ![st] =
                  IF stream[st].tail THEN NextSentence(st) ELSE [@ EXCEPT !.waits = 0]]
  /\ UNCHANGED <<reply, queue, batcherVars, stopped, healthVars>>

\* fut.result times out: the caller goes on without tokens, the request stays.
Timeout(st) ==
  /\ stream[st].waits # 0 /\ reply[st][stream[st].waits] = "open"
  /\ stream' = [stream EXCEPT ![st] =
                  [(IF stream[st].tail THEN NextSentence(st) ELSE [@ EXCEPT !.waits = 0])
                     EXCEPT !.troubled = TRUE]]
  /\ UNCHANGED <<reply, queue, batcherVars, stopped, healthVars>>

\* A final flush that yields no features ends the sentence without a request.
FlushNothing(st) ==
  /\ stream[st].waits = 0 /\ stream[st].fed # <<>>
  /\ stream' = [stream EXCEPT ![st] = NextSentence(st)]
  /\ UNCHANGED <<reply, queue, batcherVars, stopped, healthVars>>

\* Fault: nothing wakes a thread that waits for a request.
StopQuietly ==
  /\ ~stopped
  /\ stopped' = TRUE
  /\ UNCHANGED <<stream, reply, queue, batcherVars, healthVars>>

\* stop(), before it joins the thread.
Stop ==
  /\ ~stopped
  /\ stopped' = TRUE
  /\ queue' = Append(queue, Sentinel)
  /\ UNCHANGED <<stream, reply, batcherVars, healthVars>>

----------------------------------------------------------------------------
(* The forward thread: _loop collects a batch.                             *)

Top ==
  /\ thread = "top"
  /\ thread' = IF stopped THEN "ended" ELSE "get"
  /\ UNCHANGED <<stream, reply, queue, batch, groups, solo, reason, stopped, healthVars>>

Get ==
  /\ thread = "get" /\ queue # <<>>
  /\ queue' = Tail(queue)
  /\ IF Head(queue) = Sentinel THEN thread' = "ended" /\ UNCHANGED batch
     ELSE thread' = "window" /\ batch' = <<Head(queue)>>
  /\ UNCHANGED <<stream, reply, groups, solo, reason, stopped, healthVars>>

\* Fault: the batch is not limited.
JoinUnlimited ==
  /\ thread = "window" /\ queue # <<>>
  /\ Head(queue) # Sentinel
  /\ batch' = Append(batch, Head(queue))
  /\ queue' = Tail(queue)
  /\ UNCHANGED <<stream, reply, thread, groups, solo, reason, stopped, healthVars>>

\* More requests join inside the window.
Join ==
  /\ thread = "window" /\ queue # <<>> /\ Len(batch) < MaxBatch
  /\ Head(queue) # Sentinel
  /\ batch' = Append(batch, Head(queue))
  /\ queue' = Tail(queue)
  /\ UNCHANGED <<stream, reply, thread, groups, solo, reason, stopped, healthVars>>

\* Requests get their tokens, or nothing; either way their futures are done.
Answer(rs) ==
  reply' = [st \in Streams |-> [n \in Numbers(st) |->
              IF \E r \in rs : r.st = st /\ r.n = n THEN "done" ELSE reply[st][n]]]

Troubled(rs) == [st \in Streams |->
  IF \E r \in rs : r.st = st THEN [stream[st] EXCEPT !.troubled = TRUE] ELSE stream[st]]

\* The groups of a batch, as lists of positions in it: tails apart from steady chunks,
\* and only equal shapes (of the features and of the cache) together; a group in the
\* order of the batch, and the groups in the order of their first requests.
Grouped(shape, gs) ==
  LET key == [i \in DOMAIN batch |-> <<batch[i].tail, shape[i]>>]
  IN /\ \A i \in DOMAIN batch : \E k \in DOMAIN gs : i \in Elems(gs[k])
     /\ \A k \in DOMAIN gs : \A i, j \in DOMAIN gs[k] :
          /\ key[gs[k][i]] = key[gs[k][j]]
          /\ i < j => gs[k][i] < gs[k][j]
     /\ \A k, m \in DOMAIN gs :
          k < m => gs[k][1] < gs[m][1] /\ key[gs[k][1]] # key[gs[m][1]]

Lists(n, S) == UNION {[1..k -> S] : k \in 1..n}

\* The window closes, or the batch is full, or the sentinel has come; and _execute
\* begins.  Without a model, or when the grouping fails, everybody gets nothing.
Execute ==
  /\ thread = "window"
  /\ IF queue # <<>> /\ Head(queue) = Sentinel /\ Len(batch) < MaxBatch
     THEN queue' \in {queue, Tail(queue)} ELSE UNCHANGED queue
  /\ \/ /\ loaded
        /\ \E shape \in [DOMAIN batch -> {"one", "other"}],
              gs \in Lists(Len(batch), Lists(Len(batch), DOMAIN batch)) :
             /\ Grouped(shape, gs)
             /\ groups' = [k \in DOMAIN gs |-> [i \in DOMAIN gs[k] |-> batch[gs[k][i]]]]
        /\ thread' = "run"
        /\ UNCHANGED <<stream, reply>>
     \/ /\ Answer(Elems(batch))
        /\ stream' = Troubled(Elems(batch))
        /\ thread' = "top"
        /\ UNCHANGED groups
  /\ batch' = <<>>
  /\ UNCHANGED <<solo, reason, stopped, healthVars>>

----------------------------------------------------------------------------
(* _execute forwards the groups one after another.                         *)

\* Fault: the rows of the caches are given back in the wrong order.
AdvanceShifted(g) == [st \in Streams |->
  IF \E r \in Elems(g) : r.st = st
  THEN [stream[st] EXCEPT !.cache = Append(@, g[1].n)] ELSE stream[st]]

\* The caches after the CIF has taken in a group: each row goes back to its stream,
\* and of two rows of one stream the later overwrites the earlier.
Advance(g) == [st \in Streams |->
  LET rows == {i \in DOMAIN g : g[i].st = st}
      last == CHOOSE i \in rows : \A j \in rows : j <= i
  IN IF rows = {} THEN stream[st] ELSE [stream[st] EXCEPT !.cache = Append(@, g[last].n)]]

\* A forward that fails does so before the caches are written, or after it.
HalfWritten(g) == [st \in Streams |->
  IF \E r \in Elems(g) : r.st = st THEN [Advance(g)[st] EXCEPT !.troubled = TRUE] ELSE stream[st]]

FailedForward(g) == stream' \in {stream, HalfWritten(g)}
LostForward(g) == stream' \in {Troubled(Elems(g)), HalfWritten(g)}

\* What a failed forward does to the engine's health, and to reload_reason.
Blame == NoteError /\ reason' = GivesReason /\ UNCHANGED <<loaded, reloading, loading, finishing>>

RunGroup ==
  LET g == Head(groups)
  IN /\ thread = "run" /\ groups # <<>> /\ solo = <<>>
     /\ groups' = Tail(groups)
     /\ \/ /\ stream' = Advance(g)
           /\ Answer(Elems(g))
           /\ NoteSuccess
           /\ UNCHANGED <<solo, reason, loaded, reloading, loading, finishing>>
        \/ /\ Len(g) > 1
           /\ FailedForward(g)
           /\ solo' = g
           /\ UNCHANGED <<reply, reason, healthVars>>
        \/ /\ Len(g) = 1
           /\ LostForward(g)
           /\ Answer(Elems(g))
           /\ Blame
           /\ UNCHANGED solo
     /\ UNCHANGED <<queue, thread, batch, stopped>>

\* Fault: a request that fails alone is not answered.
RunSoloSilent ==
  LET r == Head(solo)
  IN /\ thread = "run" /\ solo # <<>>
     /\ solo' = Tail(solo)
     /\ \/ stream' = Advance(<<r>>) /\ Answer({r}) /\ UNCHANGED <<reason, healthVars>>
        \/ LostForward(<<r>>) /\ Blame /\ UNCHANGED reply
     /\ UNCHANGED <<queue, thread, batch, groups, stopped>>

\* Alone, a success is not noted, and a failure is.
RunSolo ==
  LET r == Head(solo)
  IN /\ thread = "run" /\ solo # <<>>
     /\ solo' = Tail(solo)
     /\ \/ stream' = Advance(<<r>>) /\ Answer({r}) /\ UNCHANGED <<reason, healthVars>>
        \/ LostForward(<<r>>) /\ Answer({r}) /\ Blame
     /\ UNCHANGED <<queue, thread, batch, groups, stopped>>

\* _start_reload.  Nobody else takes the inference lock of this engine.
StartReload ==
  \/ ClaimReload /\ Unload
  \/ ReloadClaimed /\ UNCHANGED <<loaded, loading>>

EndBatch ==
  /\ thread = "run" /\ groups = <<>> /\ solo = <<>>
  /\ IF reason THEN StartReload ELSE UNCHANGED <<loaded, reloading, loading>>
  /\ thread' = "top" /\ reason' = FALSE
  /\ UNCHANGED <<stream, reply, queue, batch, groups, solo, stopped, errors, finishing>>

Worker == ReloadWorker /\ UNCHANGED <<stream, reply, queue, batcherVars, stopped>>

Loop == Top \/ Get \/ Join \/ Execute \/ RunGroup \/ RunSolo \/ EndBatch

AtRest ==
  /\ thread = "ended" /\ \A st \in Streams : stream[st].waits = 0
  /\ UNCHANGED vars

Next ==
  \/ \E st \in Streams :
       \/ \E tail \in BOOLEAN : Submit(st, tail)
       \/ Return(st) \/ Timeout(st) \/ FlushNothing(st)
  \/ Loop \/ Worker \/ Stop \/ AtRest

\* The thread runs on; its window closes, if only because the batch is full.  Nothing
\* is assumed of the callers, nor that a model ever loads again.
Fairness == WF_vars(Loop)

Spec == Init /\ [][Next]_vars /\ Fairness

----------------------------------------------------------------------------
(* Properties.                                                             *)

Requests == [st : Streams, n : Nat, tail : BOOLEAN]

TypeOK ==
  /\ HealthTypeOK
  /\ stream \in [Streams ->
       [next : Nat, waits : Nat, tail : BOOLEAN, fed : Seq(Nat), cache : Seq(Nat),
        troubled : BOOLEAN]]
  /\ \A st \in Streams : reply[st] \in [Numbers(st) -> {"none", "open", "done"}]
  /\ queue \in Seq(Requests \union {Sentinel})
  /\ {batch, solo} \subseteq Seq(Requests) /\ groups \in Seq(Seq(Requests))
  /\ Len(batch) <= MaxBatch
  /\ thread \in {"top", "get", "window", "run", "ended"}
  /\ {reason, stopped} \subseteq BOOLEAN

\* What a stream has fed in this sentence is in its cache, once and in order, up to
\* the request it waits for; and only its own timeout, or a forward it was part of
\* and that was lost or failed half-way, disturbs this: neither the streams it is
\* forwarded with, nor a merged forward that fails before it has written anything.
CachesIsolated ==
  \A st \in Streams : ~stream[st].troubled =>
    \/ stream[st].cache = stream[st].fed
    \/ stream[st].waits # 0 /\ Append(stream[st].cache, stream[st].waits) = stream[st].fed

\* A request without an answer is in one place, from which the thread will answer
\* it: none is forgotten by the grouping or by the retries, and none is run again.
InHand(st, n) ==
  LET at(seq) == {i \in DOMAIN seq : seq[i].st = st /\ seq[i].n = n}
  IN Cardinality(at(queue)) + Cardinality(at(solo))
     + Cardinality(at(batch)) + Cardinality({k \in DOMAIN groups : at(groups[k]) # {}})

NoneForgotten ==
  \A st \in Streams : \A n \in Numbers(st) :
    InHand(st, n) = IF reply[st][n] = "open" THEN 1 ELSE 0

\* A request is answered by the thread, whether or not its caller still waits and
\* however many forwards fail, unless the engine is stopped; and a stop ends the
\* thread, even when it waits for a request that never comes.
Served ==
  /\ \A st \in Streams : \A n \in Numbers(st) :
       (reply[st][n] = "open") ~> (reply[st][n] # "open" \/ stopped)
  /\ stopped ~> (thread = "ended")
============================================================================

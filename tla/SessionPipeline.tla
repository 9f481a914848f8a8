-------------------------- MODULE SessionPipeline --------------------------
(***************************************************************************)
(* One session of the gateway and the SessionPipeline that serves it       *)
(* (pipeline/session_pipeline.py, core/session.py).                        *)
(*                                                                         *)
(* The messages of one connection are handled one after another, so each   *)
(* handler is one action; the second-pass tasks it starts run beside it    *)
(* and finish in any order.  A handler is the composition of the methods   *)
(* it calls, each an operator from the session's record to its next one.   *)
(*                                                                         *)
(* Time is counted in audio units from the first byte written to the ring  *)
(* buffer.  Text is a sequence of tokens, numbered in the order in which   *)
(* the first pass returns them, the ones the session throws away included. *)
(***************************************************************************)
EXTENDS Integers, Sequences, FiniteSets

CONSTANTS
  MaxSpeech,         \* vad.max_speech_duration_ms; 0 disables the forced cut
  CommitWindow,      \* the 2000 ms looked back when no start is known
  EndWindow,         \* the 3000 ms looked back at a VAD end without a start
  WatchdogEnabled,   \* voice.watchdog_enable (L2)
  WatchdogMinChars,  \* voice.watchdog_min_chars
  WatchdogSpan,      \* voice.watchdog_max_segment_ms
  WatchdogLimit,     \* voice.watchdog_rate_limit_per_hour
  Hour,              \* the 3600 s window of that limit
  Results,           \* what a second pass may leave: "text", "empty" or both
  \* Bounds of the instance.
  ChunkLengths,      \* durations of one audio message
  VadMayFail,        \* whether the VAD model may be down
  MaxConfirm,        \* tokens the first pass may confirm at once
  Gaps,              \* wall-clock time that may pass before a message
  VadLookback,       \* how far behind its clock the VAD may place a boundary
  MaxNow, MaxWall, MaxTokens

ASSUME ConfigAssumption ==
  /\ {MaxSpeech, WatchdogMinChars, WatchdogSpan} \subseteq Nat
  /\ {CommitWindow, EndWindow} \subseteq Nat \ {0}
  /\ {WatchdogLimit, Hour, MaxConfirm, VadLookback, MaxNow, MaxWall, MaxTokens} \subseteq Nat
  /\ {WatchdogEnabled, VadMayFail} \subseteq BOOLEAN
  /\ ChunkLengths \subseteq Nat \ {0}
  /\ Gaps \subseteq Nat
  /\ Results \subseteq {"text", "empty"}

VARIABLES
  now,     \* ring_buffer.total_ms
  wall,    \* time.time()
  vad,     \* the VAD's cache for this session
  s,       \* the ClientSession, with the pipeline's own segment start
  stop     \* how far process_stop has come

vars == <<now, wall, vad, s, stop>>

None == -1
Larger(a, b) == IF a >= b THEN a ELSE b

\* An empty vad_cache: FunASR and the mock restart their clock at 0 on it.
FreshVad == [clock |-> 0, last |-> 0, open |-> FALSE]
NoSegment == [start |-> None, end |-> None]

Fresh(n, k) == [i \in 1..k |-> n + i]
Elems(seq) == {seq[i] : i \in DOMAIN seq}

NewSession ==
  [inSpeech |-> FALSE, speechStart |-> None, segmentStart |-> None,
   latch |-> None, watermark |-> 0, vadOrigin |-> 0,
   text |-> <<>>, held |-> 0, tokens |-> 0, dropped |-> {},
   forceTimes |-> <<>>, forced |-> <<>>,
   sentences |-> <<>>, transcript |-> <<>>]

Init == now = 0 /\ wall = 0 /\ vad = FreshVad /\ s = NewSession /\ stop = "no"

Stopping == stop # "no"
Running == {i \in DOMAIN s.sentences : s.sentences[i].task = "running"}

----------------------------------------------------------------------------
(* The methods a handler is composed of.                                   *)

\* Fault: the text is handed to the sentence but not taken from the session.
CutKeepsText(q, from, end) ==
  [q EXCEPT !.watermark = end, !.latch = None, !.held = 0,
            !.tokens = q.tokens + q.held,
            !.sentences = Append(@, [start |-> from, end |-> end,
                                     provisional |-> q.text \o Fresh(q.tokens, q.held),
                                     task |-> "running", final |-> "none"])]

\* A sentence is cut: flush the first pass, record it, start its second pass.
Cut(q, from, end) ==
  [q EXCEPT !.watermark = end, !.latch = None,
            !.text = <<>>, !.held = 0, !.tokens = q.tokens + q.held,
            !.sentences = Append(@, [start |-> from, end |-> end,
                                     provisional |-> q.text \o Fresh(q.tokens, q.held),
                                     task |-> "running", final |-> "none"])]

\* Fault: the start is not clamped to the watermark.
SentenceEndpointUnclamped(q, start, end) == IF end <= start THEN q ELSE Cut(q, start, end)

\* _handle_sentence_endpoint: clamp to the watermark and skip an empty interval,
\* leaving the session, its text included, as it is.
SentenceEndpoint(q, start, end) ==
  LET from == Larger(start, q.watermark)
  IN IF end <= from THEN q ELSE Cut(q, from, end)

\* _reset_vad_stream, on the session's side; the cache itself becomes FreshVad.
ResetVadStream(q, origin) == [q EXCEPT !.vadOrigin = Larger(0, origin)]

VadToRing(q, t) == IF t < 0 THEN t ELSE t + q.vadOrigin

\* One iteration of _handle_vad_segments; NoSegment leaves the session as it is.
VadStart(q, start) ==
  IF start = None THEN q
  ELSE [q EXCEPT !.inSpeech = TRUE, !.speechStart = start, !.segmentStart = start,
                 !.latch = None]

\* Fault: closing an utterance forgets its start.
CloseUtteranceKeepsStart(q) ==
  [q EXCEPT !.inSpeech = FALSE, !.segmentStart = None, !.latch = None]

\* What a VAD end and a COMMIT reset.
CloseUtterance(q) ==
  [q EXCEPT !.inSpeech = FALSE, !.speechStart = None, !.segmentStart = None, !.latch = None]

VadEnd(q, end) ==
  IF end = None THEN q
  ELSE LET known == IF q.speechStart # None THEN q.speechStart ELSE Larger(0, end - EndWindow)
           from  == Larger(known, q.watermark)
       IN SentenceEndpoint(CloseUtterance(q), from, Larger(end, from))

HandleVadSegment(q, seg) ==
  VadEnd(VadStart(q, VadToRing(q, seg.start)), VadToRing(q, seg.end))

\* Fault: the latched start may precede the audio.
MaybeEmitPartialUnclamped(q, t, hadNewTokens) ==
  IF hadNewTokens /\ q.text # <<>> /\ q.latch < 0 THEN [q EXCEPT !.latch = t - CommitWindow]
  ELSE q

\* _maybe_emit_partial: text that comes before a start latches one.  Whether the
\* partial is then sent (L1) is left out.
MaybeEmitPartial(q, t, hadNewTokens) ==
  LET latched == IF q.segmentStart = None /\ q.latch < 0
                 THEN Larger(0, t - CommitWindow) ELSE q.latch
  IN IF ~hadNewTokens \/ q.text = <<>> THEN q
     ELSE [q EXCEPT !.latch = latched]

\* The forced cut of uninterrupted speech: speech goes on after it.
ForceCut(q, t) ==
  IF MaxSpeech > 0 /\ q.inSpeech /\ q.speechStart # None /\ t - q.speechStart >= MaxSpeech
  THEN [SentenceEndpoint(q, q.speechStart, t) EXCEPT
          !.speechStart = t, !.segmentStart = t, !.watermark = t]
  ELSE q

\* Fault: a rate-limited watchdog leaves the text where it is.
DiscardNothing(q, t) == q

\* _discard_unsent_partial: the text is dropped, what the streaming cache holds
\* goes with the cache, and the watermark passes over their audio.
DiscardUnsentPartial(q, t) ==
  [q EXCEPT !.dropped = @ \union Elems(q.text \o Fresh(q.tokens, q.held)),
            !.text = <<>>, !.held = 0, !.tokens = q.tokens + q.held,
            !.watermark = Larger(q.watermark, t), !.segmentStart = None, !.latch = None]

\* The times from the first young one on: the older are popped from the left.
FromFirst(times, young) ==
  IF young = {} THEN <<>>
  ELSE SubSeq(times, CHOOSE k \in young : \A j \in young : k <= j, Len(times))

\* Fault: a cut is forgotten when it is exactly an hour old.
RecentOpen(times, w) == FromFirst(times, {k \in DOMAIN times : times[k] > w - Hour})

Recent(times, w) == FromFirst(times, {k \in DOMAIN times : times[k] >= w - Hour})

\* _watchdog_over_rate_limit forgets the cuts older than an hour, then counts.
WithinHour(q, w) == [q EXCEPT !.forceTimes = Recent(@, w)]

\* _maybe_watchdog: text gathered outside speech is put to a second pass once it
\* is long enough, or thrown away when the hour's adjudications are used up.
MaybeWatchdog(q, t, w) ==
  LET r    == WithinHour(q, w)
      from == Larger(q.watermark, t - WatchdogSpan)
      cut  == SentenceEndpoint([r EXCEPT !.forceTimes = Append(@, w),
                                         !.forced = Append(@, w)], from, t)
  IN IF ~WatchdogEnabled \/ q.inSpeech \/ Len(q.text) < WatchdogMinChars THEN q
     ELSE IF Len(r.forceTimes) >= WatchdogLimit THEN DiscardUnsentPartial(r, t)
     ELSE IF cut.text # <<>> THEN DiscardUnsentPartial(cut, t)
     ELSE cut

\* The streaming engine returns k tokens, the ones it held among the first of them,
\* and would return h more if it were flushed now.  L0 drops what it returns on a
\* near-silent chunk outside speech.
Accumulate(q, k, h, silent) ==
  IF silent
  THEN [q EXCEPT !.dropped = @ \union Elems(Fresh(q.tokens, k)), !.tokens = @ + k, !.held = h]
  ELSE [q EXCEPT !.text = @ \o Fresh(q.tokens, k), !.tokens = @ + k, !.held = h]

----------------------------------------------------------------------------
(* The VAD: what process_chunk may report, and the cache it leaves.        *)

Boundary(c, after) == (Larger(after, c - VadLookback))..c

\* Results of feeding d more units: at most two segments, in order, starts and
\* ends alternating.  The model being unloaded or failing reports nothing; an
\* unloaded one does not consume the audio, a failing one may have.
VadResults(d) ==
  LET c == vad.clock + d
      opened(a)    == [clock |-> c, last |-> a, open |-> TRUE]
      closedAt(b)  == [clock |-> c, last |-> b, open |-> FALSE]
      nothing == {<<NoSegment, NoSegment, [vad EXCEPT !.clock = c]>>}
      down    == IF VadMayFail THEN {<<NoSegment, NoSegment, vad>>} ELSE {}
      starts == {<<[start |-> a, end |-> None], NoSegment, opened(a)>> :
                   a \in Boundary(c - 1, vad.last)}
      ends   == {<<[start |-> None, end |-> b], NoSegment, closedAt(b)>> :
                   b \in Boundary(c, vad.last + 1)}
      whole  == {<<[start |-> a, end |-> b], NoSegment, closedAt(b)>> :
                   a \in Boundary(c - 1, vad.last), b \in Boundary(c, vad.last + 1)}
      resume == {<<[start |-> None, end |-> b], [start |-> a, end |-> None], opened(a)>> :
                   b \in Boundary(c, vad.last + 1), a \in Boundary(c - 1, vad.last + 1)}
  IN nothing \union down \union
     (IF vad.open THEN ends \union {r \in resume : r[1].end <= r[2].start}
      ELSE starts \union {r \in whole : r[1].start < r[1].end})

\* The flush at STOP feeds no audio: it closes an open segment, or reports one
\* it had not yet announced, or fails.
VadFlush ==
  {NoSegment} \union
  (IF vad.open
   THEN {[start |-> None, end |-> b] : b \in Boundary(vad.clock, vad.last + 1)}
   ELSE {seg \in [start : Boundary(vad.clock, vad.last), end : Boundary(vad.clock, vad.last)] :
           seg.start < seg.end})

----------------------------------------------------------------------------
(* The handlers.                                                           *)

\* process_audio_chunk.
ProcessAudioChunk(d, gap, k, h, silent, result) ==
  LET t  == now + d
      w  == wall + gap
      q1 == Accumulate(s, k, h, silent)
      q2 == HandleVadSegment(HandleVadSegment(q1, result[1]), result[2])
      q3 == ForceCut(MaybeEmitPartial(q2, t, k > 0 /\ ~silent), t)
  IN /\ ~Stopping
     /\ now' = t /\ wall' = w
     /\ vad' = result[3]
     /\ s' = MaybeWatchdog(q3, t, w)
     /\ UNCHANGED stop

\* What the engine holds stays held until it returns something.
Audio ==
  \E d \in ChunkLengths, gap \in Gaps, k \in 0..MaxConfirm, h \in 0..1,
     silent \in (IF s.inSpeech THEN {FALSE} ELSE BOOLEAN) :
    /\ silent => k > 0
    /\ now + d <= MaxNow /\ wall + gap <= MaxWall /\ s.tokens + s.held + k + h <= MaxTokens
    /\ h >= s.held \/ k > 0
    /\ \E result \in VadResults(d) : ProcessAudioChunk(d, gap, k, h, silent, result)

\* process_commit.
ProcessCommit ==
  LET known == IF s.speechStart # None THEN s.speechStart
               ELSE IF s.latch >= 0 THEN s.latch ELSE Larger(0, now - CommitWindow)
      start == Larger(known, s.watermark)
      reset == ResetVadStream(CloseUtterance(s), now)
      skip  == [reset EXCEPT !.watermark = Larger(s.watermark, now)]
  IN /\ ~Stopping
     /\ vad' = FreshVad
     /\ s' = IF ~s.inSpeech /\ s.text = <<>>
             THEN [skip EXCEPT !.speechStart = s.speechStart]
             ELSE IF now <= start THEN skip
             ELSE SentenceEndpoint(reset, start, now)
     /\ UNCHANGED <<now, wall, stop>>

\* Fault: only an open utterance is closed at STOP.
CutLeftoverNever(q) == q

\* Text gathered outside speech gets its one second pass at STOP.
CutLeftover(q) ==
  LET from == Larger(q.watermark, now - WatchdogSpan)
  IN IF WatchdogEnabled /\ q.text # <<>> /\ now > from THEN SentenceEndpoint(q, from, now) ELSE q

\* process_stop up to the wait for the second passes.
ProcessStop ==
  \E seg \in VadFlush :
    LET end   == VadToRing(s, seg.end)
        open  == IF s.speechStart # None THEN s.speechStart ELSE Larger(0, end - CommitWindow)
        q1    == IF end = None THEN s ELSE SentenceEndpoint(s, open, end)
        still == IF q1.speechStart # None THEN q1.speechStart ELSE Larger(0, now - CommitWindow)
    IN /\ ~Stopping
       /\ stop' = "waiting"
       /\ s' = IF q1.inSpeech
               THEN [(IF now > still THEN SentenceEndpoint(q1, still, now) ELSE q1)
                       EXCEPT !.inSpeech = FALSE]
               ELSE CutLeftover(q1)
       /\ vad' = [vad EXCEPT !.open = FALSE]
       /\ UNCHANGED <<now, wall>>

\* A resume: the same session under a new SessionPipeline, which does not know
\* the segment start its predecessor held.  Between the disconnect and the resume
\* the session is inactive: of the handlers only process_stop can reach it.
Resume ==
  /\ ~Stopping
  /\ s' = [s EXCEPT !.segmentStart = None]
  /\ UNCHANGED <<now, wall, vad, stop>>

----------------------------------------------------------------------------
(* The second pass of each sentence, and the end of the session.           *)

SettleTask(i, outcome, result) ==
  s' = [s EXCEPT !.sentences[i] = [@ EXCEPT !.task = outcome, !.final = result]]

\* _process_final_segment: the record is committed with the text of the second
\* pass (possibly empty), or with the provisional text when it failed.
FinishFinal(i, result) ==
  /\ i \in Running
  /\ SettleTask(i, "done", result)
  /\ UNCHANGED <<now, wall, vad, stop>>

\* The final queue is shut down under the task: CancelledError ends it.
CancelFinal(i) ==
  /\ i \in Running
  /\ SettleTask(i, "cancelled", "none")
  /\ UNCHANGED <<now, wall, vad, stop>>

\* wait_for_pending_tasks gives up and cancels what still runs.
StopTimeout ==
  /\ stop = "waiting" /\ Running # {}
  /\ s' = [s EXCEPT !.sentences =
             [i \in DOMAIN @ |-> IF i \in Running THEN [@[i] EXCEPT !.task = "cancelled"] ELSE @[i]]]
  /\ UNCHANGED <<now, wall, vad, stop>>

\* SentenceRecord.to_dict: the text a transcript entry shows.
TranscriptText(r) ==
  IF r.final = "text" THEN "final" ELSE "provisional"

\* Fault: session_finished does not wait for the second passes.
SessionFinishedEarly ==
  /\ stop = "waiting"
  /\ stop' = "finished"
  /\ s' = [s EXCEPT !.transcript = [i \in DOMAIN s.sentences |-> TranscriptText(s.sentences[i])]]
  /\ UNCHANGED <<now, wall, vad>>

\* session_finished is queued once no task of the session is left.
SessionFinished ==
  /\ stop = "waiting" /\ Running = {}
  /\ stop' = "finished"
  /\ s' = [s EXCEPT !.transcript = [i \in DOMAIN s.sentences |-> TranscriptText(s.sentences[i])]]
  /\ UNCHANGED <<now, wall, vad>>

Finished == stop = "finished" /\ UNCHANGED vars

FinalStep(i) == \E result \in Results : FinishFinal(i, result)

Next ==
  \/ Audio \/ ProcessCommit \/ ProcessStop \/ Resume
  \/ \E i \in DOMAIN s.sentences : FinalStep(i) \/ CancelFinal(i)
  \/ StopTimeout \/ SessionFinished \/ Finished

\* Safety only: a full output queue may hold up a second pass or STOP itself, which
\* module Delivery follows, and nothing obliges the client to say anything.
Spec == Init /\ [][Next]_vars

----------------------------------------------------------------------------
(* Properties.                                                             *)

Time == Nat \union {None}
Tokens == 1..s.tokens

SentenceType ==
  [start : Nat, end : Nat, provisional : Seq(Nat),
   task : {"running", "done", "cancelled"}, final : {"none", "text", "empty"}]

\* The type invariant of the session, its VAD cache and its clocks.
TypeOK ==
  /\ now \in Nat /\ wall \in Nat
  /\ vad \in [clock : Nat, last : Nat, open : BOOLEAN]
  /\ stop \in {"no", "waiting", "finished"}
  /\ s.inSpeech \in BOOLEAN
  /\ {s.speechStart, s.segmentStart, s.latch} \subseteq Time
  /\ {s.watermark, s.vadOrigin, s.held, s.tokens} \subseteq Nat
  /\ s.text \in Seq(Nat) /\ s.dropped \subseteq Nat
  /\ s.sentences \in Seq(SentenceType)

\* Sentences are nonempty intervals of audio already received, in order and
\* without overlap, whichever of the five cutters made them: the promise of the
\* watermark in _handle_sentence_endpoint.
SentencesOrdered ==
  /\ \A i \in DOMAIN s.sentences :
       s.sentences[i].start < s.sentences[i].end /\ s.sentences[i].end <= now
  /\ \A i, j \in DOMAIN s.sentences :
       i < j => s.sentences[i].end <= s.sentences[j].start

\* The VAD never runs ahead of the audio, and the session, the pipeline and the
\* VAD cache agree on whether an utterance is open: no COMMIT, forced cut or
\* resume leaves a start that no end will close, or an end without its start.
OneUtteranceOpen ==
  /\ s.vadOrigin + vad.clock <= now
  /\ ~Stopping => (s.inSpeech <=> vad.open) /\ (s.inSpeech <=> s.speechStart # None)

Holders(t) ==
  {i \in DOMAIN s.sentences : t \in Elems(s.sentences[i].provisional)}

\* Every token the first pass returned is in exactly one place: the provisional of
\* one sentence, the text waiting to be cut, or what was thrown away, by L0 on a
\* near-silent chunk or by the rate-limited watchdog; and sentences hold tokens in
\* the order in which they were returned.
TextConserved ==
  /\ \A t \in Tokens :
       Cardinality(Holders(t)) + (IF t \in s.dropped THEN 1 ELSE 0)
         + (IF t \in Elems(s.text) THEN 1 ELSE 0) = 1
  /\ \A i, j \in DOMAIN s.sentences : i < j =>
       \A t \in Elems(s.sentences[i].provisional), u \in Elems(s.sentences[j].provisional) : t < u

\* STOP hands every remaining token to a second pass: with the watchdog on, no
\* text is left that neither a sentence nor a discard accounts for, and no second
\* pass still changes what the transcript of session_finished shows.
NoTextLostAtStop ==
  /\ Stopping /\ WatchdogEnabled => s.text = <<>>
  /\ stop = "finished" => s.transcript = [i \in DOMAIN s.sentences |-> TranscriptText(s.sentences[i])]

\* Text gathered outside speech never outlives the watchdog's threshold, and an
\* open utterance never outlives the forced cut, whichever handler ran last.
AccumulationBounded ==
  ~Stopping =>
    /\ WatchdogEnabled /\ ~s.inSpeech => Len(s.text) < WatchdogMinChars
    /\ MaxSpeech > 0 /\ s.inSpeech => now - s.speechStart < MaxSpeech

\* No window of an hour holds more forced adjudications than the limit, although
\* the code forgets the older ones as it goes.
WatchdogRateLimited ==
  \A i \in DOMAIN s.forced :
    Cardinality({j \in DOMAIN s.forced :
                   s.forced[i] <= s.forced[j] /\ s.forced[j] <= s.forced[i] + Hour}) <= WatchdogLimit

Fate(r) == CASE r.task = "running" -> "open" [] r.task = "done" -> "final"
             [] OTHER -> "abandoned"

Log == INSTANCE SentenceLog WITH
  log <- [i \in DOMAIN s.sentences |->
            [start |-> s.sentences[i].start, end |-> s.sentences[i].end]],
  fate <- [i \in DOMAIN s.sentences |-> Fate(s.sentences[i])],
  closed <- stop = "finished"

\* The session implements the sentence log: append-only, each sentence settled at
\* most once, and nothing after session_finished.
ImplementsLog == Log!LogSpec

----------------------------------------------------------------------------
(* Refuted by a run of its own.                                            *)

\* fsmn_vad.py: after a reload "bound sessions resume seamlessly".  Then a start
\* the VAD reports is placed on the audio it was heard in, at most a lookback
\* before the end of the chunk.
StartsPlacedOnTime ==
  [][~s.inSpeech /\ s'.inSpeech => s'.speechStart >= now' - 1 - VadLookback]_vars
============================================================================

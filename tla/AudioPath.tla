------------------------------ MODULE AudioPath ------------------------------
(***************************************************************************)
(* The way of the audio of one session: a binary message passes the gate,  *)
(* is written to the ring buffer and given to the first pass               *)
(* (pipeline/session_pipeline.py, process_audio_chunk), whose stream ends  *)
(* with the sentence (_handle_sentence_endpoint) or is discarded.          *)
(***************************************************************************)
EXTENDS RingBuffer, FirstPass, FiniteSets

CONSTANT MaxFailed  \* bound: failures of one sentence

\* The limit of a message is a whole number of samples (32 bytes a millisecond, 2 s by
\* default): else cutting a message there would shift the samples of the next.  And every
\* frame there may be of the audio has a weight.
ASSUME AudioAssumption ==
  /\ (MaxFrameMs * BytesPerMs) % 2 = 0
  /\ 0..(MaxBytes \div (2 * FrameSamples) + 1) \subseteq DOMAIN Weight

VARIABLES
  stream,   \* session.streaming_cache
  sentence  \* history: the cache with which the last sentence ended, until audio comes

audioVars == <<vars, stream, sentence>>

AudioInit == Init /\ stream = NewCache /\ sentence = NewCache

\* frombuffer: a sample is the two bytes from a byte on; process_chunk cuts off half of one.
Samples(data) == [k \in 1..(Len(data) \div 2) |-> data[2 * k - 1]]

\* The chunk is in the buffer and the first pass has not heard it: the model is being
\* reloaded, silence is skipped, or something raised before, which _process_audio_safe
\* keeps from ending the connection.
Unheard == UNCHANGED stream

Bounded(os) == stream.failed + Cardinality({k \in DOMAIN os : os[k] # Success}) <= MaxFailed

\* process_audio_chunk
Hear(n) ==
  LET data == Arriving(Accepted(n))
  IN /\ Frame(n)
     /\ sentence' = NewCache
     /\ \/ \E os \in [1..WholeStrides(stream, Samples(data)) -> Outcomes] :
             /\ Bounded(os)
             /\ stream' = IF data = <<>> THEN stream ELSE ProcessChunk(stream, Samples(data), os)
        \/ Unheard

\* The sentence is cut: the stream is flushed if there is a model, and a new one begins.
EndSentence ==
  /\ \/ \E n \in TailFrames(stream.prev), os \in [1..2 -> Outcomes] :
          Bounded(os) /\ sentence' = Flush(stream, n, os)
     \/ stream.failed < MaxFailed /\ sentence' = Unflushed(stream)
  /\ stream' = NewCache
  /\ UNCHANGED vars

\* _discard_unsent_partial, and cleanup, after which the next session starts afresh.
Discard == stream' = NewCache /\ sentence' = NewCache /\ UNCHANGED vars
CleanUp == stream' = NewCache /\ sentence' = NewCache /\ Clear

AudioNext == (\E n \in Frames : Hear(n)) \/ EndSentence \/ Discard \/ CleanUp

AudioSpec == AudioInit /\ [][AudioNext]_audioVars

----------------------------------------------------------------------------
(* Properties.                                                             *)

\* The frames 1 to n, after the padding the first window looks ahead into.
FramesUpTo(n) == [k \in 1..After |-> Padding] \o [k \in 1..n |-> k]

Sum(weights) ==
  LET sum[k \in 0..Len(weights)] == IF k = 0 THEN 0 ELSE sum[k - 1] + weights[k]
  IN sum[Len(weights)]

\* Whatever the lengths of the frames a client sends, odd ones included, and whichever
\* forwards fail: the first pass cuts samples where the buffer does, every sample fed is
\* analysed once and in order or waits for its stride, and each frame but the right
\* context has had its turn once and in order, though it is in two windows or more: a
\* failure costs the turn it happens in and no other.  The weight of what was integrated
\* is never lost between two forwards, run one after another.  As long as none failed,
\* what had its turn is integrated once, and process_chunk got every token.
HeardOnce ==
  /\ \A k \in DOMAIN stream.fed : \E j \in 1..(Len(heard) \div 2) : stream.fed[k] = heard[2 * j - 1]
  /\ stream.fed = stream.analysed \o stream.prev
  /\ Len(stream.prev) < Stride /\ Len(stream.analysed) = stream.start * FrameSamples
  /\ stream.turns = IF stream.start = 0 THEN <<>> ELSE FramesUpTo(stream.start - After)
  /\ stream.fired * Threshold + stream.carry = Sum(Weights(stream.integrated))
  /\ stream.failed = 0 => stream.integrated = stream.turns /\ stream.tokens = stream.fired

\* A sentence none of whose forwards failed, and which did not end during a reload, is
\* recognised whole: the flush leaves less than a frame of it unheard, integrates what the
\* windows still held back, once, however long the tail is, and the tokens are those of
\* one pass over all its frames.  Of a sentence shorter than a stride the first pass says
\* nothing.
SentenceWhole ==
  /\ sentence.start = 0 => Len(sentence.fed) < Stride /\ sentence.tokens = 0
  /\ sentence.start > 0 /\ sentence.failed = 0 =>
       /\ sentence.integrated = FramesUpTo(sentence.start)
       /\ Len(sentence.fed) - Len(sentence.analysed) < FrameSamples
       /\ sentence.tokens = (Sum(Weights(sentence.integrated)) + TailWeight) \div Threshold
============================================================================

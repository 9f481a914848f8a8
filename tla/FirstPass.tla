----------------------------- MODULE FirstPass -----------------------------
(***************************************************************************)
(* How the streaming first pass takes in one sentence                      *)
(* (core/streaming_asr/onnx_batched_streaming.py): samples are gathered to *)
(* strides, a stride becomes frames of features, each forward sees a       *)
(* window of frames that overlaps the last, and the continuous             *)
(* integrate-and-fire (CIF) turns the weights of the frames that are its   *)
(* turn into tokens.                                                       *)
(*                                                                         *)
(* A frame is its number in the sentence, a token is counted.  The         *)
(* frontend and the encoder are external: a stride yields Middle frames, a *)
(* tail one frame per FrameSamples and perhaps one more, and a frame has a *)
(* weight, whatever the window it is seen in.  ForwardBatcher says how     *)
(* forwards of several streams are run together, and what may become of    *)
(* one: here it is an outcome, which the stream does not choose.  A        *)
(* request its caller has given up is run here before the stream's next    *)
(* one, or never: one that waits so long that it meets the next one in a   *)
(* batch, or the cache of the next sentence, is in ForwardBatcher only.    *)
(***************************************************************************)
EXTENDS Integers, Sequences

CONSTANTS
  Before, Middle, After,  \* chunk_size: left context, current, right context
  FrameSamples,           \* samples of a frame: 960
  Threshold, TailWeight,  \* _cif_threshold and _tail_threshold, scaled to integers
  Weight                  \* alphas: the weight of each frame, 0 being the padding

\* settings.py:428: Paraformer requires a left context.
ASSUME FirstPassAssumption ==
  /\ {Before, Middle, FrameSamples, Threshold} \subseteq Nat \ {0}
  /\ After \in 0..Middle /\ TailWeight \in 0..Threshold
  /\ \A f \in DOMAIN Weight : f \in Nat /\ Weight[f] \in 0..Threshold

Padding == 0
Stride == Middle * FrameSamples  \* _chunk_stride_samples

\* The last n elements of a sequence that has as many.
LastOf(seq, n) == SubSeq(seq, Len(seq) - n + 1, Len(seq))

\* The cache of a stream: _prev_samples, start_idx, feats and cif_alphas; and as
\* history what the sentence was fed, what of it went to the frontend, the frames that
\* had their turn in a forward, those integrated, the tokens fired, those of them that
\* process_chunk got, and how many forwards of the sentence failed.
NewCache ==
  [prev |-> <<>>, start |-> 0, feats |-> [k \in 1..(Before + After) |-> Padding], carry |-> 0,
   fed |-> <<>>, analysed |-> <<>>, turns |-> <<>>, integrated |-> <<>>, fired |-> 0,
   tokens |-> 0, failed |-> 0]

----------------------------------------------------------------------------
(* One forward.                                                            *)

\* The loop body of _cif_search.
Integrate(acc, alpha) ==
  IF acc.sum + alpha < Threshold THEN [acc EXCEPT !.sum = @ + alpha]
  ELSE [sum |-> acc.sum + alpha - Threshold, fired |-> acc.fired + 1]

\* The loop itself, over all weights.
IntegrateAll(fired, alphas) ==
  LET acc[k \in 0..Len(alphas)] ==
        IF k = 0 THEN [sum |-> 0, fired |-> fired] ELSE Integrate(acc[k - 1], alphas[k])
  IN acc[Len(alphas)]

\* The leftover of the last forward comes first.
CifSearch(s, weights) ==
  LET acc == IntegrateAll(s.fired, <<s.carry>> \o weights)
  IN [s EXCEPT !.carry = acc.sum, !.fired = acc.fired]

Weights(frames) == [k \in DOMAIN frames |-> Weight[frames[k]]]

\* How often a request is run as far as the scatter of the CIF cache, and whether submit
\* returns the tokens of the last run.  It does not when it times out, the model is
\* unloaded or the run fails, before the scatter or in the decoder; and a merged run that
\* fails in the decoder is repeated alone.
Outcomes == {o \in [times : 0..2, read : BOOLEAN] : o.read => o.times > 0}
Success == [times |-> 1, read |-> TRUE]

Run(s, turn, weights) == CifSearch([s EXCEPT !.integrated = @ \o turn], weights)

\* submit: what the frames of a turn come to.
Submit(s, turn, weights, o) ==
  LET due   == [s EXCEPT !.turns = @ \o turn, !.failed = IF o = Success THEN @ ELSE @ + 1]
      once  == Run(due, turn, weights)
      twice == Run(once, turn, weights)
      got   == IF ~o.read THEN 0
               ELSE IF o.times = 1 THEN once.fired - due.fired ELSE twice.fired - once.fired
  IN [CASE o.times = 0 -> due [] o.times = 1 -> once [] OTHER -> twice EXCEPT !.tokens = @ + got]

\* Of the frames in the window the left context has no weight, and except in the last
\* forward the right context neither.
Forward(s, window, last, o) ==
  LET turn == SubSeq(window, Before + 1, IF last THEN Len(window) ELSE Before + Middle)
  IN Submit(s, turn, IF last THEN Append(Weights(turn), TailWeight) ELSE Weights(turn), o)

----------------------------------------------------------------------------
(* _prepare_requests: the frames of a chunk, and the forwards they need.   *)

\* extract_fbank: n frames of the chunk; start_idx moves on.
Extracted(s, chunk, n) == [s EXCEPT !.start = @ + n, !.analysed = @ \o chunk]
NewFrames(s, n) == [k \in 1..n |-> s.start + k]

\* A stride: the window is the frames kept and the new ones.
Chunk(s, chunk, o) ==
  LET window == s.feats \o NewFrames(s, Middle)
  IN Forward([Extracted(s, chunk, Middle) EXCEPT !.feats = LastOf(window, Before + After)],
             window, FALSE, o)

\* Fault: a large tail is taken in one forward.
LastChunkUnsplit(s, chunk, n, os) ==
  LET window == s.feats \o NewFrames(s, n)
      size   == IF Len(window) > Before + Middle THEN Before + Middle ELSE Len(window)
  IN IF Len(chunk) < FrameSamples THEN Forward(s, s.feats, TRUE, os[1])
     ELSE Forward(Extracted(s, chunk, n), LastOf(window, size), TRUE, os[1])

\* The tail of a sentence, of n frames: less than a frame leaves the frames kept; a
\* tail that fits is the last window; a larger one is taken in two.
LastChunk(s, chunk, n, os) ==
  LET window == s.feats \o NewFrames(s, n)
      beyond == n + After - Middle
      kept   == [Extracted(s, chunk, n) EXCEPT !.feats = LastOf(window, Before)]
      first  == Forward(kept, window, FALSE, os[1])
  IN IF Len(chunk) < FrameSamples THEN Forward(s, s.feats, TRUE, os[1])
     ELSE IF beyond <= 0 THEN Forward(Extracted(s, chunk, n), window, TRUE, os[1])
     ELSE Forward(first, first.feats \o LastOf(NewFrames(s, n), beyond), TRUE, os[2])

----------------------------------------------------------------------------
(* process_chunk and flush; os are the outcomes of their forwards.         *)

\* The first n strides of the audio, one after another.
Strides(s, audio, n, os) ==
  LET done[k \in 0..n] ==
        IF k = 0 THEN s
        ELSE Chunk(done[k - 1], SubSeq(audio, (k - 1) * Stride + 1, k * Stride), os[k])
  IN done[n]

\* The strides there are with the samples.
WholeStrides(s, samples) == Len(s.prev \o samples) \div Stride

\* Fault: the samples short of a stride are dropped.
ProcessChunkRounded(s, samples, os) ==
  Strides([s EXCEPT !.fed = @ \o samples], samples, Len(samples) \div Stride, os)

\* All whole strides; the rest waits.
ProcessChunk(s, samples, os) ==
  LET audio == s.prev \o samples
      n     == WholeStrides(s, samples)
  IN [Strides([s EXCEPT !.fed = @ \o samples], audio, n, os) EXCEPT
        !.prev = SubSeq(audio, n * Stride + 1, Len(audio))]

\* The frames the frontend may find in a tail.
TailFrames(chunk) ==
  LET n == Len(chunk) \div FrameSamples
  IN {n, IF n < Middle THEN n + 1 ELSE n}

\* flush, with n frames in what waits; without a stride so far there is nothing.
Flush(s, n, os) == IF s.start = 0 THEN s ELSE LastChunk(s, s.prev, n, os)

\* flush while the model is being reloaded returns at once.
Unflushed(s) == [s EXCEPT !.failed = @ + 1]
============================================================================

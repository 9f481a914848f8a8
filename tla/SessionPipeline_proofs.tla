----------------------- MODULE SessionPipeline_proofs -----------------------
(***************************************************************************)
(* What holds of a session for every configuration and any length of       *)
(* audio: its types; that the sentences it cuts are ordered, disjoint      *)
(* intervals of audio already received, and an append-only log; that no    *)
(* token of its text is lost or shown twice; and that the watchdog and the *)
(* forced cut bound what is left to gather, within the hour's limit.       *)
(*                                                                         *)
(* The handlers compose methods, so the invariant is stated of a session   *)
(* record and a time, Sound(q, t) of its clocks and sentences and          *)
(* Tidy(q, l, t, w) of its text, and one lemma per method says that the    *)
(* method keeps each.                                                      *)
(***************************************************************************)
EXTENDS SessionPipeline, SequenceTheorems, FiniteSetTheorems, WellFoundedInduction, TLAPS

\* The sentences end at or before the watermark, and each begins at or after the
\* end of those before it.
WellCut(l, w) ==
  /\ l \in Seq(SentenceType)
  /\ \A i \in DOMAIN l : l[i].start < l[i].end /\ l[i].end <= w
  /\ \A i, j \in DOMAIN l : i < j => l[i].end <= l[j].start

Typed(q) ==
  /\ DOMAIN q = DOMAIN NewSession
  /\ q.inSpeech \in BOOLEAN
  /\ q.segmentStart \in Time /\ q.latch \in Time /\ q.speechStart \in Time
  /\ q.watermark \in Nat /\ q.vadOrigin \in Nat /\ q.held \in Nat /\ q.tokens \in Nat
  /\ q.text \in Seq(Nat) /\ q.dropped \subseteq Nat

\* A session whose audio has come up to time t.
Sound(q, t) ==
  /\ Typed(q)
  /\ q.watermark <= t /\ q.vadOrigin <= t /\ q.speechStart <= t
  /\ WellCut(q.sentences, q.watermark)

\* p has the clock and the utterance of q.
SameUtterance(p, q) ==
  p.vadOrigin = q.vadOrigin /\ p.speechStart = q.speechStart /\ p.inSpeech = q.inSpeech

\* The durations of the configuration are numbers.
LEMMA ConfigTypes ==
  /\ MaxSpeech \in Nat /\ CommitWindow \in Nat /\ EndWindow \in Nat
  /\ WatchdogMinChars \in Nat /\ WatchdogSpan \in Nat /\ VadLookback \in Nat
  /\ WatchdogLimit \in Nat /\ Hour \in Nat /\ CommitWindow > 0
  /\ ChunkLengths \subseteq Nat /\ Gaps \subseteq Nat /\ MaxConfirm \in Nat
  /\ \A d \in ChunkLengths : d \in Nat /\ d > 0
  /\ \A gap \in Gaps : gap \in Nat
BY ConfigAssumption

\* Confirmed tokens are numbers.
LEMMA ElemsType == ASSUME NEW a \in Seq(Nat) PROVE Elems(a) \subseteq Nat
BY DEF Elems

LEMMA FreshType == ASSUME NEW n \in Nat, NEW k \in Nat PROVE Fresh(n, k) \in Seq(Nat)
BY DEF Fresh

\* A cut beyond the watermark keeps the sentences in order.
LEMMA CutSound ==
  ASSUME NEW q, NEW t \in Nat, Sound(q, t), NEW from \in Nat, NEW end \in Nat,
         q.watermark <= from, from < end, end <= t
  PROVE  Sound(Cut(q, from, end), t) /\ SameUtterance(Cut(q, from, end), q)
<1> DEFINE r == [start |-> from, end |-> end, provisional |-> q.text \o Fresh(q.tokens, q.held),
                 task |-> "running", final |-> "none"]
           c == Cut(q, from, end)
<1>1. q.text \in Seq(Nat) /\ q.tokens \in Nat /\ q.held \in Nat /\ q.watermark \in Nat
      /\ WellCut(q.sentences, q.watermark)
  BY DEF Sound, Typed
<1>2. r \in SentenceType
  <2>1. Fresh(q.tokens, q.held) \in Seq(Nat)
    BY <1>1, FreshType
  <2>2. q.text \o Fresh(q.tokens, q.held) \in Seq(Nat)
    BY <1>1, <2>1
  <2> QED BY <2>2 DEF SentenceType
<1>3. WellCut(Append(q.sentences, r), end)
  <2> DEFINE l == q.sentences
             m == Append(l, r)
  <2> HIDE DEF r
  <2>1. l \in Seq(SentenceType) /\ r \in SentenceType /\ r.start = from /\ r.end = end
    BY <1>1, <1>2 DEF WellCut, r
  <2>2. /\ m \in Seq(SentenceType) /\ DOMAIN m = 1..(Len(l) + 1) /\ DOMAIN l = 1..Len(l)
        /\ \A i \in 1..Len(l) : m[i] = l[i]
        /\ m[Len(l) + 1] = r /\ Len(l) \in Nat
    BY <2>1
  <2> HIDE DEF m
  <2>3. \A i \in 1..Len(l) : l[i].start < l[i].end /\ l[i].end <= q.watermark
                             /\ l[i].start \in Nat /\ l[i].end \in Nat
    <3>1. \A i \in 1..Len(l) : l[i] \in SentenceType
      BY <2>1
    <3>2. \A i \in 1..Len(l) : l[i].start \in Nat /\ l[i].end \in Nat
      BY <3>1 DEF SentenceType
    <3> QED BY <1>1, <2>2, <3>2 DEF WellCut
  <2>4. \A i \in DOMAIN m : m[i].start < m[i].end /\ m[i].end <= end
    <3> SUFFICES ASSUME NEW i \in DOMAIN m PROVE m[i].start < m[i].end /\ m[i].end <= end
      OBVIOUS
    <3>1. CASE i = Len(l) + 1
      BY <2>1, <2>2, <3>1
    <3>2. CASE i \in 1..Len(l)
      <4>1. m[i] = l[i] /\ l[i].start < l[i].end /\ l[i].end <= q.watermark /\ l[i].end \in Nat
        BY <2>2, <2>3, <3>2
      <4> HIDE DEF l
      <4> QED BY <1>1, <4>1
    <3> QED BY <2>2, <3>1, <3>2
  <2>5. \A i, j \in DOMAIN m : i < j => m[i].end <= m[j].start
    <3> SUFFICES ASSUME NEW i \in DOMAIN m, NEW j \in DOMAIN m, i < j
                 PROVE  m[i].end <= m[j].start
      OBVIOUS
    <3>1. i \in 1..Len(l) /\ m[i] = l[i]
      BY <2>2
    <3>2. CASE j = Len(l) + 1
      <4>1. m[j].start = from /\ q.watermark <= from
        BY <1>1, <2>1, <2>2, <3>2
      <4>2. m[i].end <= q.watermark /\ m[i].end \in Nat
        BY <2>3, <3>1
      <4> HIDE DEF l, m
      <4> QED BY <1>1, <4>1, <4>2
    <3>3. CASE j \in 1..Len(l)
      BY <1>1, <2>2, <3>1, <3>3 DEF WellCut
    <3> QED BY <2>2, <3>2, <3>3
  <2> QED BY <2>2, <2>4, <2>5 DEF WellCut, m
<1>4. /\ c.sentences = Append(q.sentences, r) /\ c.watermark = end
      /\ c.vadOrigin = q.vadOrigin /\ c.speechStart = q.speechStart /\ c.inSpeech = q.inSpeech
  BY DEF Cut, Sound, Typed, NewSession
<1>5. Typed(c)
  BY DEF Cut, Sound, Typed, NewSession, Time, None
<1> QED BY <1>3, <1>4, <1>5 DEF Sound, SameUtterance

\* The clamp to the watermark makes any interval safe to cut.
LEMMA EndpointSound ==
  ASSUME NEW q, NEW t \in Nat, Sound(q, t), NEW start \in Nat, NEW end \in Int, end <= t
  PROVE  /\ Sound(SentenceEndpoint(q, start, end), t)
         /\ SameUtterance(SentenceEndpoint(q, start, end), q)
<1> DEFINE from == Larger(start, q.watermark)
<1>1. from \in Nat /\ q.watermark \in Nat /\ q.watermark <= from
  BY DEF Larger, Sound, Typed
<1>2. CASE end <= from
  BY <1>2 DEF SentenceEndpoint, SameUtterance
<1>3. CASE from < end
  <2>1. end \in Nat /\ SentenceEndpoint(q, start, end) = Cut(q, from, end)
    BY <1>1, <1>3 DEF SentenceEndpoint
  <2> QED BY <1>1, <1>3, <2>1, CutSound
<1> QED BY <1>1, <1>2, <1>3

\* Sentences stay in order when the watermark moves on.
LEMMA LaterWatermark ==
  ASSUME NEW l, NEW w \in Nat, NEW u \in Nat, w <= u, WellCut(l, w)
  PROVE  WellCut(l, u)
<1>1. \A i \in DOMAIN l : l[i] \in SentenceType
  BY DEF WellCut
<1>2. \A i \in DOMAIN l : l[i].end \in Nat
  BY <1>1 DEF SentenceType
<1>3. \A i \in DOMAIN l : l[i].start < l[i].end /\ l[i].end <= u
  <2> SUFFICES ASSUME NEW i \in DOMAIN l PROVE l[i].start < l[i].end /\ l[i].end <= u
    OBVIOUS
  <2>1. l[i].end \in Nat /\ l[i].start < l[i].end /\ l[i].end <= w
    BY <1>2 DEF WellCut
  <2> QED BY <2>1
<1> QED BY <1>3 DEF WellCut

\* A VAD start opens an utterance, if it reports one.
LEMMA VadStartSound ==
  ASSUME NEW q, NEW t \in Nat, Sound(q, t), NEW start \in Time, start <= t
  PROVE  LET p == VadStart(q, start)
         IN /\ Sound(p, t) /\ p.vadOrigin = q.vadOrigin
            /\ p.inSpeech = (IF start = None THEN q.inSpeech ELSE TRUE)
            /\ p.speechStart = IF start = None THEN q.speechStart ELSE start
BY DEF VadStart, Sound, Typed, NewSession, Time, None

\* Closing an utterance forgets its start.
LEMMA CloseSound ==
  ASSUME NEW q, NEW t \in Nat, Sound(q, t)
  PROVE  LET p == CloseUtterance(q)
         IN /\ Sound(p, t) /\ p.vadOrigin = q.vadOrigin
            /\ p.inSpeech = FALSE /\ p.speechStart = None /\ p.watermark = q.watermark
BY DEF CloseUtterance, Sound, Typed, NewSession, Time, None

\* A VAD end closes the utterance, if it reports one.
LEMMA VadEndSound ==
  ASSUME NEW q, NEW t \in Nat, Sound(q, t), NEW end \in Time, end <= t
  PROVE  LET p == VadEnd(q, end)
         IN /\ Sound(p, t) /\ p.vadOrigin = q.vadOrigin
            /\ p.inSpeech = (IF end = None THEN q.inSpeech ELSE FALSE)
            /\ p.speechStart = IF end = None THEN q.speechStart ELSE None
<1>1. CASE end = None
  BY <1>1 DEF VadEnd, Sound, Typed
<1>2. CASE end # None
  <2> DEFINE known == IF q.speechStart # None THEN q.speechStart ELSE Larger(0, end - EndWindow)
             from  == Larger(known, q.watermark)
             c     == CloseUtterance(q)
  <2>1. VadEnd(q, end) = SentenceEndpoint(c, from, Larger(end, from))
    BY <1>2 DEF VadEnd
  <2>2. known \in Nat /\ known <= t
    <3>1. CASE q.speechStart # None
      BY <3>1 DEF Sound, Typed, Time, None
    <3>2. CASE q.speechStart = None
      <4>1. known = Larger(0, end - EndWindow)
        BY <3>2
      <4> QED BY <1>2, <4>1, ConfigTypes DEF Larger, Time, None
    <3> QED BY <3>1, <3>2
  <2>3. from \in Nat /\ from <= t
    BY <2>2 DEF Larger, Sound, Typed
  <2>4. Larger(end, from) \in Nat /\ Larger(end, from) <= t
    BY <1>2, <2>3 DEF Larger, Time, None
  <2> HIDE DEF from, known
  <2>5. Sound(c, t) /\ c.vadOrigin = q.vadOrigin /\ c.inSpeech = FALSE /\ c.speechStart = None
    BY CloseSound
  <2> HIDE DEF c
  <2>6. Sound(VadEnd(q, end), t) /\ SameUtterance(VadEnd(q, end), c)
    <3> DEFINE e == Larger(end, from)
    <3>1. e \in Int /\ e <= t
      BY <2>4
    <3> HIDE DEF e
    <3>2. Sound(SentenceEndpoint(c, from, e), t) /\ SameUtterance(SentenceEndpoint(c, from, e), c)
      BY <2>3, <2>5, <3>1, EndpointSound
    <3> QED BY <2>1, <3>2 DEF e
  <2> QED BY <1>2, <2>5, <2>6 DEF SameUtterance
<1> QED BY <1>1, <1>2

\* A boundary the VAD reports, on the timeline of the ring buffer.
LEMMA VadToRingSound ==
  ASSUME NEW q, NEW t \in Nat, Sound(q, t), NEW b \in Time, b # None => b + q.vadOrigin <= t
  PROVE  /\ VadToRing(q, b) \in Time /\ VadToRing(q, b) <= t
         /\ VadToRing(q, b) = None <=> b = None
BY DEF VadToRing, Sound, Typed, Time, None

\* One segment: whatever it reports, the utterance is what it says.
LEMMA SegmentSound ==
  ASSUME NEW q, NEW t \in Nat, Sound(q, t), NEW seg, seg.start \in Time, seg.end \in Time,
         seg.start # None => seg.start + q.vadOrigin <= t,
         seg.end # None => seg.end + q.vadOrigin <= t
  PROVE  LET p == HandleVadSegment(q, seg)
         IN /\ Sound(p, t) /\ p.vadOrigin = q.vadOrigin
            /\ seg.end # None => ~p.inSpeech /\ p.speechStart = None
            /\ seg.end = None /\ seg.start # None => p.inSpeech /\ p.speechStart # None
            /\ seg.end = None /\ seg.start = None => SameUtterance(p, q)
<1> DEFINE a == VadToRing(q, seg.start)
           b == VadToRing(q, seg.end)
           r == VadStart(q, a)
<1>1. /\ a \in Time /\ a <= t /\ (a = None <=> seg.start = None)
      /\ b \in Time /\ b <= t /\ (b = None <=> seg.end = None)
  <2>1. a \in Time /\ a <= t /\ (a = None <=> seg.start = None)
    BY VadToRingSound
  <2>2. b \in Time /\ b <= t /\ (b = None <=> seg.end = None)
    BY VadToRingSound
  <2> QED BY <2>1, <2>2
<1>2. HandleVadSegment(q, seg) = VadEnd(r, b)
  BY DEF HandleVadSegment
<1> HIDE DEF a, b
<1>3. /\ Sound(r, t) /\ r.vadOrigin = q.vadOrigin
      /\ r.inSpeech = (IF a = None THEN q.inSpeech ELSE TRUE)
      /\ r.speechStart = IF a = None THEN q.speechStart ELSE a
  BY <1>1, VadStartSound
<1> HIDE DEF r
<1>4. LET p == VadEnd(r, b)
      IN /\ Sound(p, t) /\ p.vadOrigin = r.vadOrigin
         /\ p.inSpeech = (IF b = None THEN r.inSpeech ELSE FALSE)
         /\ p.speechStart = IF b = None THEN r.speechStart ELSE None
  BY <1>1, <1>3, VadEndSound
<1> QED BY <1>1, <1>2, <1>3, <1>4 DEF SameUtterance

\* Latching a start and showing a partial leave the sentences alone.
LEMMA PartialSound ==
  ASSUME NEW q, NEW t \in Nat, Sound(q, t), NEW hadNewTokens \in BOOLEAN
  PROVE  /\ Sound(MaybeEmitPartial(q, t, hadNewTokens), t)
         /\ SameUtterance(MaybeEmitPartial(q, t, hadNewTokens), q)
<1> DEFINE latched == IF q.segmentStart = None /\ q.latch < 0
                      THEN Larger(0, t - CommitWindow) ELSE q.latch
<1>1. latched \in Time
  BY ConfigTypes DEF Larger, Sound, Typed, Time, None
<1>2. CASE ~hadNewTokens \/ q.text = <<>>
  BY <1>2 DEF MaybeEmitPartial, SameUtterance
<1>3. CASE ~(~hadNewTokens \/ q.text = <<>>)
  <2>1. MaybeEmitPartial(q, t, hadNewTokens)
          = [q EXCEPT !.latch = latched]
    BY <1>3 DEF MaybeEmitPartial
  <2> HIDE DEF latched
  <2> QED BY <1>1, <2>1 DEF Sound, Typed, NewSession, SameUtterance
<1> QED BY <1>2, <1>3

\* The forced cut of an open utterance keeps it open, from the cut on.
LEMMA ForceCutSound ==
  ASSUME NEW q, NEW t \in Nat, Sound(q, t)
  PROVE  LET p == ForceCut(q, t)
         IN /\ Sound(p, t) /\ p.vadOrigin = q.vadOrigin /\ p.inSpeech = q.inSpeech
            /\ p.speechStart = None <=> q.speechStart = None
<1> DEFINE due == MaxSpeech > 0 /\ q.inSpeech /\ q.speechStart # None /\ t - q.speechStart >= MaxSpeech
           e == SentenceEndpoint(q, q.speechStart, t)
<1>1. CASE ~due
  BY <1>1 DEF ForceCut
<1>2. CASE due
  <2>1. q.speechStart \in Nat
    BY <1>2 DEF Sound, Typed, Time, None
  <2>2. Sound(e, t) /\ SameUtterance(e, q)
    BY <2>1, EndpointSound
  <2>3. ForceCut(q, t) = [e EXCEPT !.speechStart = t, !.segmentStart = t, !.watermark = t]
    BY <1>2 DEF ForceCut
  <2> HIDE DEF e, due
  <2>4. WellCut(e.sentences, t)
    <3>1. WellCut(e.sentences, e.watermark) /\ e.watermark \in Nat /\ e.watermark <= t
      BY <2>2 DEF Sound, Typed
    <3> QED BY <3>1, LaterWatermark
  <2> QED BY <2>1, <2>2, <2>3, <2>4 DEF Sound, Typed, NewSession, SameUtterance, Time, None
<1> QED BY <1>1, <1>2

\* Throwing the text away moves the watermark over its audio.
LEMMA DiscardSound ==
  ASSUME NEW q, NEW t \in Nat, Sound(q, t)
  PROVE  Sound(DiscardUnsentPartial(q, t), t) /\ SameUtterance(DiscardUnsentPartial(q, t), q)
<1> DEFINE p == DiscardUnsentPartial(q, t)
           w == Larger(q.watermark, t)
           gone == Elems(q.text \o Fresh(q.tokens, q.held))
<1>1. q.watermark \in Nat /\ q.watermark <= t /\ w = t
  BY DEF Sound, Typed, Larger
<1>2. /\ q.dropped \union gone \subseteq Nat
      /\ q.tokens + q.held \in Nat
  <2>1. q.text \in Seq(Nat) /\ q.tokens \in Nat /\ q.held \in Nat /\ q.dropped \subseteq Nat
    BY DEF Sound, Typed
  <2>2. q.text \o Fresh(q.tokens, q.held) \in Seq(Nat)
    <3>1. Fresh(q.tokens, q.held) \in Seq(Nat)
      BY <2>1, FreshType
    <3> QED BY <2>1, <3>1
  <2>3. gone \subseteq Nat
    BY <2>2, ElemsType
  <2> QED BY <2>1, <2>3
<1>3. WellCut(q.sentences, t)
  BY <1>1, LaterWatermark DEF Sound
<1>4. p = [q EXCEPT !.dropped = q.dropped \union gone, !.text = <<>>,
                    !.held = 0, !.tokens = q.tokens + q.held,
                    !.watermark = t, !.segmentStart = None, !.latch = None]
  BY <1>1 DEF DiscardUnsentPartial
<1> HIDE DEF p, gone
<1>5. /\ p.sentences = q.sentences /\ p.watermark = t /\ p.vadOrigin = q.vadOrigin
      /\ p.speechStart = q.speechStart /\ p.inSpeech = q.inSpeech
      /\ p.inSpeech \in BOOLEAN
      /\ p.dropped = q.dropped \union gone /\ p.text = <<>>
      /\ p.held = 0 /\ p.segmentStart = None /\ p.latch = None /\ p.tokens = q.tokens + q.held
      /\ DOMAIN p = DOMAIN q
  BY <1>4 DEF Sound, Typed, NewSession
<1>6. <<>> \in Seq(Nat) /\ None \in Time
  BY DEF Time
<1>7. Typed(p)
  BY <1>2, <1>5, <1>6 DEF Sound, Typed
<1>8. WellCut(p.sentences, p.watermark) /\ p.vadOrigin <= t /\ p.speechStart <= t /\ p.watermark <= t
  BY <1>3, <1>5 DEF Sound
<1>9. Sound(p, t) /\ SameUtterance(p, q)
  BY <1>5, <1>7, <1>8 DEF Sound, SameUtterance
<1> QED BY <1>9 DEF p

\* Forgetting or remembering forced cuts changes nothing else.
LEMMA ForceTimesSound ==
  ASSUME NEW q, NEW t \in Nat, Sound(q, t), NEW f, NEW g
  PROVE  LET p == [q EXCEPT !.forceTimes = f]
             r == [q EXCEPT !.forceTimes = f, !.forced = g]
         IN Sound(p, t) /\ SameUtterance(p, q) /\ Sound(r, t) /\ SameUtterance(r, q)
BY DEF Sound, Typed, NewSession, SameUtterance

\* The watchdog, whichever way it decides.
LEMMA WatchdogSound ==
  ASSUME NEW q, NEW t \in Nat, NEW w \in Nat, Sound(q, t)
  PROVE  Sound(MaybeWatchdog(q, t, w), t) /\ SameUtterance(MaybeWatchdog(q, t, w), q)
<1> DEFINE r    == WithinHour(q, w)
           m    == [r EXCEPT !.forceTimes = Append(@, w), !.forced = Append(@, w)]
           from == Larger(q.watermark, t - WatchdogSpan)
           cut  == SentenceEndpoint(m, from, t)
<1>1. \/ MaybeWatchdog(q, t, w) = q
      \/ MaybeWatchdog(q, t, w) = DiscardUnsentPartial(r, t)
      \/ MaybeWatchdog(q, t, w) = DiscardUnsentPartial(cut, t)
      \/ MaybeWatchdog(q, t, w) = cut
  BY DEF MaybeWatchdog
<1>2. from \in Nat
  BY ConfigTypes DEF Larger, Sound, Typed
<1>3. Sound(r, t) /\ SameUtterance(r, q)
  BY ForceTimesSound DEF WithinHour
<1> HIDE DEF r
<1>4. Sound(m, t) /\ SameUtterance(m, r)
  BY <1>3, ForceTimesSound
<1> HIDE DEF m, from
<1>5. Sound(cut, t) /\ SameUtterance(cut, m)
  BY <1>2, <1>4, EndpointSound
<1> HIDE DEF cut
<1>6. Sound(DiscardUnsentPartial(r, t), t) /\ SameUtterance(DiscardUnsentPartial(r, t), r)
  BY <1>3, DiscardSound
<1>7. Sound(DiscardUnsentPartial(cut, t), t) /\ SameUtterance(DiscardUnsentPartial(cut, t), cut)
  BY <1>5, DiscardSound
<1> QED BY <1>1, <1>3, <1>4, <1>5, <1>6, <1>7 DEF SameUtterance

\* What the streaming engine confirms; and the audio that comes with it.
LEMMA AccumulateSound ==
  ASSUME NEW q, NEW t \in Nat, Sound(q, t), NEW u \in Nat, t <= u,
         NEW k \in Nat, NEW h \in Nat, NEW silent \in BOOLEAN
  PROVE  Sound(Accumulate(q, k, h, silent), u) /\ SameUtterance(Accumulate(q, k, h, silent), q)
<1> DEFINE txt  == q.text \o Fresh(q.tokens, k)
           gone == q.dropped \union Elems(Fresh(q.tokens, k))
<1>1. q.tokens \in Nat /\ q.text \in Seq(Nat) /\ q.dropped \subseteq Nat
  BY DEF Sound, Typed
<1>2. Fresh(q.tokens, k) \in Seq(Nat)
  BY <1>1, FreshType
<1>3. txt \in Seq(Nat) /\ q.tokens + k \in Nat
  BY <1>1, <1>2
<1>4. gone \subseteq Nat
  BY <1>1, <1>2, ElemsType
<1>5. Accumulate(q, k, h, silent) =
        IF silent THEN [q EXCEPT !.dropped = gone, !.tokens = q.tokens + k, !.held = h]
        ELSE [q EXCEPT !.text = txt, !.tokens = q.tokens + k, !.held = h]
  BY DEF Accumulate
<1> HIDE DEF txt, gone
<1>6. q.watermark <= u /\ q.vadOrigin <= u /\ q.speechStart <= u
  BY DEF Sound, Typed, Time, None
<1> DEFINE p == Accumulate(q, k, h, silent)
<1>7. p.sentences = q.sentences /\ p.watermark = q.watermark /\ SameUtterance(p, q)
  BY <1>5 DEF Sound, Typed, NewSession, SameUtterance
<1>8. Typed(p)
  BY <1>3, <1>4, <1>5 DEF Sound, Typed, NewSession
<1> HIDE DEF p
<1>9. Sound(p, u)
  BY <1>6, <1>7, <1>8 DEF Sound, SameUtterance
<1> QED BY <1>7, <1>9 DEF p

----------------------------------------------------------------------------
(* The tokens of a text.                                                   *)

\* The tokens of a text that goes on, and of freshly confirmed ones.
LEMMA ElemsConcat ==
  ASSUME NEW a \in Seq(Nat), NEW b \in Seq(Nat)
  PROVE  Elems(a \o b) = Elems(a) \union Elems(b)
<1> DEFINE c == a \o b
<1>1. /\ c \in Seq(Nat) /\ Len(c) = Len(a) + Len(b) /\ Len(a) \in Nat /\ Len(b) \in Nat
      /\ \A i \in 1..Len(a) : c[i] = a[i]
      /\ \A i \in 1..Len(b) : c[Len(a) + i] = b[i]
      /\ DOMAIN a = 1..Len(a) /\ DOMAIN b = 1..Len(b) /\ DOMAIN c = 1..Len(c)
  OBVIOUS
<1> HIDE DEF c
<1>2. ASSUME NEW i \in DOMAIN c PROVE c[i] \in Elems(a) \union Elems(b)
  <2>1. CASE i <= Len(a)
    BY <1>1, <2>1 DEF Elems
  <2>2. CASE i > Len(a)
    <3>1. i - Len(a) \in 1..Len(b) /\ i = Len(a) + (i - Len(a))
      BY <1>1, <2>2
    <3>2. c[i] = b[i - Len(a)]
      BY <1>1, <3>1
    <3> QED BY <1>1, <3>1, <3>2 DEF Elems
  <2> QED BY <1>1, <2>1, <2>2
<1>3. ASSUME NEW i \in DOMAIN a PROVE a[i] \in Elems(c)
  BY <1>1 DEF Elems
<1>4. ASSUME NEW i \in DOMAIN b PROVE b[i] \in Elems(c)
  <2>1. Len(a) + i \in DOMAIN c /\ c[Len(a) + i] = b[i]
    BY <1>1
  <2> QED BY <2>1 DEF Elems
<1>5. Elems(c) = Elems(a) \union Elems(b)
  BY <1>2, <1>3, <1>4 DEF Elems
<1> QED BY <1>5 DEF c

LEMMA ElemsFresh ==
  ASSUME NEW n \in Nat, NEW k \in Nat
  PROVE  Elems(Fresh(n, k)) = (n + 1)..(n + k)
<1>1. ASSUME NEW t \in (n + 1)..(n + k) PROVE t \in Elems(Fresh(n, k))
  <2>1. t - n \in 1..k /\ t = n + (t - n)
    OBVIOUS
  <2>2. Fresh(n, k)[t - n] = t /\ DOMAIN Fresh(n, k) = 1..k
    BY <2>1 DEF Fresh
  <2> QED BY <2>1, <2>2 DEF Elems
<1>2. ASSUME NEW i \in 1..k PROVE Fresh(n, k)[i] = n + i /\ n + i \in (n + 1)..(n + k)
  BY DEF Fresh
<1>3. DOMAIN Fresh(n, k) = 1..k
  BY DEF Fresh
<1> QED BY <1>1, <1>2, <1>3 DEF Elems

----------------------------------------------------------------------------
(* Where the tokens are.                                                   *)

\* Each of the tokens 1..n is in one of three places, and they are in order.
Placed(l, txt, dr, n) ==
  /\ Elems(txt) \subseteq 1..n /\ dr \subseteq 1..n
  /\ \A i \in DOMAIN l : Elems(l[i].provisional) \subseteq 1..n
  /\ \A i, j \in DOMAIN l : i < j =>
       \A t \in Elems(l[i].provisional), u \in Elems(l[j].provisional) : t < u
  /\ \A i \in DOMAIN l : \A t \in Elems(l[i].provisional) :
       t \notin dr /\ \A u \in Elems(txt) : t < u
  /\ Elems(txt) \cap dr = {}
  /\ \A t \in 1..n : t \in dr \/ t \in Elems(txt)
       \/ \E i \in DOMAIN l : t \in Elems(l[i].provisional)

\* m goes on where l ends, with sentences whose second pass has just started.
Grown(l, m) ==
  /\ Len(l) <= Len(m)
  /\ \A i \in 1..Len(l) : m[i] = l[i]
  /\ \A i \in (Len(l) + 1)..Len(m) : m[i].task = "running"

\* The text of a new sentence leaves the others as they are.
LEMMA PlacedCut ==
  ASSUME NEW l \in Seq(SentenceType), NEW txt \in Seq(Nat), NEW dr, NEW n \in Nat, NEW h \in Nat,
         Placed(l, txt, dr, n), NEW r, r.provisional = txt \o Fresh(n, h)
  PROVE  Placed(Append(l, r), <<>>, dr, n + h)
<1> DEFINE m == Append(l, r)
           P == Elems(r.provisional)
<1>1. /\ DOMAIN m = 1..(Len(l) + 1) /\ DOMAIN l = 1..Len(l) /\ Len(l) \in Nat
      /\ \A i \in 1..Len(l) : m[i] = l[i]
      /\ m[Len(l) + 1] = r
  OBVIOUS
<1>2. P = Elems(txt) \union ((n + 1)..(n + h))
  <2>1. Fresh(n, h) \in Seq(Nat)
    BY FreshType
  <2>2. Elems(txt \o Fresh(n, h)) = Elems(txt) \union Elems(Fresh(n, h))
    BY <2>1, ElemsConcat
  <2>3. Elems(Fresh(n, h)) = (n + 1)..(n + h)
    BY ElemsFresh
  <2> QED BY <2>2, <2>3, Zenon
<1>3. Elems(<<>>) = {}
  BY DEF Elems
<1> HIDE DEF m, P
<1>4. P \subseteq 1..(n + h) /\ dr \subseteq 1..(n + h)
  BY <1>2 DEF Placed
<1>5. \A i \in DOMAIN m : Elems(m[i].provisional) \subseteq 1..(n + h)
  <2> SUFFICES ASSUME NEW i \in DOMAIN m PROVE Elems(m[i].provisional) \subseteq 1..(n + h)
    OBVIOUS
  <2>1. CASE i = Len(l) + 1
    BY <1>1, <1>4, <2>1 DEF P
  <2>2. CASE i \in 1..Len(l)
    <3>1. m[i] = l[i] /\ Elems(l[i].provisional) \subseteq 1..n
      BY <1>1, <2>2 DEF Placed
    <3>2. 1..n \subseteq 1..(n + h)
      OBVIOUS
    <3> QED BY <3>1, <3>2, Zenon
  <2>3. i = Len(l) + 1 \/ i \in 1..Len(l)
    BY <1>1
  <2> QED BY <2>1, <2>2, <2>3, Zenon
<1>6. ASSUME NEW i \in 1..Len(l), NEW t \in Elems(l[i].provisional), NEW u \in P PROVE t < u
  <2>1. t \in 1..n
    BY <1>1 DEF Placed
  <2>2. CASE u \in Elems(txt)
    BY <1>1, <2>2 DEF Placed
  <2>3. CASE u \in (n + 1)..(n + h)
    BY <2>1, <2>3
  <2> QED BY <1>2, <2>2, <2>3
<1>7. ASSUME NEW i \in DOMAIN m, NEW j \in DOMAIN m, i < j,
             NEW t \in Elems(m[i].provisional), NEW u \in Elems(m[j].provisional)
      PROVE  t < u
  <2>1. i \in 1..Len(l) /\ m[i] = l[i]
    BY <1>1, <1>7
  <2>2. CASE j = Len(l) + 1
    BY <1>1, <1>6, <2>1, <2>2 DEF P
  <2>3. CASE j \in 1..Len(l)
    <3>1. m[j] = l[j] /\ j \in DOMAIN l /\ i \in DOMAIN l
      BY <1>1, <2>1, <2>3
    <3> QED BY <1>7, <2>1, <3>1 DEF Placed
  <2> QED BY <1>1, <2>2, <2>3
<1>8. ASSUME NEW i \in DOMAIN m, NEW t \in Elems(m[i].provisional) PROVE t \notin dr
  <2>1. CASE i = Len(l) + 1
    <3>1. t \in P
      BY <1>1, <2>1 DEF P
    <3>2. CASE t \in Elems(txt)
      BY <3>2 DEF Placed
    <3>3. CASE t \in (n + 1)..(n + h)
      BY <3>3 DEF Placed
    <3> QED BY <1>2, <3>1, <3>2, <3>3
  <2>2. CASE i \in 1..Len(l)
    BY <1>1, <2>2 DEF Placed
  <2>3. i = Len(l) + 1 \/ i \in 1..Len(l)
    BY <1>1
  <2> QED BY <2>1, <2>2, <2>3, Zenon
<1>9. ASSUME NEW t \in 1..(n + h)
      PROVE  t \in dr \/ \E i \in DOMAIN m : t \in Elems(m[i].provisional)
  <2>1. Len(l) + 1 \in DOMAIN m /\ Elems(m[Len(l) + 1].provisional) = P
    <3>1. m[Len(l) + 1] = r /\ Len(l) + 1 \in DOMAIN m
      BY <1>1
    <3> QED BY <3>1, Zenon DEF P
  <2>2. CASE t \in (n + 1)..(n + h)
    BY <1>2, <2>1, <2>2
  <2>3. CASE t \in 1..n
    <3>1. CASE t \in Elems(txt)
      BY <1>2, <2>1, <3>1
    <3>2. CASE t \in dr
      BY <3>2
    <3>3. ASSUME NEW i \in DOMAIN l, t \in Elems(l[i].provisional)
          PROVE  \E j \in DOMAIN m : t \in Elems(m[j].provisional)
      <4>1. i \in DOMAIN m /\ m[i] = l[i]
        BY <1>1
      <4> QED BY <3>3, <4>1
    <3> QED BY <2>3, <3>1, <3>2, <3>3 DEF Placed
  <2> QED BY <2>2, <2>3
<1> QED BY <1>3, <1>4, <1>5, <1>7, <1>8, <1>9 DEF Placed, m

\* Newly confirmed tokens come last.
LEMMA PlacedMore ==
  ASSUME NEW l \in Seq(SentenceType), NEW txt \in Seq(Nat), NEW dr, NEW n \in Nat, NEW k \in Nat,
         Placed(l, txt, dr, n)
  PROVE  Placed(l, txt \o Fresh(n, k), dr, n + k)
<1> DEFINE E == Elems(txt \o Fresh(n, k))
<1>1. E = Elems(txt) \union ((n + 1)..(n + k))
  <2>1. Fresh(n, k) \in Seq(Nat)
    BY FreshType
  <2>2. Elems(txt \o Fresh(n, k)) = Elems(txt) \union Elems(Fresh(n, k))
    BY <2>1, ElemsConcat
  <2>3. Elems(Fresh(n, k)) = (n + 1)..(n + k)
    BY ElemsFresh
  <2> QED BY <2>2, <2>3, Zenon
<1> HIDE DEF E
<1>2. E \subseteq 1..(n + k) /\ dr \subseteq 1..(n + k)
  BY <1>1 DEF Placed
<1>3. \A i \in DOMAIN l : Elems(l[i].provisional) \subseteq 1..(n + k)
  BY DEF Placed
<1>4. ASSUME NEW i \in DOMAIN l, NEW t \in Elems(l[i].provisional), NEW u \in E PROVE t < u
  <2>1. t \in 1..n
    BY DEF Placed
  <2>2. CASE u \in Elems(txt)
    BY <2>2 DEF Placed
  <2>3. CASE u \in (n + 1)..(n + k)
    BY <2>1, <2>3
  <2> QED BY <1>1, <2>2, <2>3
<1>5. E \cap dr = {}
  BY <1>1 DEF Placed
<1>6. ASSUME NEW t \in 1..(n + k)
      PROVE  t \in dr \/ t \in E \/ \E i \in DOMAIN l : t \in Elems(l[i].provisional)
  <2>1. CASE t \in 1..n
    BY <1>1, <2>1 DEF Placed
  <2>2. CASE t \in (n + 1)..(n + k)
    BY <1>1, <2>2
  <2> QED BY <2>1, <2>2
<1>7. /\ \A i, j \in DOMAIN l : i < j =>
           \A t \in Elems(l[i].provisional), u \in Elems(l[j].provisional) : t < u
      /\ \A i \in DOMAIN l : \A t \in Elems(l[i].provisional) : t \notin dr
  BY DEF Placed
<1> QED BY <1>2, <1>3, <1>4, <1>5, <1>6, <1>7 DEF Placed, E

\* Text thrown away stays accounted for.
LEMMA PlacedDiscard ==
  ASSUME NEW l, NEW txt, NEW dr, NEW n \in Nat, Placed(l, txt, dr, n)
  PROVE  Placed(l, <<>>, dr \union Elems(txt), n)
<1>1. Elems(<<>>) = {}
  BY DEF Elems
<1>2. \A i \in DOMAIN l : \A t \in Elems(l[i].provisional) : t \notin Elems(txt)
  <2> SUFFICES ASSUME NEW i \in DOMAIN l, NEW t \in Elems(l[i].provisional), t \in Elems(txt) PROVE FALSE
    OBVIOUS
  <2>1. t < t /\ t \in 1..n
    BY DEF Placed
  <2> QED BY <2>1
<1> QED BY <1>1, <1>2 DEF Placed

\* Tokens thrown away as they come are accounted for as well.
LEMMA PlacedSilent ==
  ASSUME NEW l, NEW txt, NEW dr, NEW n \in Nat, NEW k \in Nat, Placed(l, txt, dr, n)
  PROVE  Placed(l, txt, dr \union Elems(Fresh(n, k)), n + k)
<1> DEFINE S == (n + 1)..(n + k)
<1>1. Elems(Fresh(n, k)) = S
  BY ElemsFresh
<1>2. /\ 1..n \subseteq 1..(n + k) /\ S \subseteq 1..(n + k)
      /\ \A t \in 1..n : t \notin S
      /\ \A t \in 1..(n + k) : t \in 1..n \/ t \in S
  OBVIOUS
<1> HIDE DEF S
<1> QED BY <1>1, <1>2, ZenonT(60) DEF Placed

\* What becomes of the second passes does not move a token.
LEMMA PlacedSettled ==
  ASSUME NEW l, NEW m, NEW txt, NEW dr, NEW n, Placed(l, txt, dr, n), DOMAIN m = DOMAIN l,
         \A i \in DOMAIN l : m[i].provisional = l[i].provisional
  PROVE  Placed(m, txt, dr, n)
BY DEF Placed

\* With the tokens placed, each is counted once.
LEMMA PlacedOnce ==
  ASSUME NEW l \in Seq(SentenceType), NEW txt, NEW dr, NEW n \in Nat, Placed(l, txt, dr, n), NEW t \in 1..n
  PROVE  Cardinality({i \in DOMAIN l : t \in Elems(l[i].provisional)})
           + (IF t \in dr THEN 1 ELSE 0) + (IF t \in Elems(txt) THEN 1 ELSE 0) = 1
<1> DEFINE H == {i \in DOMAIN l : t \in Elems(l[i].provisional)}
<1>1. CASE H = {}
  <2>1. Cardinality(H) = 0
    BY <1>1, FS_EmptySet
  <2>2. (t \in dr \/ t \in Elems(txt)) /\ ~(t \in dr /\ t \in Elems(txt))
    BY <1>1 DEF Placed
  <2> QED BY <2>1, <2>2
<1>2. CASE H # {}
  <2>1. PICK i \in DOMAIN l : t \in Elems(l[i].provisional)
    BY <1>2
  <2>2. ASSUME NEW j \in DOMAIN l, t \in Elems(l[j].provisional) PROVE j = i
    <3>1. i \in Nat /\ j \in Nat
      OBVIOUS
    <3>2. ~(i < j) /\ ~(j < i)
      <4>1. ~(t < t)
        OBVIOUS
      <4> QED BY <2>1, <2>2, <4>1 DEF Placed
    <3> QED BY <3>1, <3>2
  <2>3. H = {i}
    BY <2>1, <2>2
  <2>4. Cardinality(H) = 1
    BY <2>3, FS_Singleton
  <2>5. t \notin dr /\ t \notin Elems(txt)
    <3>1. ~(t < t)
      OBVIOUS
    <3> QED BY <2>1, <3>1 DEF Placed
  <2> QED BY <2>4, <2>5
<1> QED BY <1>1, <1>2

----------------------------------------------------------------------------
(* The rate limit.                                                         *)

Window(f, i) == {j \in DOMAIN f : f[i] <= f[j] /\ f[j] <= f[i] + Hour}

\* f are the times of all forced adjudications up to w, in order, and no window of
\* them is too full; times are the last of them, without some that are too old.
Limited(times, f, w) ==
  /\ f \in Seq(Nat)
  /\ \A i \in DOMAIN f : f[i] <= w
  /\ \A i, j \in DOMAIN f : i < j => f[i] <= f[j]
  /\ \A i \in DOMAIN f : Cardinality(Window(f, i)) <= WatchdogLimit
  /\ \E k \in 0..Len(f) : /\ times = SubSeq(f, k + 1, Len(f))
                          /\ \A i \in 1..k : f[i] < w - Hour

\* A nonempty set of numbers has a least.
LEMMA LeastNumber ==
  ASSUME NEW S \in SUBSET Nat, S # {}
  PROVE  \E k \in S : \A j \in S : k <= j
<1>1. PICK k \in S : \A j \in S : ~(<<j, k>> \in OpToRel(<, Nat))
  BY WFMin, NatLessThanWellFounded
<1>2. ASSUME NEW j \in S PROVE k <= j
  <2>1. j \in Nat /\ k \in Nat /\ ~(<<j, k>> \in OpToRel(<, Nat))
    BY <1>1
  <2>2. ~(j < k)
    BY <2>1 DEF OpToRel
  <2>3. ASSUME NEW a \in Nat, NEW b \in Nat, ~(a < b) PROVE b <= a
    BY <2>3
  <2> QED BY <2>1, <2>2, <2>3
<1> QED BY <1>2

LEMMA SuffixOf ==
  ASSUME NEW f \in Seq(Nat), NEW k \in 0..Len(f)
  PROVE  LET t == SubSeq(f, k + 1, Len(f))
         IN /\ t \in Seq(Nat) /\ DOMAIN t = 1..(Len(f) - k) /\ Len(t) = Len(f) - k
            /\ \A i \in 1..(Len(f) - k) : t[i] = f[k + i]
<1> DEFINE t == SubSeq(f, k + 1, Len(f))
           n == Len(f)
<1>1. /\ n \in Nat /\ k \in Nat /\ k <= n /\ k + 1 \in Int /\ n \in Int
      /\ \A i \in (k + 1)..n : f[i] \in Nat
  OBVIOUS
<1>2. /\ t \in Seq(Nat) /\ Len(t) = (IF k + 1 <= n THEN n - (k + 1) + 1 ELSE 0)
      /\ \A i \in 1..(n - (k + 1) + 1) : t[i] = f[(k + 1) + i - 1]
  BY <1>1, SubSeqProperties
<1> HIDE DEF t
<1>3. Len(t) = n - k /\ DOMAIN t = 1..(n - k)
  BY <1>1, <1>2
<1>4. \A i \in 1..(n - k) : t[i] = f[k + i]
  <2> SUFFICES ASSUME NEW i \in 1..(n - k) PROVE t[i] = f[k + i]
    OBVIOUS
  <2>1. i \in 1..(n - (k + 1) + 1) /\ (k + 1) + i - 1 = k + i
    BY <1>1
  <2> QED BY <1>2, <2>1
<1> QED BY <1>2, <1>3, <1>4 DEF t

\* Time goes on.
LEMMA LimitedLater ==
  ASSUME NEW times, NEW f, NEW v \in Nat, NEW w \in Nat, v <= w, Limited(times, f, v)
  PROVE  Limited(times, f, w)
<1>1. f \in Seq(Nat) /\ Hour \in Nat
  BY ConfigTypes DEF Limited
<1>2. ASSUME NEW i \in DOMAIN f PROVE f[i] \in Nat
  BY <1>1
<1>3. \A i \in DOMAIN f : f[i] <= w
  BY <1>2 DEF Limited
<1>4. PICK k \in 0..Len(f) : /\ times = SubSeq(f, k + 1, Len(f))
                             /\ \A i \in 1..k : f[i] < v - Hour
  BY DEF Limited
<1>5. \A i \in 1..k : f[i] < w - Hour
  <2> SUFFICES ASSUME NEW i \in 1..k PROVE f[i] < w - Hour
    OBVIOUS
  <2>1. i \in DOMAIN f
    BY <1>1
  <2>2. f[i] \in Nat /\ f[i] < v - Hour
    BY <1>2, <1>4, <2>1
  <2> QED BY <1>1, <2>2
<1>6. \E j \in 0..Len(f) : times = SubSeq(f, j + 1, Len(f)) /\ \A i \in 1..j : f[i] < w - Hour
  BY <1>4, <1>5
<1> QED BY <1>3, <1>6 DEF Limited

\* The times that are kept are those within the hour.
LEMMA RecentIsSuffix ==
  ASSUME NEW times, NEW f, NEW w \in Nat, Limited(times, f, w)
  PROVE  \E k \in 0..Len(f) : /\ Recent(times, w) = SubSeq(f, k + 1, Len(f))
                              /\ \A i \in 1..k : f[i] < w - Hour
                              /\ \A i \in (k + 1)..Len(f) : f[i] >= w - Hour
<1> DEFINE young == {k \in DOMAIN times : times[k] >= w - Hour}
           n == Len(f)
<1>1. f \in Seq(Nat)
  BY DEF Limited
<1>2. f \in Seq(Nat) /\ Hour \in Nat /\ n \in Nat /\ DOMAIN f = 1..n /\ \A i \in 1..n : f[i] \in Nat
  BY <1>1, ConfigTypes
<1>3. PICK k \in 0..n : times = SubSeq(f, k + 1, n) /\ \A i \in 1..k : f[i] < w - Hour
  BY DEF Limited
<1>4. /\ times \in Seq(Nat) /\ DOMAIN times = 1..(n - k) /\ Len(times) = n - k
      /\ \A i \in 1..(n - k) : times[i] = f[k + i]
  BY <1>2, <1>3, SuffixOf
<1>5. Recent(times, w) = FromFirst(times, young)
  BY DEF Recent
<1>6. CASE young = {}
  <2>1. Recent(times, w) = <<>> /\ SubSeq(f, n + 1, n) = <<>>
    BY <1>2, <1>5, <1>6 DEF FromFirst
  <2>2. \A i \in 1..n : f[i] < w - Hour
    <3> SUFFICES ASSUME NEW i \in 1..n, i > k PROVE f[i] < w - Hour
      BY <1>2, <1>3
    <3>1. i - k \in 1..(n - k) /\ k + (i - k) = i
      BY <1>2
    <3>2. times[i - k] = f[i] /\ ~(times[i - k] >= w - Hour)
      BY <1>4, <1>6, <3>1
    <3> QED BY <1>2, <3>2
  <2> QED BY <1>2, <2>1, <2>2
<1>7. CASE young # {}
  <2> DEFINE a == CHOOSE b \in young : \A j \in young : b <= j
  <2>1. \E b \in young : \A j \in young : b <= j
    <3>1. young \in SUBSET Nat
      BY <1>4
    <3> HIDE DEF young
    <3> QED BY <1>7, <3>1, LeastNumber
  <2>2. a \in young /\ \A j \in young : a <= j
    <3> HIDE DEF young
    <3> QED BY <2>1
  <2>3. Recent(times, w) = SubSeq(times, a, Len(times))
    <3> HIDE DEF young
    <3> QED BY <1>5, <1>7 DEF FromFirst
  <2> HIDE DEF a
  <2>4. a \in 1..(n - k) /\ times[a] >= w - Hour
    BY <1>4, <2>2
  <2> DEFINE c == k + a - 1
  <2>5. c \in 0..n /\ c + 1 = k + a /\ c >= k
    BY <1>2, <2>4
  <2>6. SubSeq(times, a, n - k) = SubSeq(f, c + 1, n)
    <3>1. SubSeq(times, a, n - k) = [i \in 1..(n - k - a + 1) |-> times[a + i - 1]]
      BY <1>2, <1>4, <2>4
    <3>2. SubSeq(f, c + 1, n) = [i \in 1..(n - c) |-> f[c + i]]
      <4> HIDE DEF c
      <4>1. n - (c + 1) + 1 = n - c /\ \A i \in 1..(n - c) : (c + 1) + i - 1 = c + i
        BY <1>2, <2>5
      <4>2. SubSeq(f, c + 1, n) = [i \in 1..(n - (c + 1) + 1) |-> f[(c + 1) + i - 1]]
        BY <1>2, <2>5
      <4> QED BY <4>1, <4>2
    <3>3. n - k - a + 1 = n - c
      BY <1>2, <2>4
    <3>4. \A i \in 1..(n - c) : times[a + i - 1] = f[c + i]
      <4> SUFFICES ASSUME NEW i \in 1..(n - c) PROVE times[a + i - 1] = f[c + i]
        OBVIOUS
      <4>1. a + i - 1 \in 1..(n - k) /\ k + (a + i - 1) = c + i
        BY <1>2, <2>4
      <4> QED BY <1>4, <4>1
    <3> HIDE DEF c
    <3> QED BY <3>1, <3>2, <3>3, <3>4
  <2>7. \A i \in 1..c : f[i] < w - Hour
    <3> SUFFICES ASSUME NEW i \in 1..c, i > k PROVE f[i] < w - Hour
      BY <1>2, <1>3, <2>5
    <3>1. i - k \in 1..(n - k) /\ k + (i - k) = i /\ i - k < a
      BY <1>2, <2>4, <2>5
    <3>2. i - k \notin young
      <4> HIDE DEF young
      <4> QED BY <2>2, <2>4, <3>1
    <3>3. times[i - k] = f[i] /\ ~(times[i - k] >= w - Hour)
      BY <1>4, <3>1, <3>2
    <3>4. f[i] \in Nat
      BY <1>2, <2>5
    <3> QED BY <1>2, <3>3, <3>4
  <2>8. \A i \in (c + 1)..n : f[i] >= w - Hour
    <3> SUFFICES ASSUME NEW i \in (c + 1)..n PROVE f[i] >= w - Hour
      OBVIOUS
    <3>1. f[c + 1] >= w - Hour /\ f[c + 1] \in Nat /\ f[i] \in Nat
      BY <1>2, <1>4, <2>4, <2>5
    <3>2. f[c + 1] <= f[i]
      <4>1. CASE i = c + 1
        BY <3>1, <4>1
      <4>2. CASE i > c + 1
        <5>1. c + 1 \in DOMAIN f /\ i \in DOMAIN f /\ c + 1 < i
          BY <1>2, <2>5, <4>2
        <5> QED BY <5>1 DEF Limited
      <4> QED BY <2>5, <4>1, <4>2
    <3> QED BY <1>2, <3>1, <3>2
  <2>9. Recent(times, w) = SubSeq(f, c + 1, n)
    BY <1>4, <2>3, <2>6
  <2> HIDE DEF c
  <2> QED BY <2>5, <2>7, <2>8, <2>9
<1> QED BY <1>6, <1>7

\* Only in a state with a history do the times kept have a length.
LEMMA RecentType ==
  ASSUME NEW times, NEW f, NEW w \in Nat, Limited(times, f, w)
  PROVE  Recent(times, w) \in Seq(Nat)
<1>1. f \in Seq(Nat)
  BY DEF Limited
<1>2. PICK k \in 0..Len(f) : Recent(times, w) = SubSeq(f, k + 1, Len(f))
  BY RecentIsSuffix
<1> QED BY <1>1, <1>2, SuffixOf

LEMMA LimitedRecent ==
  ASSUME NEW times, NEW f, NEW w \in Nat, Limited(times, f, w)
  PROVE  Limited(Recent(times, w), f, w)
BY RecentIsSuffix DEF Limited

\* One more fits, when fewer than the limit are left of the last hour.
LEMMA LimitedForce ==
  ASSUME NEW times, NEW f, NEW w \in Nat, Limited(times, f, w),
         Len(Recent(times, w)) < WatchdogLimit
  PROVE  Limited(Append(Recent(times, w), w), Append(f, w), w)
<1> DEFINE n == Len(f)
           r == Recent(times, w)
           g == Append(f, w)
<1>1. f \in Seq(Nat) /\ \A i \in DOMAIN f : f[i] <= w
  BY DEF Limited
<1>2. /\ f \in Seq(Nat) /\ Hour \in Nat /\ n \in Nat /\ DOMAIN f = 1..n /\ \A i \in 1..n : f[i] \in Nat
      /\ \A i \in 1..n : f[i] <= w
      /\ WatchdogLimit \in Nat
  BY <1>1, ConfigTypes
<1>3. PICK k \in 0..n : /\ r = SubSeq(f, k + 1, n)
                        /\ \A i \in 1..k : f[i] < w - Hour
                        /\ \A i \in (k + 1)..n : f[i] >= w - Hour
  BY RecentIsSuffix
<1>4. /\ g \in Seq(Nat) /\ Len(g) = n + 1 /\ DOMAIN g = 1..(n + 1) /\ g[n + 1] = w
      /\ \A i \in 1..n : g[i] = f[i]
  BY <1>2
<1>5. n - k < WatchdogLimit
  BY <1>2, <1>3, SuffixOf
<1> HIDE DEF g
<1>6. ASSUME NEW i \in DOMAIN g PROVE g[i] <= w /\ g[i] \in Nat
  <2>1. CASE i = n + 1
    BY <1>4, <2>1
  <2>2. CASE i \in 1..n
    BY <1>2, <1>4, <2>2
  <2> QED BY <1>2, <1>4, <2>1, <2>2
<1>7. ASSUME NEW i \in DOMAIN g, NEW j \in DOMAIN g, i < j PROVE g[i] <= g[j]
  <2>1. i \in 1..n
    BY <1>2, <1>4, <1>7
  <2>2. CASE j = n + 1
    BY <1>4, <1>6, <2>2
  <2>3. CASE j \in 1..n
    <3>1. f[i] <= f[j]
      BY <1>2, <1>7, <2>1, <2>3 DEF Limited
    <3> QED BY <1>4, <2>1, <2>3, <3>1
  <2> QED BY <1>2, <1>4, <2>2, <2>3
<1>8. ASSUME NEW i \in DOMAIN g PROVE Cardinality(Window(g, i)) <= WatchdogLimit
  <2>1. CASE i \in 1..k
    <3>1. g[i] = f[i] /\ f[i] < w - Hour /\ f[i] \in Nat /\ i \in DOMAIN f
      BY <1>2, <1>3, <1>4, <2>1
    <3>2. n + 1 \notin Window(g, i)
      BY <1>2, <1>4, <3>1 DEF Window
    <3>3. Window(g, i) = Window(f, i)
      <4>1. ASSUME NEW j \in 1..n PROVE j \in Window(g, i) <=> j \in Window(f, i)
        <5>1. g[j] = f[j] /\ g[i] = f[i] /\ j \in DOMAIN g /\ j \in DOMAIN f
          BY <1>2, <1>4, <3>1
        <5> QED BY <5>1, Zenon DEF Window
      <4>2. Window(g, i) \subseteq 1..(n + 1) /\ Window(f, i) \subseteq 1..n
        BY <1>2, <1>4 DEF Window
      <4>3. \A j \in 1..(n + 1) : j \in 1..n \/ j = n + 1
        BY <1>2
      <4> QED BY <3>2, <4>1, <4>2, <4>3
    <3> QED BY <3>1, <3>3 DEF Limited
  <2>2. CASE i \notin 1..k
    <3>1. g[i] >= w - Hour /\ g[i] \in Nat
      <4>1. CASE i = n + 1
        BY <1>2, <1>4, <4>1
      <4>2. CASE i \in (k + 1)..n
        BY <1>2, <1>3, <1>4, <4>2
      <4>3. i = n + 1 \/ i \in (k + 1)..n
        BY <1>2, <1>4, <2>2
      <4> QED BY <4>1, <4>2, <4>3
    <3>2. Window(g, i) \subseteq (k + 1)..(n + 1)
      <4> SUFFICES ASSUME NEW j \in Window(g, i), j \notin (k + 1)..(n + 1) PROVE FALSE
        OBVIOUS
      <4>1. j \in 1..k /\ g[i] <= g[j]
        BY <1>2, <1>4 DEF Window
      <4>2. g[j] = f[j] /\ f[j] < w - Hour /\ f[j] \in Nat
        BY <1>2, <1>3, <1>4, <4>1
      <4> QED BY <1>2, <3>1, <4>1, <4>2
    <3>3. Cardinality((k + 1)..(n + 1)) = n + 1 - k /\ IsFiniteSet((k + 1)..(n + 1))
      <4>1. k + 1 \in Int /\ n + 1 \in Int /\ ~(k + 1 > n + 1) /\ (n + 1) - (k + 1) + 1 = n + 1 - k
        BY <1>2
      <4> QED BY <4>1, FS_Interval
    <3>4. Cardinality(Window(g, i)) <= n + 1 - k /\ Cardinality(Window(g, i)) \in Nat
      BY <3>2, <3>3, FS_Subset, FS_CardinalityType
    <3> QED BY <1>2, <1>5, <3>4
  <2> QED BY <2>1, <2>2
<1>9. Append(r, w) = SubSeq(g, k + 1, n + 1)
  <2>1. r \in Seq(Nat) /\ Len(r) = n - k /\ \A i \in 1..(n - k) : r[i] = f[k + i]
    BY <1>2, <1>3, SuffixOf
  <2> DEFINE a == Append(r, w)
             b == SubSeq(g, k + 1, n + 1)
  <2>2. /\ b \in Seq(Nat) /\ Len(b) = n + 1 - k /\ \A i \in 1..(n + 1 - k) : b[i] = g[k + i]
    <3>1. g \in Seq(Nat) /\ k \in 0..Len(g) /\ Len(g) - k = n + 1 - k
      BY <1>2, <1>4
    <3>2. LET u == SubSeq(g, k + 1, Len(g))
          IN /\ u \in Seq(Nat) /\ Len(u) = Len(g) - k
             /\ \A i \in 1..(Len(g) - k) : u[i] = g[k + i]
      BY <3>1, SuffixOf
    <3> QED BY <1>4, <3>1, <3>2
  <2> HIDE DEF r, b
  <2>3. /\ a \in Seq(Nat) /\ Len(a) = n + 1 - k /\ a[n + 1 - k] = w
        /\ \A i \in 1..(n - k) : a[i] = r[i]
    BY <1>2, <2>1
  <2> HIDE DEF a
  <2>4. \A i \in 1..Len(a) : a[i] = b[i]
    <3> SUFFICES ASSUME NEW i \in 1..(n + 1 - k) PROVE a[i] = b[i]
      BY <2>3
    <3>1. CASE i = n + 1 - k
      <4>1. k + i = n + 1
        BY <1>2, <3>1
      <4> QED BY <1>4, <2>2, <2>3, <3>1, <4>1
    <3>2. CASE i \in 1..(n - k)
      <4>1. k + i \in 1..n
        BY <1>2, <3>2
      <4>2. a[i] = f[k + i] /\ b[i] = f[k + i]
        BY <1>4, <2>1, <2>2, <2>3, <3>2, <4>1
      <4> QED BY <4>2
    <3> QED BY <1>2, <3>1, <3>2
  <2>5. a = b
    BY <2>2, <2>3, <2>4, SeqEqual
  <2> QED BY <2>5 DEF a, b
<1>10. \A i \in 1..k : g[i] < w - Hour
  BY <1>2, <1>3, <1>4
<1> HIDE DEF r
<1>11. \E j \in 0..Len(g) : Append(r, w) = SubSeq(g, j + 1, Len(g)) /\ \A i \in 1..j : g[i] < w - Hour
  <2>1. k \in 0..Len(g)
    BY <1>2, <1>4
  <2> QED BY <1>4, <1>9, <1>10, <2>1
<1> QED BY <1>4, <1>6, <1>7, <1>8, <1>11 DEF Limited, r, g

----------------------------------------------------------------------------
(* What a handler keeps of the text, the log and the rate limit.           *)

\* There is audio left to cut for the text that is left, and no start lies ahead.
Cuttable(q, t) ==
  q.latch < t /\ (q.text # <<>> => q.watermark < t /\ q.speechStart < t)

\* Nothing is left to linger: outside speech, too little text for the watchdog; in
\* speech, too little audio for the forced cut.
Bounded(q, t) ==
  /\ WatchdogEnabled /\ ~q.inSpeech => Len(q.text) < WatchdogMinChars
  /\ MaxSpeech > 0 /\ q.inSpeech => t - q.speechStart < MaxSpeech

\* A session within a handler that began with the sentences l, at time t and, by the
\* clock on the wall, w.
Tidy(q, l, t, w) ==
  /\ l \in Seq(SentenceType)
  /\ Placed(q.sentences, q.text, q.dropped, q.tokens)
  /\ Grown(l, q.sentences)
  /\ Cuttable(q, t)
  /\ Limited(q.forceTimes, q.forced, w)

\* p has the text, the sentences and the forced adjudications of q.
SameText(p, q) ==
  /\ p.sentences = q.sentences /\ p.text = q.text /\ p.dropped = q.dropped
  /\ p.tokens = q.tokens /\ p.forceTimes = q.forceTimes /\ p.forced = q.forced

LEMMA SameTextTidy ==
  ASSUME NEW q, NEW p, NEW l, NEW t, NEW w, Tidy(q, l, t, w), SameText(p, q), Cuttable(p, t)
  PROVE  Tidy(p, l, t, w)
BY DEF Tidy, SameText

\* A sentence takes all the text with it.
LEMMA CutTidy ==
  ASSUME NEW q, NEW t \in Nat, NEW l, NEW w \in Nat, Sound(q, t), Tidy(q, l, t, w), NEW from, NEW end
  PROVE  LET p == Cut(q, from, end)
         IN Tidy(p, l, t, w) /\ p.text = <<>>
<1> DEFINE r == [start |-> from, end |-> end, provisional |-> q.text \o Fresh(q.tokens, q.held),
                 task |-> "running", final |-> "none"]
           p == Cut(q, from, end)
           m == Append(q.sentences, r)
<1>1. /\ p.sentences = m /\ p.text = <<>> /\ p.latch = None /\ p.tokens = q.tokens + q.held
      /\ p.dropped = q.dropped /\ p.forceTimes = q.forceTimes /\ p.forced = q.forced
  BY DEF Cut, Sound, Typed, NewSession
<1>2. /\ q.sentences \in Seq(SentenceType) /\ q.text \in Seq(Nat) /\ q.tokens \in Nat /\ q.held \in Nat
      /\ Placed(q.sentences, q.text, q.dropped, q.tokens) /\ Grown(l, q.sentences)
      /\ l \in Seq(SentenceType) /\ Limited(q.forceTimes, q.forced, w)
  BY DEF Sound, Typed, WellCut, Tidy
<1>3. r.provisional = q.text \o Fresh(q.tokens, q.held) /\ r.task = "running"
  OBVIOUS
<1> HIDE DEF r, p
<1>4. Placed(m, <<>>, q.dropped, q.tokens + q.held)
  BY <1>2, <1>3, PlacedCut
<1>5. Grown(l, m)
  <2>1. /\ Len(m) = Len(q.sentences) + 1 /\ m[Len(q.sentences) + 1] = r
        /\ \A i \in 1..Len(q.sentences) : m[i] = q.sentences[i]
        /\ Len(q.sentences) \in Nat /\ Len(l) \in Nat
    BY <1>2
  <2> HIDE DEF m
  <2>2. \A i \in 1..Len(l) : m[i] = l[i]
    BY <1>2, <2>1 DEF Grown
  <2>3. ASSUME NEW i \in (Len(l) + 1)..Len(m) PROVE m[i].task = "running"
    <3>1. CASE i = Len(q.sentences) + 1
      BY <1>3, <2>1, <3>1
    <3>2. CASE i \in (Len(l) + 1)..Len(q.sentences)
      <4>1. i \in 1..Len(q.sentences)
        BY <2>1, <3>2
      <4> QED BY <1>2, <2>1, <3>2, <4>1 DEF Grown
    <3> QED BY <2>1, <3>1, <3>2
  <2>4. Len(l) <= Len(m)
    BY <1>2, <2>1 DEF Grown
  <2> QED BY <2>2, <2>3, <2>4 DEF Grown
<1> HIDE DEF m
<1>6. Cuttable(p, t)
  BY <1>1 DEF Cuttable, None
<1>7. Tidy(p, l, t, w)
  BY <1>1, <1>2, <1>4, <1>5, <1>6 DEF Tidy
<1> QED BY <1>1, <1>7 DEF p

\* An endpoint either cuts, and no text is left, or leaves everything as it is, for
\* want of audio.
LEMMA EndpointTidy ==
  ASSUME NEW q, NEW t \in Nat, NEW l, NEW w \in Nat, Sound(q, t), Tidy(q, l, t, w), NEW start, NEW end
  PROVE  LET p == SentenceEndpoint(q, start, end)
         IN /\ Tidy(p, l, t, w)
            /\ p.text = <<>> \/ (p = q /\ end <= Larger(start, q.watermark))
<1> DEFINE from == Larger(start, q.watermark)
           p == SentenceEndpoint(q, start, end)
           c == Cut(q, from, end)
<1> SUFFICES /\ Tidy(p, l, t, w)
             /\ p.text = <<>> \/ (p = q /\ end <= from)
  OBVIOUS
<1>1. (p = q /\ end <= from) \/ p = c
  BY DEF SentenceEndpoint
<1>2. Tidy(c, l, t, w) /\ c.text = <<>>
  BY CutTidy
<1> HIDE DEF from, p, c
<1>3. CASE p = q /\ end <= from
  BY <1>3, Zenon
<1>4. CASE p = c
  BY <1>2, <1>4, Zenon
<1> QED BY <1>1, <1>3, <1>4, Zenon

LEMMA VadStartTidy ==
  ASSUME NEW q, NEW t \in Nat, NEW l, NEW w, Sound(q, t), Tidy(q, l, t, w), NEW start, start < t
  PROVE  Tidy(VadStart(q, start), l, t, w)
<1> DEFINE p == VadStart(q, start)
<1>1. SameText(p, q) /\ Cuttable(p, t)
  BY DEF VadStart, Sound, Typed, NewSession, SameText, Tidy, Cuttable, None
<1> QED BY <1>1, SameTextTidy

LEMMA CloseTidy ==
  ASSUME NEW q, NEW t \in Nat, NEW l, NEW w, Sound(q, t), Tidy(q, l, t, w)
  PROVE  Tidy(CloseUtterance(q), l, t, w) /\ CloseUtterance(q).text = q.text
<1> DEFINE p == CloseUtterance(q)
<1>1. SameText(p, q) /\ Cuttable(p, t)
  BY DEF CloseUtterance, Sound, Typed, NewSession, SameText, Tidy, Cuttable, None
<1> QED BY <1>1, SameTextTidy DEF SameText

LEMMA VadEndTidy ==
  ASSUME NEW q, NEW t \in Nat, NEW l, NEW w \in Nat, Sound(q, t), Tidy(q, l, t, w), NEW end
  PROVE  Tidy(VadEnd(q, end), l, t, w)
<1>1. CASE end = None
  BY <1>1 DEF VadEnd
<1>2. CASE end # None
  <2> DEFINE c == CloseUtterance(q)
  <2>1. PICK from, e : VadEnd(q, end) = SentenceEndpoint(c, from, e)
    BY <1>2 DEF VadEnd
  <2>2. Sound(c, t) /\ Tidy(c, l, t, w)
    BY CloseSound, CloseTidy
  <2> HIDE DEF c
  <2> QED BY <2>1, <2>2, EndpointTidy
<1> QED BY <1>1, <1>2

\* One segment, whose start is not ahead of the audio.
LEMMA SegmentTidy ==
  ASSUME NEW q, NEW t \in Nat, NEW l, NEW w \in Nat, Sound(q, t), Tidy(q, l, t, w), NEW seg,
         seg.start \in Time, seg.start # None => seg.start + q.vadOrigin < t
  PROVE  Tidy(HandleVadSegment(q, seg), l, t, w)
<1> DEFINE a == VadToRing(q, seg.start)
           r == VadStart(q, a)
<1>1. a \in Time /\ a < t /\ (a = None <=> seg.start = None)
  BY DEF VadToRing, Sound, Typed, Time, None
<1>2. HandleVadSegment(q, seg) = VadEnd(r, VadToRing(q, seg.end))
  BY DEF HandleVadSegment
<1> HIDE DEF a
<1>3. Tidy(r, l, t, w)
  BY <1>1, VadStartTidy
<1>4. Sound(r, t)
  <2>1. a <= t
    BY <1>1 DEF Time, None
  <2> QED BY <1>1, <2>1, VadStartSound
<1> HIDE DEF r
<1> QED BY <1>2, <1>3, <1>4, VadEndTidy

LEMMA PartialTidy ==
  ASSUME NEW q, NEW t \in Nat, t > 0, NEW l, NEW w, Sound(q, t), Tidy(q, l, t, w), NEW had
  PROVE  Tidy(MaybeEmitPartial(q, t, had), l, t, w)
<1> DEFINE latched == IF q.segmentStart = None /\ q.latch < 0
                      THEN Larger(0, t - CommitWindow) ELSE q.latch
           p == [q EXCEPT !.latch = latched]
<1>1. latched < t
  BY ConfigTypes DEF Larger, Tidy, Cuttable
<1> HIDE DEF latched
<1>2. SameText(p, q) /\ Cuttable(p, t)
  BY <1>1 DEF Sound, Typed, NewSession, SameText, Tidy, Cuttable
<1>3. Tidy(p, l, t, w)
  BY <1>2, SameTextTidy
<1>4. MaybeEmitPartial(q, t, had) = q \/ MaybeEmitPartial(q, t, had) = p
  BY DEF MaybeEmitPartial, latched
<1> QED BY <1>3, <1>4

\* After the forced cut an open utterance is short.
LEMMA ForceCutTidy ==
  ASSUME NEW q, NEW t \in Nat, NEW l, NEW w \in Nat, Sound(q, t), Tidy(q, l, t, w),
         q.inSpeech <=> q.speechStart # None
  PROVE  LET p == ForceCut(q, t)
         IN Tidy(p, l, t, w) /\ (MaxSpeech > 0 /\ p.inSpeech => t - p.speechStart < MaxSpeech)
<1> DEFINE due == MaxSpeech > 0 /\ q.inSpeech /\ q.speechStart # None /\ t - q.speechStart >= MaxSpeech
           e == SentenceEndpoint(q, q.speechStart, t)
           p == [e EXCEPT !.speechStart = t, !.segmentStart = t, !.watermark = t]
<1>1. q.speechStart \in Time /\ q.inSpeech \in BOOLEAN /\ q.watermark \in Nat /\ MaxSpeech \in Nat
  BY ConfigTypes DEF Sound, Typed
<1>2. CASE ~due
  <2>1. ForceCut(q, t) = q
    BY <1>2 DEF ForceCut
  <2>2. MaxSpeech > 0 /\ q.inSpeech => t - q.speechStart < MaxSpeech
    BY <1>1, <1>2 DEF Time, None
  <2> QED BY <2>1, <2>2
<1>3. CASE due
  <2>1. q.speechStart \in Nat /\ q.speechStart < t
    BY <1>1, <1>3 DEF Time, None
  <2>2. /\ Tidy(e, l, t, w)
        /\ e.text = <<>> \/ (e = q /\ t <= Larger(q.speechStart, q.watermark))
    BY EndpointTidy
  <2>3. Sound(e, t)
    BY <2>1, EndpointSound
  <2>4. e.text = <<>>
    <3> SUFFICES ASSUME q.text # <<>>, t <= Larger(q.speechStart, q.watermark) PROVE FALSE
      BY <2>2
    <3>1. q.watermark < t
      BY DEF Tidy, Cuttable
    <3> QED BY <1>1, <2>1, <3>1 DEF Larger
  <2>5. ForceCut(q, t) = p
    BY <1>3 DEF ForceCut
  <2> HIDE DEF e, due
  <2>6. SameText(p, e) /\ p.latch = e.latch /\ p.speechStart = t
    BY <2>3 DEF Sound, Typed, NewSession, SameText
  <2> HIDE DEF p
  <2>7. Cuttable(p, t)
    BY <2>2, <2>4, <2>6 DEF Tidy, Cuttable, SameText
  <2>8. Tidy(p, l, t, w)
    BY <2>2, <2>6, <2>7, SameTextTidy
  <2>9. MaxSpeech > 0 => t - p.speechStart < MaxSpeech
    BY <1>1, <2>6
  <2> QED BY <2>5, <2>8, <2>9
<1> QED BY <1>2, <1>3

LEMMA DiscardTidy ==
  ASSUME NEW q, NEW t \in Nat, NEW l, NEW w, Sound(q, t), Tidy(q, l, t, w)
  PROVE  LET p == DiscardUnsentPartial(q, t)
         IN Tidy(p, l, t, w) /\ p.text = <<>>
<1> DEFINE p == DiscardUnsentPartial(q, t)
           txt == q.text \o Fresh(q.tokens, q.held)
<1>1. /\ p.sentences = q.sentences /\ p.text = <<>> /\ p.dropped = q.dropped \union Elems(txt)
      /\ p.tokens = q.tokens + q.held /\ p.forceTimes = q.forceTimes /\ p.forced = q.forced /\ p.latch = None
  BY DEF DiscardUnsentPartial, Sound, Typed, NewSession
<1> HIDE DEF p
<1>2. Placed(q.sentences, <<>>, q.dropped \union Elems(txt), q.tokens + q.held)
  <2>1. /\ q.sentences \in Seq(SentenceType) /\ q.text \in Seq(Nat) /\ q.tokens \in Nat
        /\ q.held \in Nat /\ q.tokens + q.held \in Nat
        /\ Placed(q.sentences, q.text, q.dropped, q.tokens)
    BY DEF Tidy, Sound, Typed, WellCut
  <2>2. Placed(q.sentences, txt, q.dropped, q.tokens + q.held)
    BY <2>1, PlacedMore
  <2> HIDE DEF txt
  <2> QED BY <2>1, <2>2, PlacedDiscard
<1>3. Cuttable(p, t)
  BY <1>1 DEF Cuttable, None
<1>4. Tidy(p, l, t, w)
  BY <1>1, <1>2, <1>3 DEF Tidy
<1> QED BY <1>1, <1>4 DEF p

\* The watchdog leaves little text outside speech, or none.
LEMMA WatchdogTidy ==
  ASSUME NEW q, NEW t \in Nat, NEW l, NEW w \in Nat, Sound(q, t), Tidy(q, l, t, w)
  PROVE  LET p == MaybeWatchdog(q, t, w)
         IN /\ Tidy(p, l, t, w)
            /\ \/ p = q /\ (WatchdogEnabled /\ ~q.inSpeech => Len(q.text) < WatchdogMinChars)
               \/ p.text = <<>>
<1> DEFINE f    == Recent(q.forceTimes, w)
           r    == WithinHour(q, w)
           m    == [r EXCEPT !.forceTimes = Append(@, w), !.forced = Append(@, w)]
           from == Larger(q.watermark, t - WatchdogSpan)
           cut  == SentenceEndpoint(m, from, t)
           p    == MaybeWatchdog(q, t, w)
<1> SUFFICES /\ Tidy(p, l, t, w)
             /\ \/ p = q /\ (WatchdogEnabled /\ ~q.inSpeech => Len(q.text) < WatchdogMinChars)
                \/ p.text = <<>>
  OBVIOUS
<1>1. \/ p = q /\ (~WatchdogEnabled \/ q.inSpeech \/ Len(q.text) < WatchdogMinChars)
      \/ p = DiscardUnsentPartial(r, t)
      \/ Len(r.forceTimes) < WatchdogLimit /\ p = DiscardUnsentPartial(cut, t)
      \/ Len(r.forceTimes) < WatchdogLimit /\ p = cut /\ cut.text = <<>>
  <2>1. r.forceTimes = f
    BY DEF WithinHour, Sound, Typed, NewSession
  <2>2. f \in Seq(Nat) /\ WatchdogLimit \in Nat
    BY RecentType, ConfigTypes DEF Tidy
  <2>3. Len(f) \in Nat /\ (~(Len(f) >= WatchdogLimit) => Len(f) < WatchdogLimit)
    BY <2>2
  <2> HIDE DEF f, r
  <2> QED BY <2>1, <2>3 DEF MaybeWatchdog, r
<1>2. CASE p = q /\ (~WatchdogEnabled \/ q.inSpeech \/ Len(q.text) < WatchdogMinChars)
  BY <1>2
<1>3. r.forced = q.forced /\ r.forceTimes = f /\ r.sentences = q.sentences /\ r.text = q.text
      /\ r.dropped = q.dropped /\ r.tokens = q.tokens /\ Cuttable(r, t)
  BY DEF WithinHour, Sound, Typed, NewSession, Tidy, Cuttable
<1>4. Sound(r, t) /\ SameUtterance(r, q)
  BY ForceTimesSound DEF WithinHour
<1>5. Tidy(r, l, t, w)
  <2>1. Limited(f, q.forced, w)
    BY LimitedRecent DEF Tidy
  <2> HIDE DEF f, r
  <2> QED BY <1>3, <2>1 DEF Tidy
<1> HIDE DEF r
<1>6. CASE p = DiscardUnsentPartial(r, t)
  BY <1>4, <1>5, <1>6, DiscardTidy
<1>7. ASSUME Len(r.forceTimes) < WatchdogLimit
      PROVE  Tidy(cut, l, t, w) /\ Sound(cut, t)
  <2>1. Sound(m, t)
    BY <1>4, ForceTimesSound
  <2>2. /\ m.sentences = r.sentences /\ m.text = r.text /\ m.dropped = r.dropped
        /\ m.tokens = r.tokens /\ m.forceTimes = Append(r.forceTimes, w)
        /\ m.forced = Append(r.forced, w) /\ Cuttable(m, t)
    BY <1>3, <1>4 DEF Sound, Typed, NewSession, Cuttable
  <2> HIDE DEF m
  <2>3. Limited(Append(f, w), Append(q.forced, w), w)
    BY <1>3, <1>7, LimitedForce DEF Tidy
  <2>4. Tidy(m, l, t, w)
    BY <1>3, <1>5, <2>2, <2>3 DEF Tidy
  <2>5. from \in Nat
    BY ConfigTypes DEF Larger, Sound, Typed
  <2> HIDE DEF from
  <2> QED BY <2>1, <2>4, <2>5, EndpointTidy, EndpointSound
<1> HIDE DEF cut, p
<1>8. CASE Len(r.forceTimes) < WatchdogLimit /\ p = DiscardUnsentPartial(cut, t)
  BY <1>7, <1>8, DiscardTidy
<1>9. CASE Len(r.forceTimes) < WatchdogLimit /\ p = cut /\ cut.text = <<>>
  BY <1>7, <1>9
<1> QED BY <1>1, <1>2, <1>6, <1>8, <1>9

\* What the streaming engine confirms comes with audio beyond the last cut.
LEMMA AccumulateTidy ==
  ASSUME NEW q, NEW t \in Nat, NEW u \in Nat, t < u, NEW v \in Nat, NEW w \in Nat, v <= w,
         NEW l, Sound(q, t), Tidy(q, l, t, v), NEW k \in Nat, NEW h \in Nat, NEW silent \in BOOLEAN
  PROVE  Tidy(Accumulate(q, k, h, silent), l, u, w)
<1> DEFINE p == Accumulate(q, k, h, silent)
<1>1. /\ p.sentences = q.sentences /\ p.tokens = q.tokens + k /\ p.forceTimes = q.forceTimes
      /\ p.forced = q.forced /\ p.latch = q.latch /\ p.watermark = q.watermark
      /\ p.speechStart = q.speechStart
  BY DEF Accumulate, Sound, Typed, NewSession
<1>2. \/ p.text = q.text /\ p.dropped = q.dropped \union Elems(Fresh(q.tokens, k))
      \/ p.text = q.text \o Fresh(q.tokens, k) /\ p.dropped = q.dropped
  BY DEF Accumulate, Sound, Typed, NewSession
<1>3. /\ q.sentences \in Seq(SentenceType) /\ q.text \in Seq(Nat) /\ q.tokens \in Nat
      /\ q.watermark \in Nat /\ q.speechStart \in Time /\ q.latch \in Time
      /\ q.watermark <= t /\ q.speechStart <= t
      /\ Placed(q.sentences, q.text, q.dropped, q.tokens) /\ Grown(l, q.sentences) /\ q.latch < t
      /\ l \in Seq(SentenceType) /\ Limited(q.forceTimes, q.forced, v)
  BY DEF Sound, Typed, WellCut, Tidy, Cuttable
<1> HIDE DEF p
<1>4. Placed(p.sentences, p.text, p.dropped, p.tokens)
  <2>1. Placed(q.sentences, q.text \o Fresh(q.tokens, k), q.dropped, q.tokens + k)
    BY <1>3, PlacedMore
  <2>2. Placed(q.sentences, q.text, q.dropped \union Elems(Fresh(q.tokens, k)), q.tokens + k)
    BY <1>3, PlacedSilent
  <2> QED BY <1>1, <1>2, <2>1, <2>2, Zenon
<1>5. Cuttable(p, u)
  <2>1. q.latch \in Int /\ q.watermark \in Int /\ q.speechStart \in Int
    BY <1>3 DEF Time, None
  <2>2. q.latch < u /\ q.watermark < u /\ q.speechStart < u
    BY <1>3, <2>1
  <2> QED BY <1>1, <2>2 DEF Cuttable
<1>6. Limited(p.forceTimes, p.forced, w)
  BY <1>1, <1>3, LimitedLater
<1>7. Tidy(p, l, u, w)
  BY <1>1, <1>3, <1>4, <1>5, <1>6 DEF Tidy
<1> QED BY <1>7 DEF p

----------------------------------------------------------------------------
(* The VAD and the session agree on whether an utterance is open.          *)

InStep(q, open) == (q.inSpeech <=> open) /\ (q.inSpeech <=> q.speechStart # None)

\* Whether an utterance is open after a segment.
OpenAfter(seg, before) ==
  IF seg.end # None THEN FALSE ELSE IF seg.start # None THEN TRUE ELSE before

VadType == [clock : Nat, last : Nat, open : BOOLEAN]

\* Ends lie within the audio up to c, and starts before it.
SegmentUpTo(seg, c) == seg.start \in Time /\ seg.end \in Time /\ seg.start < c /\ seg.end <= c

\* Whatever the VAD reports lies within the audio it was fed, and its cache says
\* whether the segments it reported leave an utterance open.
LEMMA VadResultsSound ==
  ASSUME vad \in VadType, NEW d \in Nat, d > 0, NEW result \in VadResults(d)
  PROVE  LET c == vad.clock + d
         IN /\ SegmentUpTo(result[1], c) /\ SegmentUpTo(result[2], c)
            /\ result[3] \in VadType /\ result[3].clock <= c
            /\ result[3].open <=> OpenAfter(result[2], OpenAfter(result[1], vad.open))
<1> DEFINE c == vad.clock + d
           opened(a)   == [clock |-> c, last |-> a, open |-> TRUE]
           closedAt(b) == [clock |-> c, last |-> b, open |-> FALSE]
<1>1. /\ vad.clock \in Nat /\ vad.last \in Nat /\ vad.open \in BOOLEAN /\ c \in Nat /\ c - 1 \in Nat
      /\ vad.clock <= c
  BY DEF VadType
<1>2. \A x \in Boundary(c - 1, vad.last) : x \in Nat /\ x < c
  BY <1>1, ConfigTypes DEF Boundary, Larger
<1>3. \A x \in Boundary(c, vad.last + 1) : x \in Nat /\ x <= c
  BY <1>1, ConfigTypes DEF Boundary, Larger
<1>4. \A x \in Boundary(c - 1, vad.last + 1) : x \in Nat /\ x < c
  BY <1>1, ConfigTypes DEF Boundary, Larger
<1>5. SegmentUpTo(NoSegment, c)
  BY <1>1 DEF SegmentUpTo, NoSegment, Time, None
<1>6. [vad EXCEPT !.clock = c] \in VadType /\ vad \in VadType /\ [vad EXCEPT !.clock = c].clock = c
      /\ ([vad EXCEPT !.clock = c].open <=> vad.open)
  BY <1>1 DEF VadType
<1>7. CASE \/ result = <<NoSegment, NoSegment, [vad EXCEPT !.clock = c]>>
           \/ result = <<NoSegment, NoSegment, vad>>
  <2>1. /\ result[1] = NoSegment /\ result[2] = NoSegment
        /\ result[3] = [vad EXCEPT !.clock = c] \/ result[3] = vad
    BY <1>7
  <2>2. result[3].open <=> vad.open
    BY <1>6, <2>1
  <2>3. OpenAfter(NoSegment, OpenAfter(NoSegment, vad.open)) <=> vad.open
    BY DEF OpenAfter, NoSegment
  <2>4. result[3] \in VadType /\ result[3].clock <= c
    <3>1. CASE result[3] = vad
      BY <1>1, <3>1
    <3>2. CASE result[3] = [vad EXCEPT !.clock = c]
      BY <1>1, <1>6, <3>2
    <3> QED BY <2>1, <3>1, <3>2
  <2>5. result[3].open <=> OpenAfter(result[2], OpenAfter(result[1], vad.open))
    BY <2>1, <2>2, <2>3
  <2> QED BY <1>5, <2>1, <2>4, <2>5
<1>8. CASE \E a \in Boundary(c - 1, vad.last) : result = <<[start |-> a, end |-> None], NoSegment, opened(a)>>
  <2>1. PICK a \in Boundary(c - 1, vad.last) : result = <<[start |-> a, end |-> None], NoSegment, opened(a)>>
    BY <1>8
  <2>2. result[1] = [start |-> a, end |-> None] /\ result[2] = NoSegment /\ result[3] = opened(a)
    BY <2>1
  <2>3. SegmentUpTo(result[1], c) /\ SegmentUpTo(result[2], c)
    BY <1>1, <1>2, <1>5, <2>2 DEF SegmentUpTo, Time, None
  <2>4. result[3] \in VadType /\ result[3].clock <= c
    BY <1>1, <1>2, <1>5, <2>2 DEF VadType
  <2>5. result[3].open <=> OpenAfter(result[2], OpenAfter(result[1], vad.open))
    BY <1>1, <1>2, <1>5, <2>2 DEF OpenAfter, NoSegment, None
  <2> QED BY <2>3, <2>4, <2>5
<1>9. CASE \E b \in Boundary(c, vad.last + 1) : result = <<[start |-> None, end |-> b], NoSegment, closedAt(b)>>
  <2>1. PICK b \in Boundary(c, vad.last + 1) : result = <<[start |-> None, end |-> b], NoSegment, closedAt(b)>>
    BY <1>9
  <2>2. result[1] = [start |-> None, end |-> b] /\ result[2] = NoSegment /\ result[3] = closedAt(b)
    BY <2>1
  <2>3. SegmentUpTo(result[1], c) /\ SegmentUpTo(result[2], c)
    BY <1>1, <1>3, <1>5, <2>2 DEF SegmentUpTo, Time, None
  <2>4. result[3] \in VadType /\ result[3].clock <= c
    BY <1>1, <1>3, <1>5, <2>2 DEF VadType
  <2>5. result[3].open <=> OpenAfter(result[2], OpenAfter(result[1], vad.open))
    BY <1>1, <1>3, <1>5, <2>2 DEF OpenAfter, NoSegment, None
  <2> QED BY <2>3, <2>4, <2>5
<1>10. CASE \E a \in Boundary(c - 1, vad.last), b \in Boundary(c, vad.last + 1) : result = <<[start |-> a, end |-> b], NoSegment, closedAt(b)>>
  <2>1. PICK a \in Boundary(c - 1, vad.last), b \in Boundary(c, vad.last + 1) : result = <<[start |-> a, end |-> b], NoSegment, closedAt(b)>>
    BY <1>10
  <2>2. result[1] = [start |-> a, end |-> b] /\ result[2] = NoSegment /\ result[3] = closedAt(b)
    BY <2>1
  <2>3. SegmentUpTo(result[1], c) /\ SegmentUpTo(result[2], c)
    BY <1>1, <1>2, <1>3, <1>5, <2>2 DEF SegmentUpTo, Time, None
  <2>4. result[3] \in VadType /\ result[3].clock <= c
    BY <1>1, <1>2, <1>3, <1>5, <2>2 DEF VadType
  <2>5. result[3].open <=> OpenAfter(result[2], OpenAfter(result[1], vad.open))
    BY <1>1, <1>2, <1>3, <1>5, <2>2 DEF OpenAfter, NoSegment, None
  <2> QED BY <2>3, <2>4, <2>5
<1>11. CASE \E b \in Boundary(c, vad.last + 1), a \in Boundary(c - 1, vad.last + 1) : result = <<[start |-> None, end |-> b], [start |-> a, end |-> None], opened(a)>>
  <2>1. PICK b \in Boundary(c, vad.last + 1), a \in Boundary(c - 1, vad.last + 1) : result = <<[start |-> None, end |-> b], [start |-> a, end |-> None], opened(a)>>
    BY <1>11
  <2>2. result[1] = [start |-> None, end |-> b] /\ result[2] = [start |-> a, end |-> None] /\ result[3] = opened(a)
    BY <2>1
  <2>3. SegmentUpTo(result[1], c) /\ SegmentUpTo(result[2], c)
    BY <1>1, <1>3, <1>4, <2>2 DEF SegmentUpTo, Time, None
  <2>4. result[3] \in VadType /\ result[3].clock <= c
    BY <1>1, <1>3, <1>4, <2>2 DEF VadType
  <2>5. result[3].open <=> OpenAfter(result[2], OpenAfter(result[1], vad.open))
    BY <1>1, <1>3, <1>4, <2>2 DEF OpenAfter, NoSegment, None
  <2> QED BY <2>3, <2>4, <2>5
<1> QED BY <1>7, <1>8, <1>9, <1>10, <1>11 DEF VadResults

\* The same of the flush at STOP.
LEMMA VadFlushSound ==
  ASSUME vad \in VadType, NEW seg \in VadFlush
  PROVE  SegmentUpTo(seg, vad.clock)
<1>1. vad.clock \in Nat /\ vad.last \in Nat
  BY DEF VadType
<1>2. \A x \in Boundary(vad.clock, vad.last) : x \in Nat /\ x <= vad.clock
  BY <1>1, ConfigTypes DEF Boundary, Larger
<1>3. \A x \in Boundary(vad.clock, vad.last + 1) : x \in Nat /\ x <= vad.clock
  BY <1>1, ConfigTypes DEF Boundary, Larger
<1>4. \/ seg = NoSegment
      \/ \E b \in Boundary(vad.clock, vad.last + 1) : seg = [start |-> None, end |-> b]
      \/ /\ seg \in [start : Boundary(vad.clock, vad.last), end : Boundary(vad.clock, vad.last)]
         /\ seg.start < seg.end
  BY DEF VadFlush
<1> QED BY <1>1, <1>2, <1>3, <1>4 DEF SegmentUpTo, NoSegment, Time, None

\* A segment keeps the session in step with the VAD.
LEMMA SegmentInStep ==
  ASSUME NEW q, NEW t \in Nat, NEW l, NEW w \in Nat, Sound(q, t), Tidy(q, l, t, w),
         NEW c \in Nat, q.vadOrigin + c <= t,
         NEW seg, SegmentUpTo(seg, c), NEW open \in BOOLEAN, InStep(q, open)
  PROVE  LET p == HandleVadSegment(q, seg)
         IN /\ Sound(p, t) /\ Tidy(p, l, t, w) /\ p.vadOrigin = q.vadOrigin
            /\ InStep(p, OpenAfter(seg, open))
<1> DEFINE p == HandleVadSegment(q, seg)
<1>1. /\ seg.start \in Time /\ seg.end \in Time
      /\ seg.start # None => seg.start + q.vadOrigin < t /\ seg.start + q.vadOrigin <= t
      /\ seg.end # None => seg.end + q.vadOrigin <= t
  <2>1. q.vadOrigin \in Nat
    BY DEF Sound, Typed
  <2>2. seg.start \in Time /\ seg.end \in Time /\ seg.start < c /\ seg.end <= c
    BY DEF SegmentUpTo
  <2>3. ASSUME NEW x \in Nat
        PROVE  /\ x <= c => x + q.vadOrigin <= t
               /\ x < c => x + q.vadOrigin < t /\ x + q.vadOrigin <= t
    BY <2>1
  <2>4. ASSUME NEW x \in Time, x # None PROVE x \in Nat
    BY <2>4 DEF Time
  <2> QED BY <2>2, <2>3, <2>4
<1>2. /\ Sound(p, t) /\ p.vadOrigin = q.vadOrigin
      /\ seg.end # None => ~p.inSpeech /\ p.speechStart = None
      /\ seg.end = None /\ seg.start # None => p.inSpeech /\ p.speechStart # None
      /\ seg.end = None /\ seg.start = None => SameUtterance(p, q)
  BY <1>1, SegmentSound
<1>3. Tidy(p, l, t, w)
  BY <1>1, SegmentTidy
<1> HIDE DEF p
<1>4. InStep(p, OpenAfter(seg, open))
  <2>1. CASE seg.end # None
    BY <1>2, <2>1 DEF InStep, OpenAfter
  <2>2. CASE seg.end = None /\ seg.start # None
    BY <1>2, <2>2 DEF InStep, OpenAfter
  <2>3. CASE seg.end = None /\ seg.start = None
    BY <1>2, <2>3 DEF InStep, OpenAfter, SameUtterance
  <2> QED BY <2>1, <2>2, <2>3
<1> QED BY <1>2, <1>4, <1>3 DEF p

----------------------------------------------------------------------------
(* The invariant.                                                          *)

\* Every sentence is settled, and the transcript shows what became of it.
Concluded(q) ==
  /\ \A i \in DOMAIN q.sentences : q.sentences[i].task # "running"
  /\ q.transcript = [i \in DOMAIN q.sentences |-> TranscriptText(q.sentences[i])]

IInv ==
  /\ now \in Nat /\ wall \in Nat /\ vad \in VadType
  /\ stop \in {"no", "waiting", "finished"}
  /\ Sound(s, now)
  /\ Tidy(s, s.sentences, now, wall)
  /\ s.vadOrigin + vad.clock <= now
  /\ ~Stopping => InStep(s, vad.open)
  /\ ~Stopping /\ WatchdogMinChars > 0 => Bounded(s, now)
  /\ Stopping /\ WatchdogEnabled /\ WatchdogSpan > 0 => s.text = <<>>
  /\ stop = "finished" => Concluded(s)

\* What is tidy after a handler is tidy before the next.
LEMMA TidyAgain ==
  ASSUME NEW q, NEW t, NEW l, NEW w, Sound(q, t), Tidy(q, l, t, w)
  PROVE  Tidy(q, q.sentences, t, w)
<1>1. q.sentences \in Seq(SentenceType)
  BY DEF Sound, WellCut
<1>2. Grown(q.sentences, q.sentences)
  BY <1>1 DEF Grown
<1> QED BY <1>1, <1>2 DEF Tidy

\* A new session satisfies it.
LEMMA InitInv == Init => IInv
<1>1. WellCut(<<>>, 0)
  <2>1. <<>> \in Seq(SentenceType) /\ DOMAIN <<>> = {}
    OBVIOUS
  <2> QED BY <2>1 DEF WellCut
<1> DEFINE n == NewSession
<1>2. /\ n.inSpeech \in BOOLEAN /\ ~n.inSpeech
      /\ n.speechStart = None /\ n.segmentStart = None /\ n.latch = None
      /\ n.watermark = 0 /\ n.vadOrigin = 0 /\ n.held = 0 /\ n.tokens = 0
      /\ n.text = <<>> /\ n.dropped = {} /\ n.sentences = <<>>
      /\ n.forceTimes = <<>> /\ n.forced = <<>>
  BY DEF NewSession
<1> HIDE DEF n
<1>3. Sound(n, 0)
  <2>1. <<>> \in Seq(Nat)
    OBVIOUS
  <2>2. DOMAIN n = DOMAIN NewSession
    BY DEF n
  <2> QED BY <1>2, <1>1, <2>1, <2>2 DEF Sound, Typed, Time, None
<1> SUFFICES ASSUME Init PROVE IInv
  OBVIOUS
<1>4. s = n /\ now = 0 /\ wall = 0 /\ stop = "no" /\ vad = FreshVad
  BY DEF Init, n
<1>5. FreshVad \in VadType /\ FreshVad.clock = 0 /\ ~FreshVad.open
  BY DEF FreshVad, VadType
<1>6. InStep(s, vad.open)
  BY <1>2, <1>4, <1>5 DEF InStep
<1>7. Tidy(s, s.sentences, now, wall)
  <2>1. Placed(<<>>, <<>>, {}, 0)
    BY DEF Placed, Elems
  <2>2. Grown(<<>>, <<>>) /\ <<>> \in Seq(SentenceType)
    BY DEF Grown
  <2>3. Limited(<<>>, <<>>, 0)
    BY DEF Limited
  <2>4. Cuttable(n, 0)
    BY <1>2 DEF Cuttable, None
  <2> QED BY <1>2, <1>4, <2>1, <2>2, <2>3, <2>4 DEF Tidy
<1>8. WatchdogMinChars > 0 => Bounded(s, now)
  <2>1. Len(<<>>) = 0
    OBVIOUS
  <2> QED BY <1>2, <1>4, <2>1 DEF Bounded
<1> QED BY <1>2, <1>3, <1>4, <1>5, <1>6, <1>7, <1>8 DEF IInv, Stopping

\* process_audio_chunk keeps it: each method in turn keeps the session sound and
\* in step with what the VAD has reported so far.
LEMMA AudioInv == IInv /\ Audio => IInv' /\ Grown(s.sentences, s'.sentences)
<1> SUFFICES ASSUME IInv,
                    NEW d \in ChunkLengths, NEW gap \in Gaps, NEW k \in 0..MaxConfirm, NEW h \in 0..1,
                    NEW silent \in BOOLEAN, NEW result \in VadResults(d),
                    ProcessAudioChunk(d, gap, k, h, silent, result)
             PROVE  IInv' /\ Grown(s.sentences, s'.sentences)
  BY ZenonT(60) DEF Audio
<1> DEFINE t  == now + d
           w  == wall + gap
           c  == vad.clock + d
           q1 == Accumulate(s, k, h, silent)
           m  == HandleVadSegment(q1, result[1])
           q2 == HandleVadSegment(m, result[2])
           p  == MaybeEmitPartial(q2, t, k > 0 /\ ~silent)
           q3 == ForceCut(p, t)
           q4 == MaybeWatchdog(q3, t, w)
           o1 == OpenAfter(result[1], vad.open)
           l  == s.sentences
<1>1. /\ d \in Nat /\ d > 0 /\ gap \in Nat /\ k \in Nat /\ h \in Nat
      /\ t \in Nat /\ w \in Nat /\ now <= t /\ c \in Nat /\ now < t /\ t > 0 /\ wall <= w
      /\ now \in Nat /\ wall \in Nat
  <2>1. /\ d \in Nat /\ d > 0 /\ gap \in Nat /\ k \in Nat /\ h \in Nat
        /\ now \in Nat /\ wall \in Nat /\ vad.clock \in Nat
    BY ConfigTypes DEF IInv, VadType
  <2> QED BY <2>1
<1>2. /\ SegmentUpTo(result[1], c) /\ SegmentUpTo(result[2], c)
      /\ result[3] \in VadType /\ result[3].clock <= c
      /\ result[3].open <=> OpenAfter(result[2], o1)
  BY <1>1, VadResultsSound DEF IInv
<1>3. /\ ~Stopping /\ InStep(s, vad.open) /\ vad.open \in BOOLEAN /\ o1 \in BOOLEAN
      /\ Sound(s, now) /\ s.vadOrigin \in Nat /\ Tidy(s, l, now, wall)
  BY DEF ProcessAudioChunk, IInv, VadType, OpenAfter, Sound, Typed
<1>4. now' = t /\ wall' = w /\ vad' = result[3] /\ s' = q4 /\ stop' = stop
  BY DEF ProcessAudioChunk
<1>5. Sound(q1, t) /\ SameUtterance(q1, s)
  BY <1>1, <1>3, AccumulateSound DEF IInv
<1>6. Tidy(q1, l, t, w)
  BY <1>1, <1>3, AccumulateTidy
<1>7. InStep(q1, vad.open) /\ q1.vadOrigin + c <= t
  <2>1. q1.vadOrigin = s.vadOrigin /\ s.vadOrigin + vad.clock <= now /\ vad.clock \in Nat
    BY <1>5 DEF SameUtterance, IInv, VadType
  <2>2. InStep(q1, vad.open)
    BY <1>3, <1>5 DEF InStep, SameUtterance
  <2> QED BY <1>1, <1>3, <2>1, <2>2
<1> HIDE DEF q1, t, c, o1, w, l
<1>8. Sound(m, t) /\ Tidy(m, l, t, w) /\ m.vadOrigin = q1.vadOrigin /\ InStep(m, o1)
  BY <1>1, <1>2, <1>3, <1>5, <1>7, <1>6, SegmentInStep DEF o1
<1> HIDE DEF m
<1>9. Sound(q2, t) /\ Tidy(q2, l, t, w) /\ q2.vadOrigin = q1.vadOrigin /\ InStep(q2, OpenAfter(result[2], o1))
  BY <1>1, <1>2, <1>3, <1>7, <1>8, SegmentInStep
<1> HIDE DEF q2
<1>10. Sound(p, t) /\ SameUtterance(p, q2)
  <2>1. (k > 0 /\ ~silent) \in BOOLEAN
    OBVIOUS
  <2> QED BY <1>1, <1>9, <2>1, PartialSound
<1>11. Tidy(p, l, t, w)
  BY <1>1, <1>9, PartialTidy
<1> HIDE DEF p
<1>12. p.inSpeech <=> p.speechStart # None
  BY <1>9, <1>10 DEF InStep, SameUtterance
<1>13. /\ Sound(q3, t) /\ q3.vadOrigin = p.vadOrigin /\ q3.inSpeech = p.inSpeech
       /\ q3.speechStart = None <=> p.speechStart = None
  BY <1>1, <1>10, ForceCutSound
<1>14. Tidy(q3, l, t, w) /\ (MaxSpeech > 0 /\ q3.inSpeech => t - q3.speechStart < MaxSpeech)
  BY <1>1, <1>10, <1>11, <1>12, ForceCutTidy
<1> HIDE DEF q3
<1>15. Sound(q4, t) /\ SameUtterance(q4, q3)
  BY <1>1, <1>13, WatchdogSound
<1>16. /\ Tidy(q4, l, t, w)
       /\ \/ q4 = q3 /\ (WatchdogEnabled /\ ~q3.inSpeech => Len(q3.text) < WatchdogMinChars)
          \/ q4.text = <<>>
  BY <1>1, <1>13, <1>14, WatchdogTidy
<1> HIDE DEF q4
<1>17. WatchdogMinChars > 0 => Bounded(q4, t)
  <2>1. MaxSpeech > 0 /\ q4.inSpeech => t - q4.speechStart < MaxSpeech
    BY <1>15, <1>14 DEF SameUtterance
  <2>2. Len(<<>>) = 0
    OBVIOUS
  <2> QED BY <1>16, <2>1, <2>2 DEF Bounded
<1>18. Tidy(q4, q4.sentences, t, w) /\ Grown(l, q4.sentences)
  BY <1>15, <1>16, TidyAgain DEF Tidy
<1>19. InStep(q4, result[3].open) /\ q4.vadOrigin = s.vadOrigin
  BY <1>2, <1>5, <1>9, <1>10, <1>13, <1>15 DEF InStep, SameUtterance
<1>20. s'.vadOrigin + vad'.clock <= now'
  <2>1. result[3].clock \in Nat /\ q1.vadOrigin = s.vadOrigin
    BY <1>2, <1>5 DEF VadType, SameUtterance
  <2> QED BY <1>1, <1>2, <1>3, <1>4, <1>7, <1>19, <2>1
<1>21. ~Stopping /\ ~Stopping' /\ stop' # "finished" /\ stop' \in {"no", "waiting", "finished"}
  BY <1>3, <1>4 DEF Stopping, IInv
<1>22. Sound(s', now') /\ Tidy(s', s'.sentences, now', wall') /\ InStep(s', vad'.open)
       /\ (WatchdogMinChars > 0 => Bounded(s', now'))
  BY <1>4, <1>15, <1>19, <1>17, <1>18
<1>23. now' \in Nat /\ wall' \in Nat /\ vad' \in VadType
  BY <1>1, <1>2, <1>4
<1>24. Grown(s.sentences, s'.sentences)
  BY <1>4, <1>18 DEF l
<1> QED BY <1>20, <1>21, <1>22, <1>23, <1>24 DEF IInv

\* A reset of the VAD stream restarts its clock at the audio of now.
LEMMA ResetSound ==
  ASSUME NEW q, NEW t \in Nat, Sound(q, t)
  PROVE  LET p == ResetVadStream(q, t)
         IN /\ Sound(p, t) /\ p.vadOrigin = t /\ p.inSpeech = q.inSpeech
            /\ p.speechStart = q.speechStart /\ p.watermark = q.watermark
            /\ SameText(p, q) /\ p.latch = q.latch
<1>1. Larger(0, t) = t
  BY DEF Larger
<1> QED BY <1>1 DEF ResetVadStream, Sound, Typed, NewSession, SameText

\* Audio may be passed over without a cut.
LEMMA SkipSound ==
  ASSUME NEW q, NEW t \in Nat, Sound(q, t)
  PROVE  LET p == [q EXCEPT !.watermark = Larger(q.watermark, t)]
         IN Sound(p, t) /\ SameUtterance(p, q) /\ SameText(p, q) /\ p.latch = q.latch
<1> DEFINE u == Larger(q.watermark, t)
<1>1. q.watermark \in Nat /\ WellCut(q.sentences, q.watermark) /\ q.watermark <= t
  BY DEF Sound, Typed
<1>2. u \in Nat /\ q.watermark <= u /\ u <= t
  BY <1>1 DEF Larger
<1>3. WellCut(q.sentences, u)
  BY <1>1, <1>2, LaterWatermark
<1>4. ASSUME NEW v \in Nat, v <= t, WellCut(q.sentences, v)
      PROVE  LET p == [q EXCEPT !.watermark = v]
             IN Sound(p, t) /\ SameUtterance(p, q) /\ SameText(p, q) /\ p.latch = q.latch
  BY <1>4 DEF Sound, Typed, NewSession, SameUtterance, SameText
<1> QED BY <1>2, <1>3, <1>4

\* process_commit keeps it, in its three outcomes.
LEMMA CommitInv == IInv /\ ProcessCommit => IInv' /\ Grown(s.sentences, s'.sentences)
<1> SUFFICES ASSUME IInv, ProcessCommit PROVE IInv' /\ Grown(s.sentences, s'.sentences)
  OBVIOUS
<1> DEFINE known == IF s.speechStart # None THEN s.speechStart
                    ELSE IF s.latch >= 0 THEN s.latch ELSE Larger(0, now - CommitWindow)
           start == Larger(known, s.watermark)
           closed == CloseUtterance(s)
           reset == ResetVadStream(closed, now)
           skip  == [reset EXCEPT !.watermark = Larger(s.watermark, now)]
           cut   == SentenceEndpoint(reset, start, now)
           l     == s.sentences
<1>1. /\ now \in Nat /\ Sound(s, now) /\ InStep(s, vad.open) /\ wall \in Nat
      /\ ~Stopping /\ vad' = FreshVad /\ now' = now /\ wall' = wall /\ stop' = stop
  BY DEF IInv, ProcessCommit
<1>2. /\ s.speechStart \in Time /\ s.latch \in Time /\ s.watermark \in Nat
      /\ s.inSpeech \in BOOLEAN
  BY <1>1 DEF Sound, Typed
<1>3. start \in Nat
  <2>1. known \in Nat
    BY <1>1, <1>2, ConfigTypes DEF Larger, Time, None
  <2> HIDE DEF known
  <2> QED BY <1>2, <2>1 DEF Larger
<1>4. \/ s' = [skip EXCEPT !.speechStart = s.speechStart] /\ ~s.inSpeech /\ s.text = <<>>
      \/ s' = skip /\ now <= start
      \/ s' = cut /\ ~(now <= start)
  BY DEF ProcessCommit
<1>5. s.text # <<>> => ~(now <= start)
  <2> SUFFICES ASSUME s.text # <<>> PROVE start < now
    BY <1>1, <1>3
  <2>1. s.latch < now /\ s.watermark < now /\ s.speechStart < now
    BY DEF IInv, Tidy, Cuttable
  <2>2. known < now
    BY <1>1, <1>2, <2>1, ConfigTypes DEF Larger
  <2> HIDE DEF known
  <2> QED BY <2>1, <2>2 DEF Larger
<1>6. Larger(start, s.watermark) = start
  <2>1. ASSUME NEW a \in Int, NEW b \in Int PROVE Larger(Larger(a, b), b) = Larger(a, b)
    BY DEF Larger
  <2>2. known \in Int
    BY <1>1, <1>2, ConfigTypes DEF Larger, Time, None
  <2> HIDE DEF known
  <2> QED BY <1>2, <2>1, <2>2
<1>7. /\ Sound(closed, now) /\ closed.inSpeech = FALSE /\ closed.speechStart = None
      /\ closed.watermark = s.watermark
  BY <1>1, CloseSound
<1>8. Tidy(closed, l, now, wall) /\ closed.text = s.text
  BY <1>1, CloseTidy DEF IInv
<1> HIDE DEF start, closed, l
<1>9. /\ Sound(reset, now) /\ reset.vadOrigin = now /\ reset.inSpeech = FALSE
      /\ reset.speechStart = None /\ reset.watermark = s.watermark
      /\ SameText(reset, closed) /\ reset.latch = closed.latch
  BY <1>1, <1>7, ResetSound
<1> HIDE DEF reset
<1>10. Tidy(reset, l, now, wall) /\ reset.text = s.text
  <2>1. Cuttable(reset, now)
    BY <1>7, <1>9, <1>8 DEF Tidy, Cuttable, SameText
  <2> QED BY <1>9, <1>8, <2>1, SameTextTidy DEF SameText
<1>11. Sound(skip, now) /\ SameUtterance(skip, reset) /\ SameText(skip, reset) /\ skip.latch = reset.latch
  BY <1>1, <1>9, SkipSound
<1>12. Sound(cut, now) /\ SameUtterance(cut, reset)
  BY <1>1, <1>3, <1>9, EndpointSound
<1>13. Tidy(cut, l, now, wall) /\ (cut.text = <<>> \/ now <= start)
  BY <1>1, <1>9, <1>6, <1>10, EndpointTidy
<1> HIDE DEF skip, cut
<1>14. ASSUME s.text = <<>>
       PROVE  /\ Tidy(skip, l, now, wall) /\ skip.text = <<>>
  <2>1. Cuttable(skip, now)
    BY <1>11, <1>10, <1>14 DEF Tidy, Cuttable, SameText
  <2> QED BY <1>11, <1>10, <1>14, <2>1, SameTextTidy DEF SameText
<1>15. ASSUME NEW p, Sound(p, now), SameUtterance(p, reset), Tidy(p, l, now, wall), p.text = <<>>, s' = p
      PROVE  IInv' /\ Grown(s.sentences, s'.sentences)
  <2>1. p.vadOrigin = now /\ p.inSpeech = FALSE /\ p.speechStart = None
    BY <1>9, <1>15 DEF SameUtterance
  <2>2. FreshVad \in VadType /\ FreshVad.clock = 0 /\ ~FreshVad.open
    BY DEF FreshVad, VadType
  <2>3. InStep(p, FreshVad.open)
    BY <2>1, <2>2 DEF InStep
  <2>4. WatchdogMinChars > 0 => Bounded(p, now)
    <3>1. Len(<<>>) = 0
      OBVIOUS
    <3> QED BY <1>15, <2>1, <3>1 DEF Bounded
  <2>5. Tidy(p, p.sentences, now, wall) /\ Grown(l, p.sentences)
    BY <1>15, TidyAgain DEF Tidy
  <2>6. ~Stopping /\ ~Stopping' /\ stop' # "finished" /\ stop' \in {"no", "waiting", "finished"}
    BY <1>1 DEF Stopping
  <2>7. /\ Sound(s', now') /\ Tidy(s', s'.sentences, now', wall') /\ InStep(s', vad'.open)
        /\ (WatchdogMinChars > 0 => Bounded(s', now'))
    BY <1>1, <1>15, <2>2, <2>3, <2>4, <2>5
  <2>8. now' \in Nat /\ wall' \in Nat /\ vad' \in VadType /\ s'.vadOrigin + vad'.clock <= now'
    BY <1>1, <1>15, <2>1, <2>2
  <2>9. Grown(s.sentences, s'.sentences)
    BY <1>15, <2>5 DEF l
  <2> QED BY <2>6, <2>7, <2>8, <2>9 DEF IInv
<1>16. CASE s' = [skip EXCEPT !.speechStart = s.speechStart] /\ ~s.inSpeech /\ s.text = <<>>
  <2> DEFINE p == [skip EXCEPT !.speechStart = s.speechStart]
  <2>1. s.speechStart = None /\ skip.speechStart = None
    BY <1>1, <1>9, <1>11, <1>16 DEF InStep, SameUtterance
  <2>2. Sound(p, now) /\ SameUtterance(p, skip) /\ SameText(p, skip) /\ p.latch = skip.latch
    BY <1>11, <2>1 DEF Sound, Typed, NewSession, SameUtterance, SameText
  <2>3. SameUtterance(p, reset) /\ s' = p
    BY <1>11, <1>16, <2>2 DEF SameUtterance
  <2> HIDE DEF p
  <2>4. Tidy(skip, l, now, wall) /\ skip.text = <<>>
    BY <1>16, <1>14
  <2>5. Cuttable(p, now)
    BY <2>2, <2>4 DEF Tidy, Cuttable, SameText
  <2>6. Tidy(p, l, now, wall) /\ p.text = <<>>
    BY <2>2, <2>4, <2>5, SameTextTidy DEF SameText
  <2> QED BY <1>15, <2>2, <2>3, <2>6
<1>17. CASE s' = skip /\ now <= start
  <2>1. Tidy(skip, l, now, wall) /\ skip.text = <<>>
    BY <1>5, <1>14, <1>17
  <2> QED BY <1>11, <1>15, <1>17, <2>1
<1>18. CASE s' = cut /\ ~(now <= start)
  BY <1>12, <1>15, <1>13, <1>18
<1> QED BY <1>4, <1>16, <1>17, <1>18

\* Leaving speech, or forgetting the pipeline's segment start, cuts nothing.
LEMMA FlagsSound ==
  ASSUME NEW q, NEW t \in Nat, Sound(q, t)
  PROVE  /\ Sound([q EXCEPT !.inSpeech = FALSE], t)
         /\ [q EXCEPT !.inSpeech = FALSE].vadOrigin = q.vadOrigin
         /\ Sound([q EXCEPT !.segmentStart = None], t)
         /\ SameUtterance([q EXCEPT !.segmentStart = None], q)
BY DEF Sound, Typed, NewSession, SameUtterance, Time, None

LEMMA FlagsTidy ==
  ASSUME NEW q, NEW t \in Nat, NEW l, NEW w, Sound(q, t), Tidy(q, l, t, w)
  PROVE  /\ Tidy([q EXCEPT !.inSpeech = FALSE], l, t, w)
         /\ [q EXCEPT !.inSpeech = FALSE].text = q.text
         /\ Tidy([q EXCEPT !.segmentStart = None], l, t, w)
         /\ [q EXCEPT !.segmentStart = None].text = q.text
<1>1. ASSUME NEW p, p = [q EXCEPT !.inSpeech = FALSE] \/ p = [q EXCEPT !.segmentStart = None]
      PROVE  Tidy(p, l, t, w) /\ p.text = q.text
  <2>1. SameText(p, q) /\ p.latch = q.latch /\ p.watermark = q.watermark /\ p.speechStart = q.speechStart
    BY <1>1 DEF Sound, Typed, NewSession, SameText
  <2>2. Cuttable(p, t)
    BY <2>1 DEF Tidy, Cuttable, SameText
  <2> QED BY <2>1, <2>2, SameTextTidy DEF SameText
<1> QED BY <1>1

\* process_stop keeps it: the flushed segment, the open utterance and the
\* leftover text are each clamped to the watermark.
LEMMA StopInv == IInv /\ ProcessStop => IInv' /\ Grown(s.sentences, s'.sentences)
<1> SUFFICES ASSUME IInv, ProcessStop PROVE IInv' /\ Grown(s.sentences, s'.sentences)
  OBVIOUS
<1> DEFINE end(seg)   == VadToRing(s, seg.end)
           open(seg)  == IF s.speechStart # None THEN s.speechStart
                         ELSE Larger(0, end(seg) - CommitWindow)
           q1(seg)    == IF end(seg) = None THEN s ELSE SentenceEndpoint(s, open(seg), end(seg))
           still(q)   == IF q.speechStart # None THEN q.speechStart
                         ELSE Larger(0, now - CommitWindow)
           left(q)    == [(IF now > still(q) THEN SentenceEndpoint(q, still(q), now) ELSE q)
                            EXCEPT !.inSpeech = FALSE]
           l          == s.sentences
<1>1. PICK seg \in VadFlush : s' = IF q1(seg).inSpeech THEN left(q1(seg)) ELSE CutLeftover(q1(seg))
  BY DEF ProcessStop
<1>2. /\ now \in Nat /\ wall \in Nat /\ vad \in VadType /\ Sound(s, now)
      /\ s.vadOrigin \in Nat /\ s.vadOrigin + vad.clock <= now /\ s.speechStart \in Time
      /\ Tidy(s, l, now, wall)
  BY DEF IInv, Sound, Typed
<1>3. /\ stop' = "waiting" /\ vad' = [vad EXCEPT !.open = FALSE] /\ now' = now /\ wall' = wall
  BY DEF ProcessStop
<1>4. end(seg) \in Time /\ end(seg) <= now
  <2>1. SegmentUpTo(seg, vad.clock) /\ vad.clock \in Nat
    BY <1>2, VadFlushSound DEF VadType
  <2>2. seg.end \in Time /\ (seg.end # None => seg.end + s.vadOrigin <= now)
    BY <1>2, <2>1 DEF SegmentUpTo, Time, None
  <2> QED BY <1>2, <2>2 DEF VadToRing, Time, None
<1>5. open(seg) \in Nat
  <2> HIDE DEF end
  <2> QED BY <1>2, <1>4, ConfigTypes DEF Larger, Time, None
<1>6. Sound(q1(seg), now) /\ SameUtterance(q1(seg), s)
  <2>1. CASE end(seg) = None
    BY <1>2, <2>1 DEF SameUtterance
  <2>2. CASE end(seg) # None
    <3>1. end(seg) \in Nat /\ q1(seg) = SentenceEndpoint(s, open(seg), end(seg))
      BY <1>4, <2>2 DEF Time
    <3> HIDE DEF end, open
    <3> QED BY <1>2, <1>4, <1>5, <3>1, EndpointSound
  <2> QED BY <2>1, <2>2
<1>7. Tidy(q1(seg), l, now, wall)
  <2>1. CASE end(seg) = None
    BY <1>2, <2>1
  <2>2. CASE end(seg) # None
    <3> HIDE DEF end, open, l
    <3>1. Tidy(SentenceEndpoint(s, open(seg), end(seg)), l, now, wall)
      BY <1>2, EndpointTidy
    <3> QED BY <2>2, <3>1
  <2> QED BY <2>1, <2>2
<1> DEFINE r == q1(seg)
<1> HIDE DEF q1, l
<1>8. r.text # <<>> => r.watermark < now /\ r.speechStart < now
  BY <1>7 DEF Tidy, Cuttable
<1>9. Sound(left(r), now) /\ left(r).vadOrigin = r.vadOrigin
  <2>1. still(r) \in Nat
    <3>1. r.speechStart \in Time
      BY <1>6 DEF Sound, Typed
    <3>2. Larger(0, now - CommitWindow) \in Nat
      BY <1>2, ConfigTypes DEF Larger
    <3> QED BY <3>1, <3>2 DEF Time
  <2> DEFINE m == IF now > still(r) THEN SentenceEndpoint(r, still(r), now) ELSE r
  <2> HIDE DEF still
  <2>2. Sound(m, now) /\ m.vadOrigin = r.vadOrigin
    <3>1. ASSUME NEW q, Sound(q, now), NEW from \in Nat
          PROVE  /\ Sound(SentenceEndpoint(q, from, now), now)
                 /\ SentenceEndpoint(q, from, now).vadOrigin = q.vadOrigin
      <4>1. now \in Nat /\ now \in Int /\ now <= now
        BY <1>2
      <4>2. /\ Sound(SentenceEndpoint(q, from, now), now)
            /\ SameUtterance(SentenceEndpoint(q, from, now), q)
        BY <3>1, <4>1, EndpointSound
      <4> QED BY <4>2 DEF SameUtterance
    <3>2. Sound(SentenceEndpoint(r, still(r), now), now)
          /\ SentenceEndpoint(r, still(r), now).vadOrigin = r.vadOrigin
      BY <1>6, <2>1, <3>1
    <3> QED BY <1>6, <3>2
  <2>3. left(r) = [m EXCEPT !.inSpeech = FALSE]
    OBVIOUS
  <2> HIDE DEF m
  <2> QED BY <1>2, <2>2, <2>3, FlagsSound
<1>10. Tidy(left(r), l, now, wall) /\ left(r).text = <<>>
  <2>1. r.text # <<>> => now > still(r)
    <3> SUFFICES ASSUME r.text # <<>> PROVE now > still(r)
      OBVIOUS
    <3>1. r.watermark \in Nat /\ r.speechStart \in Time
      BY <1>6 DEF Sound, Typed
    <3> QED BY <1>2, <1>8, <3>1, ConfigTypes DEF Larger, Time, None
  <2> DEFINE e == SentenceEndpoint(r, still(r), now)
             m == IF now > still(r) THEN e ELSE r
  <2>2. left(r) = [m EXCEPT !.inSpeech = FALSE]
    OBVIOUS
  <2>3. still(r) \in Int /\ r.watermark \in Int
    <3>1. r.speechStart \in Time /\ r.watermark \in Nat
      BY <1>6 DEF Sound, Typed
    <3> QED BY <1>2, <3>1, ConfigTypes DEF Larger, Time, None
  <2> HIDE DEF still, left
  <2>4. Tidy(e, l, now, wall) /\ (e.text = <<>> \/ (e = r /\ now <= Larger(still(r), r.watermark)))
    BY <1>2, <1>6, <1>7, EndpointTidy
  <2>5. now > still(r) => e.text = <<>>
    <3> SUFFICES ASSUME now > still(r), r.text # <<>>, now <= Larger(still(r), r.watermark) PROVE FALSE
      BY <2>4
    <3>1. r.watermark < now
      BY <1>8
    <3> QED BY <1>2, <2>3, <3>1 DEF Larger
  <2>6. Tidy(m, l, now, wall) /\ m.text = <<>>
    <3> HIDE DEF e
    <3> QED BY <1>7, <2>1, <2>4, <2>5
  <2>7. Sound(m, now)
    <3>1. CASE now > still(r)
      <4>1. still(r) \in Nat
        <5>1. r.speechStart \in Time
          BY <1>6 DEF Sound, Typed
        <5>2. Larger(0, now - CommitWindow) \in Nat
          BY <1>2, ConfigTypes DEF Larger
        <5> QED BY <5>1, <5>2 DEF still, Time
      <4>2. Sound(e, now)
        BY <1>2, <1>6, <4>1, EndpointSound
      <4> HIDE DEF e
      <4> QED BY <3>1, <4>2
    <3>2. CASE ~(now > still(r))
      <4> HIDE DEF e
      <4> QED BY <1>6, <3>2
    <3> QED BY <3>1, <3>2
  <2> HIDE DEF m
  <2>8. /\ Tidy([m EXCEPT !.inSpeech = FALSE], l, now, wall)
        /\ [m EXCEPT !.inSpeech = FALSE].text = m.text
    BY <1>2, <2>6, <2>7, FlagsTidy
  <2> QED BY <2>2, <2>6, <2>8
<1>11. /\ Tidy(CutLeftover(r), l, now, wall)
       /\ WatchdogEnabled /\ WatchdogSpan > 0 => CutLeftover(r).text = <<>>
  <2> DEFINE from == Larger(r.watermark, now - WatchdogSpan)
             e == SentenceEndpoint(r, from, now)
             c == CutLeftover(r)
  <2> SUFFICES /\ Tidy(c, l, now, wall)
               /\ WatchdogEnabled /\ WatchdogSpan > 0 => c.text = <<>>
    OBVIOUS
  <2>1. c = IF WatchdogEnabled /\ r.text # <<>> /\ now > from THEN e ELSE r
    BY DEF CutLeftover
  <2>2. r.watermark \in Nat /\ WatchdogSpan \in Nat
    BY <1>6, ConfigTypes DEF Sound, Typed
  <2>3. r.text # <<>> /\ WatchdogSpan > 0 => now > from
    BY <1>2, <1>8, <2>2 DEF Larger
  <2>4. from \in Int /\ Larger(from, r.watermark) = from
    BY <1>2, <2>2 DEF Larger
  <2> HIDE DEF from, c
  <2>5. Tidy(e, l, now, wall) /\ (e.text = <<>> \/ (e = r /\ now <= Larger(from, r.watermark)))
    BY <1>2, <1>6, <1>7, EndpointTidy
  <2> HIDE DEF e
  <2>6. now > from => e.text = <<>>
    BY <1>2, <2>4, <2>5
  <2> QED BY <1>7, <2>1, <2>3, <2>5, <2>6
<1>12. Sound(CutLeftover(r), now) /\ CutLeftover(r).vadOrigin = r.vadOrigin
  <2> DEFINE from == Larger(r.watermark, now - WatchdogSpan)
  <2>1. from \in Nat
    BY <1>2, <1>6, ConfigTypes DEF Larger, Sound, Typed
  <2>2. CutLeftover(r) = r \/ CutLeftover(r) = SentenceEndpoint(r, from, now)
    BY DEF CutLeftover
  <2> HIDE DEF from
  <2> QED BY <1>2, <1>6, <2>1, <2>2, EndpointSound DEF SameUtterance
<1>13. vad' \in VadType /\ vad'.clock = vad.clock
  BY <1>2, <1>3 DEF VadType
<1>14. Sound(s', now) /\ s'.vadOrigin = s.vadOrigin
  <2>1. s' = left(r) \/ s' = CutLeftover(r)
    BY <1>1
  <2> HIDE DEF left
  <2> QED BY <1>6, <1>9, <1>12, <2>1 DEF SameUtterance
<1>15. Tidy(s', l, now, wall) /\ (WatchdogEnabled /\ WatchdogSpan > 0 => s'.text = <<>>)
  <2>1. s' = left(r) \/ s' = CutLeftover(r)
    BY <1>1
  <2> HIDE DEF left
  <2> QED BY <1>10, <1>11, <2>1
<1>16. Tidy(s', s'.sentences, now', wall') /\ Grown(s.sentences, s'.sentences)
  BY <1>3, <1>14, <1>15, TidyAgain DEF Tidy, l
<1> QED BY <1>2, <1>3, <1>13, <1>14, <1>15, <1>16 DEF IInv, Stopping

\* A resume keeps it.
LEMMA ResumeInv == IInv /\ Resume => IInv' /\ Grown(s.sentences, s'.sentences)
<1> SUFFICES ASSUME IInv, Resume PROVE IInv' /\ Grown(s.sentences, s'.sentences)
  OBVIOUS
<1> DEFINE p == [s EXCEPT !.segmentStart = None]
<1>1. Sound(p, now) /\ SameUtterance(p, s)
  BY FlagsSound DEF IInv
<1>2. Tidy(p, s.sentences, now, wall) /\ p.text = s.text
  BY FlagsTidy DEF IInv
<1> HIDE DEF p
<1>3. s' = p /\ now' = now /\ wall' = wall /\ vad' = vad /\ stop' = stop /\ ~Stopping
  BY DEF Resume, p
<1>4. InStep(p, vad.open)
  BY <1>1, <1>3 DEF IInv, InStep, SameUtterance
<1>5. WatchdogMinChars > 0 => Bounded(p, now)
  BY <1>1, <1>3, <1>2 DEF IInv, Bounded, SameUtterance
<1>6. Tidy(s', s'.sentences, now', wall') /\ Grown(s.sentences, s'.sentences)
  BY <1>1, <1>3, <1>2, TidyAgain DEF Tidy
<1>7. stop' # "finished" /\ ~Stopping'
  BY <1>3 DEF Stopping
<1> QED BY <1>1, <1>3, <1>4, <1>5, <1>6, <1>7 DEF IInv, SameUtterance

\* Sentences stay in order whatever becomes of their second passes.
LEMMA SettledCut ==
  ASSUME NEW l, NEW m, NEW w \in Nat, WellCut(l, w), m \in Seq(SentenceType), Len(m) = Len(l),
         \A i \in 1..Len(l) : m[i].start = l[i].start /\ m[i].end = l[i].end
  PROVE  WellCut(m, w)
<1>1. l \in Seq(SentenceType)
  BY DEF WellCut
<1>2. DOMAIN m = 1..Len(l) /\ DOMAIN l = 1..Len(l)
  BY <1>1
<1>3. \A i \in DOMAIN m : m[i].start < m[i].end /\ m[i].end <= w
  BY <1>2 DEF WellCut
<1>4. \A i, j \in DOMAIN m : i < j => m[i].end <= m[j].start
  BY <1>2 DEF WellCut
<1> QED BY <1>3, <1>4 DEF WellCut

\* A session whose sentences alone change, without moving, stays sound.
LEMMA SentencesSound ==
  ASSUME NEW q, NEW t \in Nat, Sound(q, t), NEW m \in Seq(SentenceType),
         Len(m) = Len(q.sentences),
         \A i \in 1..Len(m) : m[i].start = q.sentences[i].start /\ m[i].end = q.sentences[i].end
  PROVE  /\ Sound([q EXCEPT !.sentences = m], t)
         /\ SameUtterance([q EXCEPT !.sentences = m], q)
<1>1. WellCut(q.sentences, q.watermark) /\ q.watermark \in Nat
  BY DEF Sound, Typed
<1>2. WellCut(m, q.watermark)
  BY <1>1, SettledCut
<1> QED BY <1>2 DEF Sound, Typed, NewSession, SameUtterance

\* m are the sentences l, of which some that had a second pass running have settled.
Settled(l, m) ==
  /\ m \in Seq(SentenceType) /\ Len(m) = Len(l)
  /\ \A i \in 1..Len(m) :
       /\ m[i].start = l[i].start /\ m[i].end = l[i].end /\ m[i].provisional = l[i].provisional
       /\ m[i].task # l[i].task => l[i].task = "running"

\* A step that only settles second passes keeps the invariant.
LEMMA OnlySentencesInv ==
  ASSUME IInv, NEW m, Settled(s.sentences, m),
         s' = [s EXCEPT !.sentences = m], stop # "finished", UNCHANGED <<now, wall, vad, stop>>
  PROVE  IInv' /\ Settled(s.sentences, s'.sentences)
<1> DEFINE p == [s EXCEPT !.sentences = m]
<1>1. Sound(p, now) /\ SameUtterance(p, s)
  BY SentencesSound DEF IInv, Settled
<1>2. /\ p.sentences = m /\ p.text = s.text /\ p.dropped = s.dropped /\ p.tokens = s.tokens
      /\ p.forceTimes = s.forceTimes /\ p.forced = s.forced /\ p.latch = s.latch
      /\ p.watermark = s.watermark
  BY DEF IInv, Sound, Typed, NewSession
<1> HIDE DEF p
<1>3. s' = p
  BY DEF p
<1>4. ~Stopping => InStep(p, vad.open)
  BY <1>1 DEF IInv, InStep, SameUtterance
<1>5. Tidy(p, m, now, wall)
  <2>1. s.sentences \in Seq(SentenceType)
    BY DEF IInv, Sound, WellCut
  <2>2. DOMAIN m = DOMAIN s.sentences /\ \A i \in DOMAIN s.sentences : i \in 1..Len(m)
    BY <2>1 DEF Settled
  <2>3. Placed(m, s.text, s.dropped, s.tokens)
    BY <2>2, PlacedSettled DEF IInv, Tidy, Settled
  <2>4. Grown(m, m) /\ m \in Seq(SentenceType)
    BY DEF Grown, Settled
  <2> QED BY <1>1, <1>2, <2>3, <2>4 DEF IInv, Tidy, Cuttable, SameUtterance
<1>6. ~Stopping /\ WatchdogMinChars > 0 => Bounded(p, now)
  BY <1>1, <1>2 DEF IInv, Bounded, SameUtterance
<1>7. Stopping' = Stopping /\ stop' # "finished" /\ now' = now /\ wall' = wall /\ vad' = vad /\ stop' = stop
  BY DEF Stopping
<1>8. /\ Tidy(s', s'.sentences, now', wall')
      /\ Stopping /\ WatchdogEnabled /\ WatchdogSpan > 0 => s'.text = <<>>
  BY <1>3, <1>2, <1>5, <1>7 DEF IInv
<1> QED BY <1>1, <1>3, <1>4, <1>2, <1>6, <1>7, <1>8 DEF IInv, SameUtterance

\* The end of one second pass, whatever it brought, keeps it.
LEMMA SettleInv ==
  ASSUME IInv, NEW i \in Running, NEW outcome \in {"done", "cancelled"},
         NEW result \in {"none", "text", "empty"}, SettleTask(i, outcome, result),
         UNCHANGED <<now, wall, vad, stop>>
  PROVE  IInv' /\ Settled(s.sentences, s'.sentences) /\ stop # "finished"
<1> DEFINE l == s.sentences
           r == [l[i] EXCEPT !.task = outcome, !.final = result]
           m == [l EXCEPT ![i] = r]
<1>1. l \in Seq(SentenceType) /\ i \in DOMAIN l /\ DOMAIN l = 1..Len(l) /\ l[i].task = "running"
  <2>1. l \in Seq(SentenceType)
    BY DEF IInv, Sound, WellCut
  <2> QED BY <2>1 DEF Running
<1>2. l[i] \in SentenceType
  BY <1>1
<1>3. r \in SentenceType /\ r.start = l[i].start /\ r.end = l[i].end /\ r.provisional = l[i].provisional
  BY <1>2 DEF SentenceType
<1>4. s' = [s EXCEPT !.sentences = m]
  BY DEF SettleTask
<1> HIDE DEF r
<1>5. m \in Seq(SentenceType) /\ Len(m) = Len(l)
  BY <1>1, <1>3
<1>6. \A j \in 1..Len(m) : /\ m[j].start = l[j].start /\ m[j].end = l[j].end
                           /\ m[j].provisional = l[j].provisional
                           /\ m[j].task # l[j].task => l[j].task = "running"
  BY <1>1, <1>3, <1>5
<1>7. stop # "finished"
  BY DEF IInv, Concluded, Running
<1> HIDE DEF m
<1>8. Settled(l, m)
  BY <1>5, <1>6 DEF Settled
<1> QED BY <1>4, <1>7, <1>8, OnlySentencesInv

\* So does the timeout of the wait, which cancels all that still run.
LEMMA StopTimeoutInv ==
  IInv /\ StopTimeout => IInv' /\ Settled(s.sentences, s'.sentences) /\ stop # "finished"
<1> SUFFICES ASSUME IInv, StopTimeout
             PROVE  IInv' /\ Settled(s.sentences, s'.sentences) /\ stop # "finished"
  OBVIOUS
<1> DEFINE l == s.sentences
           r(i) == IF i \in Running THEN [l[i] EXCEPT !.task = "cancelled"] ELSE l[i]
           m == [i \in DOMAIN l |-> r(i)]
<1>1. l \in Seq(SentenceType)
  BY DEF IInv, Sound, WellCut
<1>2. DOMAIN l = 1..Len(l) /\ Len(l) \in Nat /\ \A i \in 1..Len(l) : l[i] \in SentenceType
  BY <1>1
<1>3. ASSUME NEW i \in 1..Len(l)
      PROVE  /\ r(i) \in SentenceType /\ r(i).start = l[i].start /\ r(i).end = l[i].end
             /\ r(i).provisional = l[i].provisional
             /\ r(i).task # l[i].task => l[i].task = "running"
  <2>1. l[i] \in SentenceType
    BY <1>2
  <2>2. /\ [l[i] EXCEPT !.task = "cancelled"] \in SentenceType
        /\ [l[i] EXCEPT !.task = "cancelled"].start = l[i].start
        /\ [l[i] EXCEPT !.task = "cancelled"].end = l[i].end
        /\ [l[i] EXCEPT !.task = "cancelled"].provisional = l[i].provisional
    BY <2>1 DEF SentenceType
  <2>3. i \in Running => l[i].task = "running"
    BY DEF Running
  <2> QED BY <2>1, <2>2, <2>3
<1>4. s' = [s EXCEPT !.sentences = m] /\ stop # "finished" /\ UNCHANGED <<now, wall, vad, stop>>
  BY DEF StopTimeout
<1> HIDE DEF r
<1>5. m \in Seq(SentenceType) /\ Len(m) = Len(l)
  BY <1>2, <1>3
<1>6. \A i \in 1..Len(m) : /\ m[i].start = l[i].start /\ m[i].end = l[i].end
                           /\ m[i].provisional = l[i].provisional
                           /\ m[i].task # l[i].task => l[i].task = "running"
  BY <1>2, <1>3, <1>5
<1> HIDE DEF m
<1>7. Settled(l, m)
  BY <1>5, <1>6 DEF Settled
<1> QED BY <1>4, <1>7, OnlySentencesInv

\* session_finished closes the session as it is.
LEMMA FinishedInv == IInv /\ SessionFinished => IInv'
<1> SUFFICES ASSUME IInv, SessionFinished PROVE IInv'
  OBVIOUS
<1> DEFINE x == [i \in DOMAIN s.sentences |-> TranscriptText(s.sentences[i])]
           p == [s EXCEPT !.transcript = x]
<1>1. s' = p /\ stop' = "finished" /\ now' = now /\ wall' = wall /\ vad' = vad /\ stop = "waiting"
      /\ Running = {}
  BY DEF SessionFinished
<1> HIDE DEF x
<1>2. /\ Sound(p, now) /\ SameUtterance(p, s) /\ SameText(p, s) /\ p.latch = s.latch
      /\ p.watermark = s.watermark /\ p.transcript = x
  BY DEF IInv, Sound, Typed, NewSession, SameUtterance, SameText
<1> HIDE DEF p
<1>3. Concluded(p)
  <2>1. p.sentences = s.sentences
    BY <1>2 DEF SameText
  <2>2. \A i \in DOMAIN s.sentences : s.sentences[i].task # "running"
    BY <1>1 DEF Running
  <2> QED BY <1>2, <2>1, <2>2 DEF Concluded, x
<1>4. Tidy(p, p.sentences, now, wall)
  <2>1. Cuttable(p, now)
    BY <1>2 DEF IInv, Tidy, Cuttable, SameUtterance, SameText
  <2>2. Tidy(p, s.sentences, now, wall)
    BY <1>2, <2>1, SameTextTidy DEF IInv
  <2> QED BY <1>2, <2>2 DEF SameText
<1>5. Stopping /\ Stopping' /\ p.text = s.text
  BY <1>1, <1>2 DEF Stopping, SameText
<1>6. now \in Nat /\ wall \in Nat /\ vad \in VadType /\ p.vadOrigin + vad.clock <= now
  BY <1>2 DEF IInv, SameUtterance
<1> QED BY <1>1, <1>2, <1>3, <1>4, <1>5, <1>6 DEF IInv

\* IInv is inductive: one step per disjunct of Next.
LEMMA NextInv == IInv /\ [Next]_vars => IInv'
<1> SUFFICES ASSUME IInv, [Next]_vars PROVE IInv'
  OBVIOUS
<1>1. CASE Audio
  BY <1>1, AudioInv
<1>2. CASE ProcessCommit
  BY <1>2, CommitInv
<1>3. CASE ProcessStop
  BY <1>3, StopInv
<1>4. CASE Resume
  BY <1>4, ResumeInv
<1>5. ASSUME NEW i \in DOMAIN s.sentences, FinalStep(i) PROVE IInv'
  <2>1. PICK result \in Results : FinishFinal(i, result)
    BY <1>5 DEF FinalStep
  <2>2. result \in {"none", "text", "empty"}
    BY <2>1, ConfigAssumption
  <2> QED BY <2>1, <2>2, SettleInv DEF FinishFinal
<1>6. ASSUME NEW i \in DOMAIN s.sentences, CancelFinal(i) PROVE IInv'
  BY <1>6, SettleInv DEF CancelFinal
<1>7. CASE StopTimeout
  BY <1>7, StopTimeoutInv
<1>8. CASE SessionFinished
  BY <1>8, FinishedInv
<1>9. CASE UNCHANGED vars
  BY <1>9 DEF vars, IInv, Stopping, Bounded
<1> QED BY <1>1, <1>2, <1>3, <1>4, <1>5, <1>6, <1>7, <1>8, <1>9 DEF Next, Finished

\* The invariant of the session, of which the theorems below are parts.
THEOREM Invariant == Spec => []IInv
<1> QED BY InitInv, NextInv, PTL DEF Spec

----------------------------------------------------------------------------
(* What follows from it.                                                   *)

\* Type correctness of every reachable state, for every configuration: audio,
\* COMMIT, STOP, resume and the second passes leave the session well formed.
THEOREM TypeCorrect == Spec => []TypeOK
<1>1. IInv => TypeOK
  BY DEF IInv, Sound, Typed, WellCut, VadType, TypeOK
<1> QED BY <1>1, Invariant, PTL

\* The watermark's promise: no two sentences overlap, and none reaches beyond the
\* audio received, whichever cutters made them and however VAD, COMMIT, STOP and
\* resume interleave.
THEOREM SentencesAlwaysOrdered == Spec => []SentencesOrdered
<1>1. IInv => SentencesOrdered
  <2> SUFFICES ASSUME IInv PROVE SentencesOrdered
    OBVIOUS
  <2>1. /\ WellCut(s.sentences, s.watermark) /\ s.watermark \in Nat
        /\ s.watermark <= now /\ now \in Nat
    BY DEF IInv, Sound, Typed
  <2>2. \A i \in DOMAIN s.sentences : s.sentences[i] \in SentenceType
    BY <2>1 DEF WellCut
  <2>3. \A i \in DOMAIN s.sentences : s.sentences[i].end \in Nat
    BY <2>2 DEF SentenceType
  <2> QED BY <2>1, <2>3 DEF WellCut, SentencesOrdered
<1> QED BY <1>1, Invariant, PTL

\* The session, the pipeline and the VAD cache never disagree on whether an
\* utterance is open, and the VAD clock never runs ahead of the audio.
THEOREM UtterancesAgree == Spec => []OneUtteranceOpen
<1>1. IInv => OneUtteranceOpen
  BY DEF IInv, InStep, OneUtteranceOpen
<1> QED BY <1>1, Invariant, PTL

\* No token of the first pass is lost or shown twice: each is in the provisional of
\* exactly one sentence, waits to be cut, or was thrown away, for every length of
\* audio and whatever cuts it; and sentences hold tokens in their order.
THEOREM TextAlwaysConserved == Spec => []TextConserved
<1>1. IInv => TextConserved
  <2> SUFFICES ASSUME IInv PROVE TextConserved
    OBVIOUS
  <2>1. /\ s.sentences \in Seq(SentenceType) /\ s.tokens \in Nat
        /\ Placed(s.sentences, s.text, s.dropped, s.tokens)
    BY DEF IInv, Sound, Typed, Tidy
  <2>2. ASSUME NEW t \in Tokens
        PROVE  Cardinality(Holders(t)) + (IF t \in s.dropped THEN 1 ELSE 0)
                 + (IF t \in Elems(s.text) THEN 1 ELSE 0) = 1
    <3>1. t \in 1..s.tokens
      BY DEF Tokens
    <3>2. Cardinality({i \in DOMAIN s.sentences : t \in Elems(s.sentences[i].provisional)})
            + (IF t \in s.dropped THEN 1 ELSE 0) + (IF t \in Elems(s.text) THEN 1 ELSE 0) = 1
      BY <2>1, <3>1, PlacedOnce
    <3> QED BY <3>2 DEF Holders
  <2>3. \A i, j \in DOMAIN s.sentences : i < j =>
          \A t \in Elems(s.sentences[i].provisional), u \in Elems(s.sentences[j].provisional) : t < u
    BY <2>1 DEF Placed
  <2> QED BY <2>2, <2>3 DEF TextConserved
<1> QED BY <1>1, Invariant, PTL

\* STOP leaves no text behind, provided that the watchdog looks back at some audio
\* (the default is 30 s), and the transcript of session_finished shows every sentence
\* as it ended.
THEOREM NothingLostAtStop == ASSUME WatchdogSpan > 0 PROVE Spec => []NoTextLostAtStop
<1>1. IInv => NoTextLostAtStop
  BY DEF IInv, Concluded, NoTextLostAtStop
<1> QED BY <1>1, Invariant, PTL

\* Outside speech no text outlives the watchdog's threshold, provided that it is
\* above 0 (the default is 8), and no utterance outlives the forced cut.
THEOREM AccumulationAlwaysBounded ==
  ASSUME WatchdogMinChars > 0 PROVE Spec => []AccumulationBounded
<1>1. IInv => AccumulationBounded
  BY DEF IInv, Bounded, AccumulationBounded
<1> QED BY <1>1, Invariant, PTL

\* No hour holds more forced adjudications than the limit, although those that are
\* older than an hour are forgotten.
THEOREM AlwaysRateLimited == Spec => []WatchdogRateLimited
<1>1. IInv => WatchdogRateLimited
  BY DEF IInv, Tidy, Limited, Window, WatchdogRateLimited
<1> QED BY <1>1, Invariant, PTL

----------------------------------------------------------------------------
(* The sentences are an append-only log.                                   *)

Intervals(l) == [i \in DOMAIN l |-> [start |-> l[i].start, end |-> l[i].end]]
Fates(l) == [i \in DOMAIN l |-> Fate(l[i])]

LEMMA FateOf ==
  ASSUME NEW r \in SentenceType
  PROVE  /\ r.task = "running" => Fate(r) = "open"
         /\ r.task = "done" => Fate(r) = "final"
         /\ r.task = "cancelled" => Fate(r) = "abandoned"
         /\ r.task \in {"running", "done", "cancelled"}
BY DEF Fate, SentenceType

LEMMA IntervalsOf ==
  ASSUME NEW l \in Seq(SentenceType), NEW w \in Nat, WellCut(l, w)
  PROVE  /\ DOMAIN Intervals(l) = 1..Len(l) /\ Len(Intervals(l)) = Len(l) /\ DOMAIN Fates(l) = 1..Len(l)
         /\ \A i \in 1..Len(l) : /\ Intervals(l)[i] = [start |-> l[i].start, end |-> l[i].end]
                                 /\ Fates(l)[i] = Fate(l[i])
         /\ Log!WellFormed(Intervals(l))
<1> DEFINE v == Intervals(l)
<1>1. DOMAIN l = 1..Len(l) /\ Len(l) \in Nat /\ \A i \in 1..Len(l) : l[i] \in SentenceType
  OBVIOUS
<1>2. DOMAIN v = 1..Len(l) /\ \A i \in 1..Len(l) : v[i] = [start |-> l[i].start, end |-> l[i].end]
  BY <1>1 DEF Intervals
<1>3. DOMAIN Fates(l) = 1..Len(l) /\ \A i \in 1..Len(l) : Fates(l)[i] = Fate(l[i])
  BY <1>1 DEF Fates
<1>4. Len(v) = Len(l)
  <2> DEFINE n == Len(l)
             e(i) == [start |-> l[i].start, end |-> l[i].end]
  <2>1. v = [i \in 1..n |-> e(i)] /\ n \in Nat
    BY <1>1 DEF Intervals
  <2> HIDE DEF e, n, v
  <2>2. Len([i \in 1..n |-> e(i)]) = n
    BY <2>1
  <2> QED BY <2>1, <2>2 DEF n
<1> HIDE DEF v
<1>5. \A i \in 1..Len(l) : v[i].start = l[i].start /\ v[i].end = l[i].end /\ l[i].start \in Nat
  BY <1>1, <1>2 DEF SentenceType
<1>6. Log!WellFormed(v)
  <2>1. \A i \in DOMAIN v : 0 <= v[i].start /\ v[i].start < v[i].end
    BY <1>1, <1>2, <1>5 DEF WellCut
  <2>2. \A i, j \in DOMAIN v : i < j => v[i].end <= v[j].start
    BY <1>1, <1>2, <1>5 DEF WellCut
  <2> QED BY <2>1, <2>2 DEF Log!WellFormed
<1> QED BY <1>2, <1>3, <1>4, <1>6 DEF v

\* What the invariant says of the log.
LEMMA LogState ==
  ASSUME IInv
  PROVE  /\ s.sentences \in Seq(SentenceType) /\ WellCut(s.sentences, s.watermark) /\ s.watermark \in Nat
BY DEF IInv, Sound, Typed, WellCut

\* A handler adds sentences to the log, or leaves it as it is.
LEMMA HandlerLogs ==
  ASSUME IInv, IInv', Grown(s.sentences, s'.sentences), stop # "finished", stop' # "finished"
  PROVE  [Log!LogNext]_(Log!logVars)
<1> DEFINE a == s.sentences
           b == s'.sentences
<1>1. /\ a \in Seq(SentenceType) /\ WellCut(a, s.watermark) /\ s.watermark \in Nat
  BY LogState
<1>2. /\ b \in Seq(SentenceType) /\ WellCut(b, s'.watermark) /\ s'.watermark \in Nat
  BY DEF IInv, Sound, Typed, WellCut
<1>3. /\ DOMAIN Intervals(a) = 1..Len(a) /\ Len(Intervals(a)) = Len(a) /\ DOMAIN Fates(a) = 1..Len(a)
      /\ \A i \in 1..Len(a) : /\ Intervals(a)[i] = [start |-> a[i].start, end |-> a[i].end]
                              /\ Fates(a)[i] = Fate(a[i])
  BY <1>1, IntervalsOf
<1>4. /\ DOMAIN Intervals(b) = 1..Len(b) /\ Len(Intervals(b)) = Len(b) /\ DOMAIN Fates(b) = 1..Len(b)
      /\ \A i \in 1..Len(b) : /\ Intervals(b)[i] = [start |-> b[i].start, end |-> b[i].end]
                              /\ Fates(b)[i] = Fate(b[i])
      /\ Log!WellFormed(Intervals(b))
  BY <1>2, IntervalsOf
<1>5. Len(a) \in Nat /\ Len(b) \in Nat /\ Len(a) <= Len(b)
  BY <1>1, <1>2 DEF Grown
<1>6. CASE Len(b) = Len(a)
  <2>1. \A i \in 1..Len(b) : b[i] = a[i]
    BY <1>6 DEF Grown
  <2>2. b = a
    BY <1>1, <1>2, <1>6, <2>1, SeqEqual
  <2> QED BY <2>2 DEF Log!logVars
<1>7. CASE Len(a) < Len(b)
  <2>1. \A i \in 1..Len(a) : i \in 1..Len(b) /\ b[i] = a[i]
    BY <1>5 DEF Grown
  <2>2. \A i \in 1..Len(a) : Intervals(b)[i] = Intervals(a)[i] /\ Fates(b)[i] = Fates(a)[i]
    BY <1>3, <1>4, <2>1
  <2>3. ASSUME NEW i \in 1..Len(b), i \notin 1..Len(a) PROVE Fates(b)[i] = "open"
    <3>1. i \in (Len(a) + 1)..Len(b) /\ b[i] \in SentenceType
      BY <1>2, <1>5, <2>3
    <3>2. b[i].task = "running"
      BY <3>1 DEF Grown
    <3> QED BY <1>4, <3>1, <3>2, FateOf
  <2>4. Log!Extend
    <3> HIDE DEF a, b
    <3>1. Len(Intervals(b)) > Len(Intervals(a))
      BY <1>3, <1>4, <1>5, <1>7
    <3>2. \A i \in DOMAIN Intervals(a) : Intervals(b)[i] = Intervals(a)[i]
      BY <1>3, <2>2
    <3>3. DOMAIN Fates(b) = DOMAIN Intervals(b)
      BY <1>4
    <3>4. \A i \in DOMAIN Intervals(b) :
            Fates(b)[i] = IF i \in DOMAIN Intervals(a) THEN Fates(a)[i] ELSE "open"
      BY <1>3, <1>4, <2>2, <2>3
    <3> QED BY <1>4, <3>1, <3>2, <3>3, <3>4 DEF Log!Extend, Intervals, Fates, a, b
  <2> QED BY <2>4 DEF Log!LogNext
<1> QED BY <1>5, <1>6, <1>7

\* Second passes that end settle sentences of the log, each for the first time.
LEMMA SettlingLogs ==
  ASSUME IInv, Settled(s.sentences, s'.sentences), stop # "finished", stop' = stop
  PROVE  [Log!LogNext]_(Log!logVars)
<1> DEFINE a == s.sentences
           b == s'.sentences
<1>1. /\ a \in Seq(SentenceType) /\ WellCut(a, s.watermark) /\ s.watermark \in Nat
  BY LogState
<1>2. /\ b \in Seq(SentenceType) /\ Len(b) = Len(a)
  BY DEF Settled
<1>3. DOMAIN a = DOMAIN b /\ DOMAIN a = 1..Len(a)
  BY <1>1, <1>2
<1>4. ASSUME NEW i \in DOMAIN a
      PROVE  /\ [start |-> b[i].start, end |-> b[i].end] = [start |-> a[i].start, end |-> a[i].end]
             /\ \/ Fate(b[i]) = Fate(a[i])
                \/ Fate(a[i]) = "open" /\ Fate(b[i]) \in {"final", "abandoned"}
  <2>1. a[i] \in SentenceType /\ b[i] \in SentenceType /\ i \in 1..Len(b)
    BY <1>1, <1>2, <1>3
  <2>2. /\ b[i].start = a[i].start /\ b[i].end = a[i].end
        /\ b[i].task # a[i].task => a[i].task = "running"
    BY <2>1 DEF Settled
  <2>3. /\ \/ Fate(b[i]) = Fate(a[i])
           \/ Fate(a[i]) = "open" /\ Fate(b[i]) \in {"final", "abandoned"}
    BY <2>1, <2>2, FateOf
  <2> QED BY <2>2, <2>3
<1>5. Intervals(b) = Intervals(a)
  BY <1>3, <1>4 DEF Intervals
<1>6. DOMAIN Fates(b) = DOMAIN Fates(a) /\ DOMAIN Fates(a) = DOMAIN a
  BY <1>3 DEF Fates
<1>7. ASSUME NEW i \in DOMAIN Fates(a)
      PROVE  \/ Fates(b)[i] = Fates(a)[i]
             \/ Fates(a)[i] = "open" /\ Fates(b)[i] \in {"final", "abandoned"}
  <2>1. i \in DOMAIN a
    BY <1>6
  <2>2. Fates(a)[i] = Fate(a[i]) /\ Fates(b)[i] = Fate(b[i])
    BY <1>3, <2>1 DEF Fates
  <2> HIDE DEF a, b
  <2> QED BY <1>4, <2>1, <2>2
<1> HIDE DEF a, b
<1>8. Log!Settle
  BY <1>5, <1>6, <1>7 DEF Log!Settle, Intervals, Fates, a, b
<1> QED BY <1>8 DEF Log!LogNext

\* session_finished closes the log, in which nothing is open.
LEMMA FinishedLogs == IInv /\ SessionFinished => Log!LogNext
<1> SUFFICES ASSUME IInv, SessionFinished PROVE Log!LogNext
  OBVIOUS
<1>1. s'.sentences = s.sentences /\ stop' = "finished" /\ stop = "waiting"
  BY DEF IInv, Sound, Typed, NewSession, SessionFinished
<1>2. ASSUME NEW i \in DOMAIN s.sentences PROVE Fate(s.sentences[i]) # "open"
  <2>1. s.sentences[i] \in SentenceType /\ s.sentences[i].task # "running"
    BY LogState DEF SessionFinished, Running
  <2> QED BY <2>1, FateOf
<1>3. Log!Close
  BY <1>1, <1>2 DEF Log!Close
<1> QED BY <1>3 DEF Log!LogNext

\* Whatever a step of the session does, the log of its sentences does what SentenceLog
\* allows.
LEMMA StepLogs == IInv /\ [Next]_vars => [Log!LogNext]_(Log!logVars)
<1> SUFFICES ASSUME IInv, [Next]_vars PROVE [Log!LogNext]_(Log!logVars)
  OBVIOUS
<1>1. ASSUME IInv' /\ Grown(s.sentences, s'.sentences), ~Stopping, stop' # "finished"
      PROVE  [Log!LogNext]_(Log!logVars)
  BY <1>1, HandlerLogs DEF Stopping
<1>2. CASE Audio
  <2>1. PICK d, gap, k, h, silent, result : ProcessAudioChunk(d, gap, k, h, silent, result)
    BY <1>2, ZenonT(60) DEF Audio
  <2>2. ~Stopping /\ stop' = stop
    BY <2>1 DEF ProcessAudioChunk
  <2> QED BY <1>1, <1>2, <2>2, AudioInv DEF Stopping
<1>3. CASE ProcessCommit
  BY <1>1, <1>3, CommitInv DEF ProcessCommit, Stopping
<1>4. CASE ProcessStop
  BY <1>1, <1>4, StopInv DEF ProcessStop
<1>5. CASE Resume
  BY <1>1, <1>5, ResumeInv DEF Resume, Stopping
<1>6. ASSUME NEW i \in DOMAIN s.sentences, FinalStep(i) PROVE [Log!LogNext]_(Log!logVars)
  <2>1. PICK result \in Results : FinishFinal(i, result)
    BY <1>6 DEF FinalStep
  <2>2. result \in {"none", "text", "empty"}
    BY <2>1, ConfigAssumption
  <2>3. Settled(s.sentences, s'.sentences) /\ stop # "finished" /\ stop' = stop
    BY <2>1, <2>2, SettleInv DEF FinishFinal
  <2> QED BY <2>3, SettlingLogs
<1>7. ASSUME NEW i \in DOMAIN s.sentences, CancelFinal(i) PROVE [Log!LogNext]_(Log!logVars)
  <2>1. Settled(s.sentences, s'.sentences) /\ stop # "finished" /\ stop' = stop
    BY <1>7, SettleInv DEF CancelFinal
  <2> QED BY <2>1, SettlingLogs
<1>8. CASE StopTimeout
  <2>1. Settled(s.sentences, s'.sentences) /\ stop # "finished" /\ stop' = stop
    BY <1>8, StopTimeoutInv DEF StopTimeout
  <2> QED BY <2>1, SettlingLogs
<1>9. CASE SessionFinished
  BY <1>9, FinishedLogs
<1>10. CASE UNCHANGED vars
  BY <1>10 DEF vars, Log!logVars
<1> QED BY <1>2, <1>3, <1>4, <1>5, <1>6, <1>7, <1>8, <1>9, <1>10 DEF Next, Finished

\* The session implements the sentence log, for every configuration: its sentences are
\* never reordered, moved or withdrawn, each is settled at most once and never after
\* session_finished.
THEOREM AlwaysTheLog == Spec => ImplementsLog
<1>1. Init => Log!LogInit
  <2> SUFFICES ASSUME Init PROVE Log!LogInit
    OBVIOUS
  <2>1. s.sentences = <<>> /\ stop = "no"
    BY DEF Init, NewSession
  <2> QED BY <2>1 DEF Log!LogInit
<1>2. IInv /\ [Next]_vars => [Log!LogNext]_(Log!logVars)
  BY StepLogs
<1> QED BY <1>1, <1>2, Invariant, PTL DEF Spec, ImplementsLog, Log!LogSpec
=============================================================================

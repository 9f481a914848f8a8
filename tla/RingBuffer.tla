----------------------------- MODULE RingBuffer -----------------------------
(***************************************************************************)
(* The audio of one session: the gate that binary frames pass              *)
(* (server/websocket_server.py, _validate_audio_frame), and the circular   *)
(* buffer they are written to and utterances are cut from                  *)
(* (core/ring_buffer.py).                                                  *)
(*                                                                         *)
(* A byte is the number of its arrival, so that what is read back can be   *)
(* compared with what was heard.  Every method of the buffer is atomic     *)
(* under its lock.                                                         *)
(***************************************************************************)
EXTENDS Integers, Sequences

CONSTANTS
  BytesPerMs,  \* bytes_per_ms
  SizeMs,      \* max_duration_sec, in milliseconds
  PreRollMs,   \* pre_roll_ms
  MaxFrameMs,  \* server.max_audio_frame_ms
  Frames,      \* the lengths of the binary messages a client sends, in bytes
  MaxBytes     \* bound: bytes received in one session

\* A frame fits into the buffer (2 s and 32 s by default).
ASSUME BufferAssumption ==
  /\ {BytesPerMs, SizeMs} \subseteq Nat \ {0}
  /\ {PreRollMs, MaxFrameMs, MaxBytes} \subseteq Nat /\ Frames \subseteq Nat
  /\ MaxFrameMs <= SizeMs

VARIABLES
  buffer,    \* _buffer
  head,      \* _head: the index written next
  total,     \* _total_bytes_written
  received,  \* bytes the client has sent in this session
  heard      \* history: the bytes the gate has let through, in order

vars == <<buffer, head, total, received, heard>>

Size == SizeMs * BytesPerMs  \* max_bytes
Slots == 0..(Size - 1)
Lesser(a, b) == IF a <= b THEN a ELSE b
Larger(a, b) == IF a >= b THEN a ELSE b

Init ==
  /\ buffer = [i \in Slots |-> 0] /\ head = 0 /\ total = 0
  /\ received = 0 /\ heard = <<>>

\* Fault: an oversized frame passes.
AcceptedUnbounded(n) == n - (n % 2)

\* _validate_audio_frame: half a sample, and what exceeds the limit, is cut off.
Accepted(n) == Lesser(n - (n % 2), MaxFrameMs * BytesPerMs)

\* The first n bytes the client sends next.
Arriving(n) == [k \in 1..n |-> received + k]

\* Of a chunk larger than the buffer only the tail is kept.
NewestPart(data) ==
  IF Len(data) >= Size THEN SubSeq(data, Len(data) - Size + 1, Len(data)) ELSE data

\* Fault: the index is left behind the end.
StoreWithoutModulo(d) ==
  /\ buffer' = [i \in Slots |->
       IF head <= i /\ i < head + Len(d) THEN d[i - head + 1]
       ELSE IF i < head + Len(d) - Size THEN d[i + Size - head + 1]
       ELSE buffer[i]]
  /\ head' = IF Len(d) <= Size - head THEN head + Len(d) ELSE head + Len(d) - Size

\* write: up to the end of the buffer, and the rest from its beginning.
Store(d) ==
  LET n    == Len(d)
      room == Size - head
  IN /\ buffer' = [i \in Slots |->
          IF head <= i /\ i < head + n THEN d[i - head + 1]
          ELSE IF i < n - room THEN d[i + room + 1]
          ELSE buffer[i]]
     /\ head' = IF n <= room THEN (head + n) % Size ELSE n - room

Write(data) == Store(NewestPart(data)) /\ total' = total + Len(NewestPart(data))

\* A binary message: what the gate leaves of it is written, if anything.
Frame(n) ==
  LET data == Arriving(Accepted(n))
  IN /\ received + n <= MaxBytes
     /\ received' = received + n
     /\ heard' = heard \o data
     /\ IF data = <<>> THEN UNCHANGED <<buffer, head, total>> ELSE Write(data)

\* clear, when the session is cleaned up; the next session starts afresh.
Clear ==
  /\ buffer' = [i \in Slots |-> 0] /\ head' = 0 /\ total' = 0
  /\ received' = 0 /\ heard' = <<>>

Next == (\E n \in Frames : Frame(n)) \/ Clear

Spec == Init /\ [][Next]_vars

----------------------------------------------------------------------------
(* Reading back.                                                           *)

TotalMs == total \div BytesPerMs
OldestMs == Larger(0, (total - Size) \div BytesPerMs)

\* n bytes from index i on, round the end of the buffer.
ReadFrom(i, n) ==
  IF i + n <= Size THEN [k \in 1..n |-> buffer[i + k - 1]]
  ELSE [k \in 1..(Size - i) |-> buffer[i + k - 1]] \o [k \in 1..(n - (Size - i)) |-> buffer[k - 1]]

\* Fault: what is no longer kept is read all the same.
GetRangeUnclamped(start, end) ==
  LET a == Lesser(start, TotalMs)
      b == Larger(a, Lesser(end, TotalMs))
  IN IF a >= b THEN <<>>
     ELSE ReadFrom((head - (total - a * BytesPerMs)) % Size, (b - a) * BytesPerMs)

\* get_range
GetRange(start, end) ==
  LET a == Larger(OldestMs, Lesser(start, TotalMs))
      b == Larger(a, Lesser(end, TotalMs))
  IN IF a >= b THEN <<>>
     ELSE ReadFrom((head - (total - a * BytesPerMs)) % Size, (b - a) * BytesPerMs)

\* get_segment_with_preroll
Segment(start, end) == GetRange(Larger(0, start - PreRollMs), end)

----------------------------------------------------------------------------
(* Properties.                                                             *)

TypeOK ==
  /\ buffer \in [Slots -> Nat] /\ head \in Slots
  /\ total \in Nat /\ received \in Nat /\ heard \in Seq(Nat)

Kept(p) == 1 <= p /\ p <= total /\ p > total - Size

\* The timeline is the audio heard: total_ms, which every interval of a sentence is
\* measured by, does not fall behind it, and the buffer holds the end of it, whatever
\* the lengths of the frames and wherever they wrapped.
TailKept ==
  /\ total = Len(heard)
  /\ \A p \in 1..Len(heard) : Kept(p) => buffer[(head - (total - p) - 1) % Size] = heard[p]

\* An utterance with its pre-roll is read back as it was heard, less what is no
\* longer kept: the bytes of the interval that are kept come out in order, and before
\* them at most a fraction of a millisecond that is not kept, which the rounding of
\* oldest_ms lets through when the audio is not a whole number of milliseconds.
RangeFaithful ==
  \A start \in 0..TotalMs : \A end \in start..TotalMs :
    LET from   == Larger(0, start - PreRollMs) * BytesPerMs
        wanted == {p \in (from + 1)..(end * BytesPerMs) : Kept(p)}
        read   == Segment(start, end)
        stale  == Len(read) - (end * BytesPerMs - from)
                    + (IF from < total - Size THEN total - Size - from ELSE 0)
    IN wanted # {} =>
         /\ 0 <= stale /\ stale < BytesPerMs
         /\ total % BytesPerMs = 0 => stale = 0
         /\ \A p \in wanted : read[Len(read) - (end * BytesPerMs - p)] = heard[p]
============================================================================

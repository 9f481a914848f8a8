-------------------------- MODULE AudioPath_proofs --------------------------
(***************************************************************************)
(* The ring buffer holds the end of the audio, and the first pass takes in *)
(* the whole of it, for every size, every limit and every length of the    *)
(* messages.                                                               *)
(*                                                                         *)
(* TailKept says of the buffer, with the index of get_range, which counts  *)
(* back from the head round the end; the inductive form says it without a  *)
(* modulus, for the two parts of the buffer that the head divides: what    *)
(* lies before it was written last, and what lies behind it one turn       *)
(* earlier, once there has been a turn. That reading an interval gives     *)
(* back what was heard follows from TailKept and from what the clamps and  *)
(* the rounding of get_range leave of the interval.                        *)
(*                                                                         *)
(* Of the stream the inductive form, Listening, says what the cache is     *)
(* between two messages, whatever strides there were: the frames kept are  *)
(* the last ones, the frames integrated are all but the right context, and *)
(* the tokens and the carry make up the sum of their weights. Chunk keeps  *)
(* that, hence all strides of a message do, and Flush turns it into        *)
(* SentenceWhole. The sums and the loops are recursive functions over      *)
(* sequences; what they compute is proved by induction on the natural      *)
(* numbers, in the form of Reaches.                                        *)
(***************************************************************************)
EXTENDS AudioPath, SequenceTheorems, WellFoundedInduction, TLAPS

BeforeHead ==
  \A i \in Slots : i < head => buffer[i] = heard[total - head + i + 1]
BehindHead ==
  total >= Size => \A i \in Slots : i >= head => buffer[i] = heard[total - head - Size + i + 1]

IInv ==
  /\ TypeOK
  /\ total = Len(heard)
  /\ head <= total /\ (total < Size => head = total)
  /\ BeforeHead /\ BehindHead

----------------------------------------------------------------------------
(* Sizes and indices.                                                      *)

LEMMA SizePositive == Size \in Nat \ {0}
  BY BufferAssumption DEF Size

\* The gate lets nothing through that the buffer could not hold.
LEMMA AcceptedFits == ASSUME NEW n \in Nat PROVE Accepted(n) \in 0..Size
  BY BufferAssumption DEF Size, Accepted, Lesser

\* An index counted back from the head, round the end when it is negative.
LEMMA IndexBack ==
  ASSUME NEW n \in Nat \ {0}, NEW a \in Int, -n <= a, a < n
  PROVE  a % n = IF a < 0 THEN a + n ELSE a
  BY SMT

LEMMA IndexOn ==
  ASSUME NEW n \in Nat \ {0}, NEW a \in 0..n
  PROVE  a % n = IF a = n THEN 0 ELSE a
  BY SMT

----------------------------------------------------------------------------
(* The steps.                                                              *)

LEMMA InitInv == Init => IInv
<1> SUFFICES ASSUME Init PROVE IInv
  OBVIOUS
<1>1. TypeOK
  BY SizePositive DEF Init, TypeOK, Slots
<1>2. BeforeHead /\ BehindHead
  BY SizePositive DEF Init, BeforeHead, BehindHead, Slots
<1> QED
  BY <1>1, <1>2 DEF Init, IInv

\* A chunk that fits is written whole, and the two parts are what they were: the new
\* bytes lie before the head, and what is still kept of the last turn behind it.
LEMMA StoreInv ==
  ASSUME NEW d \in Seq(Nat), NEW n \in Nat
  PROVE  /\ IInv /\ n = Len(d) /\ n <= Size
         /\ Store(d) /\ total' = total + n /\ heard' = heard \o d
         => /\ buffer' \in [Slots -> Nat] /\ head' \in Slots
            /\ head' <= total' /\ (total' < Size => head' = total')
            /\ BeforeHead' /\ BehindHead'
<1>1. SUFFICES ASSUME IInv, n = Len(d), n <= Size,
                      Store(d), total' = total + n, heard' = heard \o d
               PROVE  /\ buffer' \in [Slots -> Nat] /\ head' \in Slots
                      /\ head' <= total' /\ (total' < Size => head' = total')
                      /\ BeforeHead' /\ BehindHead'
  OBVIOUS
<1>2. /\ Size \in Nat \ {0} /\ n \in 0..Size
      /\ head \in 0..(Size - 1) /\ total \in Nat /\ head <= total
      /\ total < Size => head = total
      /\ total' = total + n
  BY <1>1, SizePositive DEF IInv, TypeOK, Slots
<1>3. /\ buffer' = [i \in Slots |->
           IF head <= i /\ i < head + n THEN d[i - head + 1]
           ELSE IF i < n - (Size - head) THEN d[i + (Size - head) + 1] ELSE buffer[i]]
      /\ head' = IF n <= Size - head THEN (head + n) % Size ELSE n - (Size - head)
  BY <1>1 DEF Store
<1>4. head' = IF n < Size - head THEN head + n ELSE n - (Size - head)
  <2>1. CASE n <= Size - head
    <3>1. head + n \in 0..Size
      BY <1>2, <2>1
    <3>2. (head + n) % Size = IF head + n = Size THEN 0 ELSE head + n
      BY <1>2, <3>1, IndexOn
    <3> QED
      BY <1>2, <1>3, <2>1, <3>2
  <2>2. CASE n > Size - head
    BY <1>2, <1>3, <2>2
  <2> QED
    BY <1>2, <2>1, <2>2
<1>5. head' \in 0..(Size - 1) /\ head' <= total' /\ (total' < Size => head' = total')
  BY <1>2, <1>4
<1>6. /\ \A k \in 1..total : heard'[k] = heard[k]
      /\ \A k \in 1..n : heard'[total + k] = d[k]
  <2>1. heard \in Seq(Nat) /\ Len(heard) = total
    BY <1>1 DEF IInv, TypeOK
  <2>2. \A k \in 1..(total + n) :
          heard'[k] = IF k <= total THEN heard[k] ELSE d[k - total]
    BY <1>1, <2>1, ConcatProperties
  <2> QED
    BY <1>2, <2>2
<1>7. ASSUME NEW i \in Slots, head <= i, i < head + n
      PROVE  buffer'[i] = heard'[total - head + i + 1]
  <2>1. buffer'[i] = d[i - head + 1] /\ i - head + 1 \in 1..n
    BY <1>2, <1>3, <1>7 DEF Slots
  <2>2. total - head + i + 1 = total + (i - head + 1)
    BY <1>2 DEF Slots
  <2> QED
    BY <1>6, <2>1, <2>2
<1>8. ASSUME NEW i \in Slots, i < n - (Size - head)
      PROVE  buffer'[i] = heard'[total + Size - head + i + 1]
  <2>1. i < head /\ buffer'[i] = d[i + (Size - head) + 1] /\ i + (Size - head) + 1 \in 1..n
    BY <1>2, <1>3, <1>8 DEF Slots
  <2>2. total + Size - head + i + 1 = total + (i + (Size - head) + 1)
    BY <1>2 DEF Slots
  <2> QED
    BY <1>6, <2>1, <2>2
<1>9. ASSUME NEW i \in Slots, i < head, i >= n - (Size - head)
      PROVE  buffer'[i] = heard'[total - head + i + 1]
  <2>1. buffer'[i] = buffer[i] /\ total - head + i + 1 \in 1..total
    BY <1>2, <1>3, <1>9 DEF Slots
  <2>2. buffer[i] = heard[total - head + i + 1]
    BY <1>1, <1>9 DEF IInv, BeforeHead
  <2> QED
    BY <1>6, <2>1, <2>2
<1>10. ASSUME total >= Size, NEW i \in Slots, i >= head + n
      PROVE  buffer'[i] = heard'[total - head - Size + i + 1]
  <2>1. /\ buffer'[i] = buffer[i] /\ i >= head
        /\ total - head - Size + i + 1 \in 1..total
    BY <1>2, <1>3, <1>10 DEF Slots
  <2>2. buffer[i] = heard[total - head - Size + i + 1]
    BY <1>1, <1>10, <2>1 DEF IInv, BehindHead
  <2> QED
    BY <1>6, <2>1, <2>2
<1>11. ASSUME NEW i \in Slots, i < head'
       PROVE  buffer'[i] = heard'[total' - head' + i + 1]
  <2>1. CASE n < Size - head
    <3>1. head' = head + n /\ total' - head' + i + 1 = total - head + i + 1
      BY <1>2, <1>4, <2>1 DEF Slots
    <3>2. CASE i < head
      <4>1. i >= n - (Size - head)
        BY <1>2, <2>1 DEF Slots
      <4> QED
        BY <1>9, <3>1, <3>2, <4>1
    <3>3. CASE i >= head
      BY <1>7, <1>11, <3>1, <3>3
    <3> QED
      BY <1>2, <3>2, <3>3 DEF Slots
  <2>2. CASE n >= Size - head
    <3>1. head' = n - (Size - head) /\ total' - head' + i + 1 = total + Size - head + i + 1
      BY <1>2, <1>4, <2>2 DEF Slots
    <3> QED
      BY <1>8, <1>11, <3>1
  <2> QED
    BY <1>2, <2>1, <2>2
<1>12. ASSUME total' >= Size, NEW i \in Slots, i >= head'
       PROVE  buffer'[i] = heard'[total' - head' - Size + i + 1]
  <2>1. CASE n < Size - head
    <3>1. /\ head' = head + n /\ total' - head' - Size + i + 1 = total - head - Size + i + 1
          /\ total >= Size
      BY <1>2, <1>4, <1>12, <2>1 DEF Slots
    <3> QED
      BY <1>10, <1>12, <3>1
  <2>2. CASE n >= Size - head
    <3>1. head' = n - (Size - head) /\ total' - head' - Size + i + 1 = total - head + i + 1
      BY <1>2, <1>4, <2>2 DEF Slots
    <3>2. CASE i < head
      BY <1>9, <1>12, <3>1, <3>2
    <3>3. CASE i >= head
      <4>1. i < head + n
        BY <1>2, <2>2 DEF Slots
      <4> QED
        BY <1>7, <3>1, <3>3, <4>1
    <3> QED
      BY <1>2, <3>2, <3>3 DEF Slots
  <2> QED
    BY <1>2, <2>1, <2>2
<1>13. BeforeHead' /\ BehindHead'
  BY <1>11, <1>12 DEF BeforeHead, BehindHead, Slots, Size
<1>14. buffer' \in [Slots -> Nat]
  <2> SUFFICES ASSUME NEW i \in Slots PROVE buffer'[i] \in Nat
    BY <1>3
  <2>1. buffer[i] \in Nat
    BY <1>1 DEF IInv, TypeOK
  <2>2. \A k \in 1..n : d[k] \in Nat
    BY <1>1
  <2>3. CASE head <= i /\ i < head + n
    BY <1>2, <1>3, <2>2, <2>3 DEF Slots
  <2>4. CASE i < n - (Size - head) /\ ~(head <= i /\ i < head + n)
    BY <1>2, <1>3, <2>2, <2>4 DEF Slots
  <2>5. CASE ~(head <= i /\ i < head + n) /\ ~(i < n - (Size - head))
    BY <1>3, <2>1, <2>5
  <2> QED
    BY <2>3, <2>4, <2>5
<1> QED
  BY <1>5, <1>13, <1>14 DEF Slots

LEMMA FrameInv == ASSUME NEW n \in Frames PROVE IInv /\ Frame(n) => IInv'
<1>1. SUFFICES ASSUME IInv, Frame(n) PROVE IInv'
  OBVIOUS
<1>2. n \in Nat /\ Accepted(n) \in 0..Size /\ received \in Nat
  BY <1>1, AcceptedFits, BufferAssumption DEF IInv, TypeOK
<1>3. PICK data \in Seq(Nat), k \in Nat : data = Arriving(Accepted(n)) /\ k = Len(data) /\ k <= Size
  <2>1. Arriving(Accepted(n)) \in Seq(Nat) /\ Len(Arriving(Accepted(n))) = Accepted(n)
    BY <1>2 DEF Arriving
  <2> QED
    BY <1>2, <2>1, SizePositive
<1>4. /\ received' = received + n /\ heard' = heard \o data
      /\ IF data = <<>> THEN UNCHANGED <<buffer, head, total>> ELSE Write(data)
  BY <1>1, <1>3 DEF Frame
<1>5. /\ received' \in Nat /\ heard' \in Seq(Nat) /\ Len(heard') = total + k
      /\ total \in Nat /\ heard \in Seq(Nat) /\ total = Len(heard)
  <2>1. total \in Nat /\ heard \in Seq(Nat) /\ total = Len(heard)
    BY <1>1 DEF IInv, TypeOK
  <2>2. heard' \in Seq(Nat) /\ Len(heard') = Len(heard) + Len(data)
    BY <1>4, <2>1, ConcatProperties
  <2> QED
    BY <1>2, <1>3, <1>4, <2>1, <2>2
<1>6. CASE data = <<>>
  <2>1. /\ UNCHANGED <<buffer, head, total, heard>>
    BY <1>4, <1>5, <1>6, ConcatEmptySeq
  <2> QED
    BY <1>1, <1>5, <2>1 DEF IInv, TypeOK, BeforeHead, BehindHead, Slots, Size
<1>7. CASE data # <<>>
  <2>1. NewestPart(data) = data
    BY <1>3, SizePositive, SubSeqFull DEF NewestPart
  <2>2. Store(data) /\ total' = total + k
    BY <1>3, <1>4, <1>7, <2>1 DEF Write
  <2>3. /\ buffer' \in [Slots -> Nat] /\ head' \in Slots
        /\ head' <= total' /\ (total' < Size => head' = total')
        /\ BeforeHead' /\ BehindHead'
    BY <1>1, <1>3, <1>4, <2>2, StoreInv
  <2> QED
    BY <1>3, <1>5, <2>2, <2>3 DEF IInv, TypeOK, Slots, Size
<1> QED
  BY <1>6, <1>7

LEMMA ClearInv == ASSUME Clear PROVE IInv'
<1>1. TypeOK'
  BY SizePositive DEF Clear, TypeOK, Slots, Size
<1>2. BeforeHead' /\ BehindHead'
  BY SizePositive DEF Clear, BeforeHead, BehindHead, Slots, Size
<1> QED
  BY <1>1, <1>2 DEF Clear, IInv, Size

LEMMA NextInv == IInv /\ [AudioNext]_audioVars => IInv'
<1> SUFFICES ASSUME IInv, [AudioNext]_audioVars PROVE IInv'
  OBVIOUS
<1>1. ASSUME NEW n \in Frames, Hear(n) PROVE IInv'
  BY <1>1, FrameInv DEF Hear
<1>2. ASSUME UNCHANGED vars PROVE IInv'
  BY <1>2 DEF vars, IInv, TypeOK, BeforeHead, BehindHead, Slots, Size
<1>3. CASE CleanUp
  BY <1>3, ClearInv DEF CleanUp
<1>4. EndSentence \/ Discard \/ UNCHANGED audioVars => UNCHANGED vars
  BY DEF EndSentence, Discard, audioVars
<1> QED
  BY <1>1, <1>2, <1>3, <1>4 DEF AudioNext

LEMMA IndexGivesTail == IInv => TailKept
<1> SUFFICES ASSUME IInv, NEW p \in 1..Len(heard), Kept(p)
             PROVE  buffer[(head - (total - p) - 1) % Size] = heard[p]
  BY DEF IInv, TailKept
<1>1. /\ Size \in Nat \ {0} /\ head \in 0..(Size - 1) /\ total \in Nat
      /\ p \in 1..total /\ p > total - Size /\ head <= total /\ total = Len(heard)
      /\ total < Size => head = total
  BY SizePositive DEF IInv, TypeOK, Slots, Kept
<1> DEFINE a == head - (total - p) - 1
<1>2. a \in Int /\ -Size <= a /\ a < Size
  BY <1>1
<1>3. a % Size = IF a < 0 THEN a + Size ELSE a
  BY <1>1, <1>2, IndexBack
<1>4. CASE a >= 0
  <2>1. a \in Slots /\ a < head /\ total - head + a + 1 = p
    BY <1>1, <1>4 DEF Slots
  <2> QED
    BY <1>2, <1>3, <1>4, <2>1 DEF IInv, BeforeHead
<1>5. CASE a < 0
  <2>1. a + Size \in Slots /\ a + Size >= head /\ total - head - Size + (a + Size) + 1 = p /\ total >= Size
    BY <1>1, <1>5 DEF Slots
  <2> QED
    BY <1>2, <1>3, <1>5, <2>1 DEF IInv, BehindHead
<1> QED
  BY <1>2, <1>4, <1>5

----------------------------------------------------------------------------
(* Reading an interval back.                                               *)

\* Products with the bytes of a millisecond, and what division by them leaves.
LEMMA Products ==
  ASSUME NEW x \in Int, NEW y \in Int, NEW n \in Nat \ {0}
  PROVE  /\ x * n \in Int /\ (x <= y <=> x * n <= y * n) /\ (x < y <=> x * n < y * n)
         /\ (x - y) * n = x * n - y * n /\ (x + 1) * n = x * n + n
<1>1. x * n \in Int /\ y * n \in Int /\ (x - y) * n = x * n - y * n /\ (x + 1) * n = x * n + n
  BY SMT
<1>2. x < y => x * n < y * n
  BY SMT
<1>3. x = y => x * n = y * n
  OBVIOUS
<1>4. y < x => y * n < x * n
  BY SMT
<1> QED BY <1>1, <1>2, <1>3, <1>4, SMT

LEMMA Quotient ==
  ASSUME NEW x \in Int, NEW n \in Nat \ {0}
  PROVE  /\ x \div n \in Int /\ (x \div n) * n <= x /\ x < (x \div n) * n + n
         /\ (x % n = 0 => x = (x \div n) * n)
BY SMT

\* The index of get_range counts back from the head, by at most two turns.
LEMMA IndexTurns ==
  ASSUME NEW n \in Nat \ {0}, NEW a \in Int, -(2 * n) <= a, a < n
  PROVE  /\ a % n \in 0..(n - 1)
         /\ a % n = IF a >= 0 THEN a ELSE IF a >= -n THEN a + n ELSE a + 2 * n
BY SMT

\* n bytes round the end of the buffer.
LEMMA ReadRound ==
  ASSUME NEW i \in Slots, NEW n \in 0..Size
  PROVE  /\ Len(ReadFrom(i, n)) = n
         /\ \A k \in 1..n : ReadFrom(i, n)[k] = buffer[IF i + k - 1 < Size THEN i + k - 1 ELSE i + k - 1 - Size]
<1>1. Size \in Nat \ {0} /\ i \in 0..(Size - 1)
  BY SizePositive DEF Slots
<1>2. CASE i + n <= Size
  BY <1>1, <1>2 DEF ReadFrom
<1>3. CASE i + n > Size
  <2> DEFINE r == Size - i
             f == [k \in 1..r |-> buffer[i + k - 1]]
             g == [k \in 1..(n - r) |-> buffer[k - 1]]
  <2>1. ReadFrom(i, n) = f \o g
    BY <1>1, <1>3 DEF ReadFrom
  <2>2. r \in Nat /\ n - r \in Nat /\ r <= n
    BY <1>1, <1>3
  <2> DEFINE V == {buffer[k] : k \in Int}
  <2>3. f \in Seq(V) /\ g \in Seq(V) /\ Len(f) = r /\ Len(g) = n - r
    BY <1>1, <2>2
  <2>4. /\ Len(f \o g) = n
        /\ \A k \in 1..n : (f \o g)[k] = IF k <= r THEN f[k] ELSE g[k - r]
    <3> HIDE DEF f, g, V, r
    <3>1. /\ Len(f \o g) = Len(f) + Len(g)
          /\ \A k \in 1..(Len(f) + Len(g)) : (f \o g)[k] = IF k <= Len(f) THEN f[k] ELSE g[k - Len(f)]
      BY <2>3, ConcatProperties, Zenon
    <3>2. Len(f) + Len(g) = n
      BY <1>1, <2>2, <2>3
    <3> QED BY <2>3, <3>1, <3>2
  <2>5. ASSUME NEW k \in 1..n
        PROVE  (f \o g)[k] = buffer[IF i + k - 1 < Size THEN i + k - 1 ELSE i + k - 1 - Size]
    <3>1. CASE k <= r
      BY <1>1, <2>2, <2>4, <3>1
    <3>2. CASE k > r
      BY <1>1, <2>2, <2>4, <3>2
    <3> QED BY <2>2, <3>1, <3>2
  <2> QED BY <2>1, <2>4, <2>5
<1> QED BY <1>1, <1>2, <1>3

\* What get_range makes of an interval inside the timeline of which something is kept:
\* nothing is cut off at its end, and at its beginning only what is no longer kept.
LEMMA IntervalKept ==
  ASSUME TypeOK, NEW first \in 0..TotalMs, NEW end \in first..TotalMs, NEW p \in Int, Kept(p),
         first * BytesPerMs < p, p <= end * BytesPerMs,
         NEW a, a = Larger(OldestMs, first),
         NEW cut, cut = IF first * BytesPerMs < total - Size THEN total - Size - first * BytesPerMs ELSE 0
  PROVE  /\ a \in Nat /\ a < end /\ Larger(OldestMs, Lesser(first, TotalMs)) = a
         /\ Larger(a, Lesser(end, TotalMs)) = end
         /\ a * BytesPerMs < p /\ (end - a) * BytesPerMs \in 0..Size
         /\ (end - a) * BytesPerMs = end * BytesPerMs - a * BytesPerMs
         /\ total - a * BytesPerMs \in 0..(2 * Size)
         /\ first * BytesPerMs - a * BytesPerMs + cut \in 0..(BytesPerMs - 1)
         /\ total % BytesPerMs = 0 => first * BytesPerMs - a * BytesPerMs + cut = 0
<1> DEFINE n == BytesPerMs
           o == (total - Size) \div n
           on == o * n
           an == a * n
           fn == first * n
           en == end * n
<1>1. /\ n \in Nat \ {0} /\ SizeMs \in Nat \ {0} /\ total \in Nat
      /\ Size \in Nat \ {0} /\ Size = SizeMs * n /\ p > total - Size
  BY BufferAssumption, SizePositive DEF TypeOK, Kept, Size
<1>2. n <= Size
  <2>1. 1 <= SizeMs /\ 1 * n = n
    BY <1>1
  <2> HIDE DEF n
  <2> QED BY <1>1, <2>1, Products
<1>3. TotalMs \in Int /\ TotalMs * n <= total /\ (total % n = 0 => total = TotalMs * n)
  BY <1>1, Quotient DEF TotalMs
<1>4. o \in Int /\ on <= total - Size /\ total - Size < on + n
  BY <1>1, Quotient
<1>5. OldestMs = IF o < 0 THEN 0 ELSE o
  BY <1>1, <1>4 DEF OldestMs, Larger
<1>6. first \in Int /\ end \in Int /\ 0 <= first /\ first <= end /\ end <= TotalMs /\ first <= TotalMs
  BY <1>3
<1> HIDE DEF o, n
<1>7. a \in Int /\ first <= a /\ o <= a /\ 0 <= a /\ (a = first \/ (a = o /\ first < o))
  BY <1>4, <1>5, <1>6 DEF Larger
<1>8. on \in Int /\ an \in Int /\ fn \in Int /\ en \in Int
  BY <1>1, <1>4, <1>6, <1>7, Products
<1>9. en <= total
  <2>1. en <= TotalMs * n /\ TotalMs * n \in Int
    BY <1>1, <1>3, <1>6, Products
  <2> QED BY <1>1, <1>3, <1>8, <2>1
<1>10. fn < p /\ p <= en
  BY DEF n
<1>11. o < end /\ first < end
  <2>1. on < en /\ fn < en
    BY <1>1, <1>4, <1>8, <1>10
  <2> QED BY <1>1, <1>4, <1>6, <2>1, Products
<1>12. a < end
  BY <1>7, <1>11
<1>13. Larger(OldestMs, Lesser(first, TotalMs)) = a /\ Larger(a, Lesser(end, TotalMs)) = end
  BY <1>3, <1>6, <1>7, <1>12 DEF Larger, Lesser
<1>14. on <= an /\ fn <= an /\ an < en /\ (end - a) * n = en - an
  BY <1>1, <1>4, <1>6, <1>7, <1>12, Products
<1>15. total - Size < an + n
  BY <1>1, <1>4, <1>8, <1>14
<1>16. an < p
  <2>1. CASE a = first
    BY <1>10, <2>1
  <2>2. CASE a = o
    <3>1. an = on
      BY <2>2
    <3> QED BY <1>1, <1>4, <1>8, <3>1
  <2> QED BY <1>7, <2>1, <2>2
<1>17. en - an <= Size
  <2>1. en - an < Size + n
    BY <1>1, <1>8, <1>9, <1>15
  <2>2. (SizeMs + 1) * n = Size + n
    BY <1>1, Products
  <2>3. (end - a) * n < (SizeMs + 1) * n
    BY <1>14, <2>1, <2>2
  <2>4. end - a < SizeMs + 1
    BY <1>1, <1>6, <1>7, <2>3, Products
  <2>5. end - a <= SizeMs /\ end - a \in Int
    BY <1>1, <1>6, <1>7, <2>4
  <2>6. (end - a) * n <= SizeMs * n
    BY <1>1, <2>5, Products
  <2> QED BY <1>1, <1>14, <2>6
<1>18. total - an \in 0..(2 * Size)
  BY <1>1, <1>2, <1>8, <1>9, <1>14, <1>15
<1>19. cut = IF fn < total - Size THEN total - Size - fn ELSE 0
  BY DEF n
<1>20. fn - an + cut \in 0..(n - 1)
  <2>1. CASE a = first
    <3>1. an = fn
      BY <2>1
    <3> QED BY <1>1, <1>8, <1>15, <1>19, <3>1
  <2>2. CASE a = o /\ first < o
    <3>1. an = on
      BY <2>2
    <3>2. fn < on
      BY <1>1, <1>4, <1>6, <2>2, Products
    <3> QED BY <1>1, <1>4, <1>8, <1>19, <3>1, <3>2
  <2> QED BY <1>7, <2>1, <2>2
<1>21. ASSUME total % n = 0 PROVE fn - an + cut = 0
  <2> DEFINE d == TotalMs - SizeMs
  <2>1. d \in Int /\ d * n = total - Size
    BY <1>1, <1>3, <1>21, Products
  <2>2. d * n < (o + 1) * n /\ on <= d * n /\ (o + 1) * n = on + n
    BY <1>1, <1>4, <2>1, Products
  <2> HIDE DEF d
  <2>3. d < o + 1 /\ o <= d
    BY <1>1, <1>4, <2>1, <2>2, Products
  <2>4. on = total - Size
    BY <1>4, <2>1, <2>3
  <2>5. CASE a = first
    <3>1. an = fn
      BY <2>5
    <3> QED BY <1>1, <1>8, <1>14, <1>19, <2>4, <3>1
  <2>6. CASE a = o /\ first < o
    <3>1. an = on
      BY <2>6
    <3>2. fn < on
      BY <1>1, <1>4, <1>6, <2>6, Products
    <3> QED BY <1>1, <1>8, <1>19, <2>4, <3>1, <3>2
  <2> QED BY <1>7, <2>5, <2>6
<1> QED BY <1>1, <1>7, <1>8, <1>12, <1>13, <1>14, <1>16, <1>17, <1>18, <1>20, <1>21 DEF n

\* Such an interval comes out as it was heard.
LEMMA RangeRead ==
  ASSUME IInv, TailKept, NEW first \in 0..TotalMs, NEW end \in first..TotalMs, NEW p \in Int, Kept(p),
         first * BytesPerMs < p, p <= end * BytesPerMs,
         NEW read, read = GetRange(first, end),
         NEW cut, cut = IF first * BytesPerMs < total - Size THEN total - Size - first * BytesPerMs ELSE 0
  PROVE  /\ Len(read) - (end * BytesPerMs - first * BytesPerMs) + cut \in 0..(BytesPerMs - 1)
         /\ total % BytesPerMs = 0 => Len(read) - (end * BytesPerMs - first * BytesPerMs) + cut = 0
         /\ read[Len(read) - (end * BytesPerMs - p)] = heard[p]
<1> DEFINE a == Larger(OldestMs, first)
           an == a * BytesPerMs
           en == end * BytesPerMs
           fn == first * BytesPerMs
           x == head - (total - an)
           i == x % Size
<1>1. /\ a \in Nat /\ a < end /\ Larger(OldestMs, Lesser(first, TotalMs)) = a
      /\ Larger(a, Lesser(end, TotalMs)) = end
      /\ an < p /\ (end - a) * BytesPerMs \in 0..Size /\ (end - a) * BytesPerMs = en - an
      /\ total - an \in 0..(2 * Size) /\ fn - an + cut \in 0..(BytesPerMs - 1)
      /\ total % BytesPerMs = 0 => fn - an + cut = 0
  BY IntervalKept DEF IInv
<1>2. /\ Size \in Nat \ {0} /\ head \in 0..(Size - 1) /\ total \in Nat /\ total = Len(heard)
      /\ p \in 1..total /\ p > total - Size /\ BytesPerMs \in Nat \ {0}
  BY BufferAssumption, SizePositive DEF IInv, TypeOK, Kept, Slots
<1>3. TotalMs \in Int /\ first \in Int /\ end \in Int
  BY <1>2, Quotient DEF TotalMs
<1>4. an \in Int /\ en \in Int /\ fn \in Int
  <2>1. a \in Int
    BY <1>1
  <2> HIDE DEF a
  <2> QED BY <1>2, <1>3, <2>1, Products
<1>5. read = ReadFrom(i, (end - a) * BytesPerMs)
  <2>1. ~(a >= end)
    BY <1>1, <1>3
  <2> HIDE DEF a
  <2> QED BY <1>1, <2>1 DEF GetRange
<1> HIDE DEF a, an, en, fn
<1>6. read = ReadFrom(i, en - an) /\ en - an \in 0..Size
  BY <1>1, <1>5
<1>7. x \in Int /\ -(2 * Size) <= x /\ x < Size
  BY <1>1, <1>2, <1>4
<1> HIDE DEF x
<1>8. i \in Slots /\ i = (IF x >= 0 THEN x ELSE IF x >= -Size THEN x + Size ELSE x + 2 * Size)
  BY <1>2, <1>7, IndexTurns DEF Slots
<1> HIDE DEF i
<1>9. /\ Len(read) = en - an
      /\ \A k \in 1..(en - an) : read[k] = buffer[IF i + k - 1 < Size THEN i + k - 1 ELSE i + k - 1 - Size]
  BY <1>6, <1>8, ReadRound
<1> DEFINE k == p - an
           y == head - (total - p) - 1
<1>10. p <= en
  BY DEF en
<1>11. k \in 1..(en - an) /\ Len(read) - (en - p) = k
  BY <1>1, <1>2, <1>4, <1>9, <1>10
<1>12. y \in Int /\ -Size <= y /\ y < Size /\ y = x + k - 1
  BY <1>2, <1>4 DEF x
<1>13. buffer[y % Size] = heard[p]
  BY <1>2 DEF TailKept
<1> HIDE DEF k, y
<1>14. y % Size = IF y < 0 THEN y + Size ELSE y
  BY <1>2, <1>12, IndexBack
<1>15. (IF i + k - 1 < Size THEN i + k - 1 ELSE i + k - 1 - Size) = y % Size
  <2>1. i \in 0..(Size - 1) /\ k \in Int
    BY <1>2, <1>4, <1>8, <1>11 DEF Slots
  <2>2. 1 <= k /\ k <= Size
    BY <1>2, <1>4, <1>6, <1>11
  <2> QED BY <1>2, <1>7, <1>8, <1>12, <1>14, <2>1, <2>2
<1>16. read[k] = heard[p]
  BY <1>9, <1>11, <1>13, <1>15
<1>17. Len(read) - (en - fn) + cut = fn - an + cut
  <2>1. cut \in Int
    BY <1>2, <1>4 DEF fn
  <2> QED BY <1>4, <1>9, <2>1
<1> QED BY <1>1, <1>11, <1>16, <1>17 DEF en, fn

LEMMA ReadsFaithfully == IInv => RangeFaithful
<1> SUFFICES ASSUME IInv, NEW start \in 0..TotalMs, NEW end \in start..TotalMs
             PROVE  LET from   == Larger(0, start - PreRollMs) * BytesPerMs
                        wanted == {p \in (from + 1)..(end * BytesPerMs) : Kept(p)}
                        read   == Segment(start, end)
                        stale  == Len(read) - (end * BytesPerMs - from)
                                    + (IF from < total - Size THEN total - Size - from ELSE 0)
                    IN wanted # {} =>
                         /\ 0 <= stale /\ stale < BytesPerMs
                         /\ total % BytesPerMs = 0 => stale = 0
                         /\ \A p \in wanted : read[Len(read) - (end * BytesPerMs - p)] = heard[p]
  BY DEF RangeFaithful
<1> DEFINE first  == Larger(0, start - PreRollMs)
           from   == first * BytesPerMs
           en     == end * BytesPerMs
           read   == Segment(start, end)
           cut    == IF from < total - Size THEN total - Size - from ELSE 0
           stale  == Len(read) - (en - from) + cut
<1>1. TotalMs \in Int /\ PreRollMs \in Nat /\ BytesPerMs \in Nat \ {0}
  <2>1. BytesPerMs \in Nat \ {0} /\ PreRollMs \in Nat /\ total \in Int
    BY BufferAssumption DEF IInv, TypeOK
  <2> QED BY <2>1, Quotient DEF TotalMs
<1>2. first \in 0..TotalMs /\ end \in first..TotalMs
  BY <1>1 DEF Larger
<1>3. from \in Int /\ en \in Int
  BY <1>1, <1>2, Products
<1>4. read = GetRange(first, end)
  BY DEF Segment
<1> HIDE DEF first, read
<1>5. ASSUME NEW p \in (from + 1)..en, Kept(p)
      PROVE  /\ stale \in 0..(BytesPerMs - 1) /\ (total % BytesPerMs = 0 => stale = 0)
             /\ read[Len(read) - (en - p)] = heard[p]
  <2>1. p \in Int /\ from < p /\ p <= en
    BY <1>3
  <2> QED BY <1>2, <1>4, <1>5, <2>1, IndexGivesTail, RangeRead
<1>6. stale \in 0..(BytesPerMs - 1) => 0 <= stale /\ stale < BytesPerMs
  <2> HIDE DEF stale
  <2> QED BY <1>1
<1> HIDE DEF from, en, stale
<1>7. LET wanted == {p \in (from + 1)..en : Kept(p)}
      IN wanted # {} =>
           /\ 0 <= stale /\ stale < BytesPerMs
           /\ total % BytesPerMs = 0 => stale = 0
           /\ \A p \in wanted : read[Len(read) - (en - p)] = heard[p]
  BY <1>5, <1>6
<1> QED BY <1>7 DEF from, en, stale, first, read

----------------------------------------------------------------------------
(* Induction, by the least counterexample.                                 *)

LEMMA LeastNumber ==
  ASSUME NEW S \in SUBSET Nat, S # {}
  PROVE  \E k \in S : \A j \in S : k <= j
<1>1. PICK k \in S : \A j \in S : ~(<<j, k>> \in OpToRel(<, Nat))
  BY WFMin, NatLessThanWellFounded
<1>2. ASSUME NEW j \in S PROVE k <= j
  <2>1. j \in Nat /\ k \in Nat /\ ~(<<j, k>> \in OpToRel(<, Nat))
    BY <1>1
  <2>2. ~(j < k)
    BY <2>1 DEF OpToRel
  <2>3. ASSUME NEW a \in Nat, NEW b \in Nat, ~(a < b) PROVE b <= a
    BY <2>3
  <2> QED BY <2>1, <2>2, <2>3
<1> QED BY <1>2

LEMMA Reaches ==
  ASSUME NEW T \in SUBSET Nat, 0 \in T, \A m \in Nat : m \in T => m + 1 \in T
  PROVE  T = Nat
<1> SUFFICES ASSUME T # Nat PROVE FALSE
  OBVIOUS
<1>1. PICK k \in Nat \ T : \A j \in Nat \ T : k <= j
  <2>1. Nat \ T \in SUBSET Nat /\ Nat \ T # {}
    OBVIOUS
  <2> QED BY <2>1, LeastNumber
<1>2. k # 0 /\ k - 1 \in Nat
  BY <1>1
<1>3. k - 1 \in T
  BY <1>1, <1>2
<1> QED BY <1>1, <1>2, <1>3

----------------------------------------------------------------------------
(* Sums of weights.                                                        *)

SumBy(f, q, n) == f = [k \in 0..n |-> IF k = 0 THEN 0 ELSE f[k - 1] + q[k]]

LEMMA SumExists == ASSUME NEW q, NEW n \in Nat PROVE \E f : SumBy(f, q, n)
<1> DEFINE T == {m \in Nat : \E f : SumBy(f, q, m)}
<1>1. 0 \in T
  <2> DEFINE h == [k \in 0..0 |-> 0]
  <2>1. h = [k \in 0..0 |-> IF k = 0 THEN 0 ELSE h[k - 1] + q[k]]
    OBVIOUS
  <2> QED BY <2>1 DEF SumBy
<1>2. ASSUME NEW m \in Nat, m \in T PROVE m + 1 \in T
  <2>1. PICK f : SumBy(f, q, m)
    BY <1>2
  <2> DEFINE h == [k \in 0..(m + 1) |-> IF k = m + 1 THEN f[m] + q[m + 1] ELSE f[k]]
  <2>2. ASSUME NEW k \in 0..(m + 1) PROVE h[k] = IF k = 0 THEN 0 ELSE h[k - 1] + q[k]
    <3>1. CASE k = m + 1
      <4>1. k # 0 /\ k - 1 \in 0..(m + 1) /\ k - 1 # m + 1 /\ k - 1 = m
        BY <3>1
      <4>2. h[k - 1] = f[m] /\ h[k] = f[m] + q[m + 1]
        BY <3>1, <4>1
      <4> QED BY <3>1, <4>1, <4>2
    <3>2. CASE k # m + 1
      <4>1. k \in 0..m /\ f[k] = IF k = 0 THEN 0 ELSE f[k - 1] + q[k]
        <5>1. k \in 0..m
          BY <3>2
        <5> QED BY <2>1, <5>1 DEF SumBy
      <4>2. k # 0 => k - 1 \in 0..(m + 1) /\ k - 1 # m + 1
        BY <4>1
      <4> QED BY <3>2, <4>1, <4>2
    <3> QED BY <3>1, <3>2
  <2>3. h = [k \in 0..(m + 1) |-> h[k]]
    OBVIOUS
  <2> HIDE DEF h
  <2>4. SumBy(h, q, m + 1)
    BY <2>2, <2>3 DEF SumBy
  <2> QED BY <2>4
<1> HIDE DEF T
<1>3. T = Nat
  <2>1. T \in SUBSET Nat
    BY DEF T
  <2> QED BY <1>1, <1>2, <2>1, Reaches
<1>4. n \in T
  BY <1>3
<1> QED BY <1>4 DEF T

LEMMA SumNatural ==
  ASSUME NEW q \in Seq(Nat), NEW n \in 0..Len(q), NEW f, SumBy(f, q, n)
  PROVE  f \in [0..n -> Nat]
<1> DEFINE T == {m \in Nat : m <= n => f[m] \in Nat}
<1>1. f = [k \in 0..n |-> IF k = 0 THEN 0 ELSE f[k - 1] + q[k]]
  BY DEF SumBy
<1>2. \A k \in 0..n : f[k] = IF k = 0 THEN 0 ELSE f[k - 1] + q[k]
  BY <1>1
<1>3. 0 \in T
  BY <1>2
<1>4. ASSUME NEW m \in Nat, m \in T PROVE m + 1 \in T
  <2>1. ASSUME m + 1 <= n PROVE f[m + 1] \in Nat
    <3>1. m + 1 \in 0..n /\ m + 1 # 0 /\ m + 1 - 1 = m /\ m + 1 \in 1..Len(q) /\ m <= n
      BY <2>1
    <3>2. f[m] \in Nat /\ q[m + 1] \in Nat
      BY <1>4, <3>1
    <3>3. f[m + 1] = f[m] + q[m + 1]
      BY <1>2, <3>1
    <3> QED BY <3>2, <3>3
  <2> QED BY <2>1
<1>5. T = Nat
  <2>1. T \in SUBSET Nat
    OBVIOUS
  <2> HIDE DEF T
  <2> QED BY <1>3, <1>4, <2>1, Reaches
<1>6. \A k \in 0..n : f[k] \in Nat
  BY <1>5
<1> QED BY <1>1, <1>6

LEMMA SumUnique ==
  ASSUME NEW q, NEW n \in Nat, NEW f, NEW g, SumBy(f, q, n), SumBy(g, q, n)
  PROVE  f = g
<1> DEFINE T == {m \in Nat : m <= n => f[m] = g[m]}
<1>1. /\ f = [k \in 0..n |-> IF k = 0 THEN 0 ELSE f[k - 1] + q[k]]
      /\ g = [k \in 0..n |-> IF k = 0 THEN 0 ELSE g[k - 1] + q[k]]
  BY DEF SumBy
<1>2. \A k \in 0..n : /\ f[k] = IF k = 0 THEN 0 ELSE f[k - 1] + q[k]
                      /\ g[k] = IF k = 0 THEN 0 ELSE g[k - 1] + q[k]
  BY <1>1
<1>3. 0 \in T
  BY <1>2
<1>4. ASSUME NEW m \in Nat, m \in T PROVE m + 1 \in T
  <2>1. ASSUME m + 1 <= n PROVE f[m + 1] = g[m + 1]
    <3>1. m + 1 \in 0..n /\ m + 1 # 0 /\ m + 1 - 1 = m /\ m <= n
      BY <2>1
    <3>2. f[m] = g[m]
      BY <1>4, <3>1
    <3> QED BY <1>2, <3>1, <3>2
  <2> QED BY <2>1
<1>5. T = Nat
  <2>1. T \in SUBSET Nat
    OBVIOUS
  <2> HIDE DEF T
  <2> QED BY <1>3, <1>4, <2>1, Reaches
<1>6. \A k \in 0..n : f[k] = g[k]
  BY <1>5
<1>7. f = [k \in 0..n |-> f[k]] /\ g = [k \in 0..n |-> g[k]]
  BY <1>1
<1> QED BY <1>6, <1>7

LEMMA SumIs ==
  ASSUME NEW q \in Seq(Nat), NEW f, SumBy(f, q, Len(q))
  PROVE  Sum(q) = f[Len(q)] /\ f \in [0..Len(q) -> Nat] /\ Sum(q) \in Nat
<1>1. Len(q) \in Nat /\ Len(q) \in 0..Len(q)
  OBVIOUS
<1> DEFINE g == CHOOSE h : SumBy(h, q, Len(q))
<1>2. SumBy(g, q, Len(q)) /\ Sum(q) = g[Len(q)]
  BY DEF Sum, SumBy
<1> HIDE DEF g
<1>3. g = f
  BY <1>1, <1>2, SumUnique
<1>4. f \in [0..Len(q) -> Nat]
  BY <1>1, SumNatural
<1> QED BY <1>1, <1>2, <1>3, <1>4

LEMMA SumOfConcat ==
  ASSUME NEW q \in Seq(Nat), NEW r \in Seq(Nat)
  PROVE  Sum(q \o r) = Sum(q) + Sum(r) /\ Sum(q) \in Nat /\ Sum(r) \in Nat
<1> DEFINE m == Len(q)
           n == Len(r)
           p == q \o r
<1>1. /\ m \in Nat /\ n \in Nat /\ Len(p) = m + n /\ p \in Seq(Nat)
      /\ \A k \in 1..(m + n) : p[k] = IF k <= m THEN q[k] ELSE r[k - m]
  OBVIOUS
<1>2. PICK f : SumBy(f, q, m)
  BY <1>1, SumExists
<1>3. PICK g : SumBy(g, r, n)
  BY <1>1, SumExists
<1>4. Sum(q) = f[m] /\ f \in [0..m -> Nat] /\ Sum(r) = g[n] /\ g \in [0..n -> Nat]
      /\ Sum(q) \in Nat /\ Sum(r) \in Nat
  BY <1>2, <1>3, SumIs
<1> HIDE DEF m, n, p
<1> DEFINE h == [k \in 0..(m + n) |-> IF k <= m THEN f[k] ELSE f[m] + g[k - m]]
<1>5. ASSUME NEW k \in 0..(m + n) PROVE h[k] = IF k = 0 THEN 0 ELSE h[k - 1] + p[k]
  <2>1. CASE k <= m
    <3>1. f[k] = IF k = 0 THEN 0 ELSE f[k - 1] + q[k]
      BY <1>1, <1>2, <2>1 DEF SumBy
    <3>2. k # 0 => k - 1 \in 0..(m + n) /\ k - 1 <= m /\ p[k] = q[k]
      BY <1>1, <2>1
    <3> QED BY <2>1, <3>1, <3>2
  <2>2. CASE k > m
    <3>1. k - m \in 0..n /\ k - m # 0 /\ k # 0 /\ k - 1 \in 0..(m + n) /\ ~(k <= m) /\ k \in 1..(m + n)
      BY <1>1, <2>2
    <3>2. g[k - m] = g[k - m - 1] + r[k - m]
      BY <1>3, <3>1 DEF SumBy
    <3>3. p[k] = r[k - m] /\ h[k] = f[m] + g[k - m]
      BY <1>1, <3>1
    <3>4. f[m] \in Nat /\ g[k - m - 1] \in Nat /\ r[k - m] \in Nat
      <4>1. k - m - 1 \in 0..n /\ m \in 0..m
        BY <1>1, <3>1
      <4>2. k - m \in 1..n
        BY <1>1, <3>1
      <4>3. r[k - m] \in Nat
        BY <4>2 DEF n
      <4> QED BY <1>4, <4>1, <4>3
    <3>5. CASE k - 1 <= m
      <4>1. k - 1 = m /\ k - m - 1 = 0
        BY <1>1, <2>2, <3>5
      <4>2. h[k - 1] = f[m]
        BY <3>1, <4>1
      <4>3. g[0] = 0
        BY <1>1, <1>3 DEF SumBy
      <4> QED BY <3>1, <3>2, <3>3, <3>4, <4>1, <4>2, <4>3
    <3>6. CASE ~(k - 1 <= m)
      <4>1. h[k - 1] = f[m] + g[k - m - 1]
        <5>1. k - 1 - m = k - m - 1
          BY <1>1
        <5> QED BY <3>1, <3>6, <5>1
      <4> HIDE DEF h
      <4> QED BY <3>1, <3>2, <3>3, <3>4, <4>1
    <3> QED BY <3>5, <3>6
  <2> QED BY <1>1, <2>1, <2>2
<1>6. h = [k \in 0..(m + n) |-> h[k]]
  OBVIOUS
<1>7. h[m + n] = f[m] + g[n]
  <2>1. CASE n = 0
    <3>1. g[0] = 0 /\ f[m] \in Nat
      BY <1>1, <1>3, <1>4 DEF SumBy
    <3> QED BY <1>1, <2>1, <3>1
  <2>2. CASE n # 0
    <3>1. ~(m + n <= m) /\ (m + n) - m = n /\ m + n \in 0..(m + n)
      BY <1>1, <2>2
    <3>2. h[m + n] = IF m + n <= m THEN f[m + n] ELSE f[m] + g[(m + n) - m]
      BY <3>1
    <3> HIDE DEF h
    <3>3. h[m + n] = f[m] + g[(m + n) - m]
      BY <3>1, <3>2
    <3> QED BY <3>1, <3>3
  <2> QED BY <2>1, <2>2
<1> HIDE DEF h
<1>8. SumBy(h, p, m + n)
  BY <1>5, <1>6 DEF SumBy
<1>9. Sum(p) = h[m + n]
  BY <1>1, <1>8, SumIs
<1> QED BY <1>4, <1>7, <1>9 DEF p

LEMMA SumOfOne == ASSUME NEW x \in Nat PROVE Sum(<<x>>) = x
<1> DEFINE q == <<x>>
           f == [k \in 0..1 |-> IF k = 0 THEN 0 ELSE x]
<1>1. q \in Seq(Nat) /\ Len(q) = 1 /\ q[1] = x
  OBVIOUS
<1>2. ASSUME NEW k \in 0..1 PROVE f[k] = IF k = 0 THEN 0 ELSE f[k - 1] + q[k]
  <2>1. k = 0 \/ k = 1
    OBVIOUS
  <2>2. f[0] = 0 /\ f[1] = x /\ 0 + x = x /\ 1 - 1 = 0
    OBVIOUS
  <2> QED BY <1>1, <2>1, <2>2
<1>3. f = [k \in 0..1 |-> f[k]] /\ f[1] = x
  OBVIOUS
<1> HIDE DEF f, q
<1>4. SumBy(f, q, 1)
  BY <1>2, <1>3 DEF SumBy
<1>5. Sum(q) = f[1]
  BY <1>1, <1>4, SumIs
<1> QED BY <1>3, <1>5 DEF q

LEMMA SumOfNone == Sum(<<>>) = 0
<1>1. <<>> \in Seq(Nat) /\ Len(<<>>) = 0
  OBVIOUS
<1>2. PICK f : SumBy(f, <<>>, 0)
  BY SumExists
<1>3. Sum(<<>>) = f[0]
  BY <1>1, <1>2, SumIs
<1> QED BY <1>2, <1>3 DEF SumBy

----------------------------------------------------------------------------
(* The integrate-and-fire loop.                                            *)

Accumulators == [sum : 0..(Threshold - 1), fired : Nat]

\* Weight that has come in: what the tokens took, and what is left.
Taken(acc) == acc.fired * Threshold + acc.sum

LEMMA IntegrateTakes ==
  ASSUME NEW acc \in Accumulators, NEW a \in 0..Threshold
  PROVE  Integrate(acc, a) \in Accumulators /\ Taken(Integrate(acc, a)) = Taken(acc) + a
<1> DEFINE r == Integrate(acc, a)
<1>1. Threshold \in Nat \ {0} /\ acc.sum \in 0..(Threshold - 1) /\ acc.fired \in Nat
  BY FirstPassAssumption DEF Accumulators
<1>2. acc.fired * Threshold \in Int /\ (acc.fired + 1) * Threshold = acc.fired * Threshold + Threshold
  BY <1>1, Products
<1>3. CASE acc.sum + a < Threshold
  <2>1. r = [acc EXCEPT !.sum = acc.sum + a]
    BY <1>3 DEF Integrate
  <2>2. acc.sum + a \in 0..(Threshold - 1)
    BY <1>1, <1>3
  <2> HIDE DEF r
  <2>3. r \in Accumulators /\ r.sum = acc.sum + a /\ r.fired = acc.fired
    BY <2>1, <2>2 DEF Accumulators
  <2>4. Taken(r) = acc.fired * Threshold + (acc.sum + a) /\ Taken(acc) = acc.fired * Threshold + acc.sum
    BY <2>3 DEF Taken
  <2> HIDE DEF Taken
  <2>5. Taken(r) = Taken(acc) + a
    BY <1>1, <1>2, <2>4
  <2> QED BY <2>3, <2>5 DEF r
<1>4. CASE ~(acc.sum + a < Threshold)
  <2>1. r = [sum |-> acc.sum + a - Threshold, fired |-> acc.fired + 1]
    BY <1>4 DEF Integrate
  <2>2. acc.sum + a - Threshold \in 0..(Threshold - 1) /\ acc.fired + 1 \in Nat
    BY <1>1, <1>4
  <2> HIDE DEF r
  <2>3. r \in Accumulators /\ r.sum = acc.sum + a - Threshold /\ r.fired = acc.fired + 1
    BY <2>1, <2>2 DEF Accumulators
  <2>4. Taken(r) = (acc.fired + 1) * Threshold + (acc.sum + a - Threshold)
        /\ Taken(acc) = acc.fired * Threshold + acc.sum
    BY <2>3 DEF Taken
  <2>5. Taken(r) = Taken(acc) + a
    BY <1>1, <1>2, <2>4
  <2> QED BY <2>3, <2>5 DEF r
<1> QED BY <1>3, <1>4

AllBy(f, fired, q, n) ==
  f = [k \in 0..n |-> IF k = 0 THEN [sum |-> 0, fired |-> fired] ELSE Integrate(f[k - 1], q[k])]

LEMMA AllExists == ASSUME NEW fired, NEW q, NEW n \in Nat PROVE \E f : AllBy(f, fired, q, n)
<1> DEFINE T == {m \in Nat : \E f : AllBy(f, fired, q, m)}
           z == [sum |-> 0, fired |-> fired]
<1> HIDE DEF z
<1>1. 0 \in T
  <2> DEFINE h == [k \in 0..0 |-> z]
  <2>1. h = [k \in 0..0 |-> IF k = 0 THEN z ELSE Integrate(h[k - 1], q[k])]
    OBVIOUS
  <2> QED BY <2>1 DEF AllBy, z
<1>2. ASSUME NEW m \in Nat, m \in T PROVE m + 1 \in T
  <2>1. PICK f : AllBy(f, fired, q, m)
    BY <1>2
  <2> DEFINE h == [k \in 0..(m + 1) |-> IF k = m + 1 THEN Integrate(f[m], q[m + 1]) ELSE f[k]]
  <2>2. ASSUME NEW k \in 0..(m + 1) PROVE h[k] = IF k = 0 THEN z ELSE Integrate(h[k - 1], q[k])
    <3>1. CASE k = m + 1
      <4>1. k # 0 /\ k - 1 \in 0..(m + 1) /\ k - 1 # m + 1 /\ k - 1 = m
        BY <3>1
      <4>2. h[k - 1] = f[m] /\ h[k] = Integrate(f[m], q[m + 1])
        BY <3>1, <4>1
      <4> QED BY <3>1, <4>1, <4>2
    <3>2. CASE k # m + 1
      <4>1. k \in 0..m /\ f[k] = IF k = 0 THEN z ELSE Integrate(f[k - 1], q[k])
        <5>1. k \in 0..m
          BY <3>2
        <5> QED BY <2>1, <5>1 DEF AllBy, z
      <4>2. k # 0 => k - 1 \in 0..(m + 1) /\ k - 1 # m + 1
        BY <4>1
      <4> QED BY <3>2, <4>1, <4>2
    <3> QED BY <3>1, <3>2
  <2>3. h = [k \in 0..(m + 1) |-> h[k]]
    OBVIOUS
  <2> HIDE DEF h
  <2>4. AllBy(h, fired, q, m + 1)
    BY <2>2, <2>3 DEF AllBy, z
  <2> QED BY <2>4
<1> HIDE DEF T
<1>3. T = Nat
  <2>1. T \in SUBSET Nat
    BY DEF T
  <2> QED BY <1>1, <1>2, <2>1, Reaches
<1>4. n \in T
  BY <1>3
<1> QED BY <1>4 DEF T

LEMMA AllTakes ==
  ASSUME NEW fired \in Nat, NEW q \in Seq(0..Threshold)
  PROVE  /\ IntegrateAll(fired, q) \in Accumulators
         /\ Taken(IntegrateAll(fired, q)) = fired * Threshold + Sum(q)
<1> DEFINE n == Len(q)
           f == CHOOSE h : AllBy(h, fired, q, n)
<1>1. n \in Nat /\ q \in Seq(Nat) /\ Threshold \in Nat \ {0}
  <2>1. Threshold \in Nat \ {0}
    BY FirstPassAssumption
  <2> QED BY <2>1
<1>2. AllBy(f, fired, q, n) /\ IntegrateAll(fired, q) = f[n]
  <2>1. \E h : AllBy(h, fired, q, n)
    BY <1>1, AllExists
  <2> QED BY <2>1 DEF IntegrateAll, AllBy
<1>3. PICK g : SumBy(g, q, n)
  BY <1>1, SumExists
<1>4. Sum(q) = g[n] /\ g \in [0..n -> Nat]
  BY <1>1, <1>3, SumIs
<1>5. \A k \in 1..n : q[k] \in 0..Threshold
  <2> DEFINE S == 0..Threshold
  <2>1. q \in Seq(S)
    OBVIOUS
  <2> HIDE DEF f, S
  <2>2. \A k \in 1..n : q[k] \in S
    BY <2>1
  <2> QED BY <2>2 DEF S
<1> HIDE DEF f, n
<1>6. \A k \in 0..n : f[k] = IF k = 0 THEN [sum |-> 0, fired |-> fired] ELSE Integrate(f[k - 1], q[k])
  BY <1>2 DEF AllBy
<1>7. \A k \in 0..n : g[k] = IF k = 0 THEN 0 ELSE g[k - 1] + q[k]
  BY <1>3 DEF SumBy
<1>8. fired * Threshold \in Int
  BY <1>1, Products
<1> DEFINE T == {m \in Nat : m <= n => f[m] \in Accumulators /\ Taken(f[m]) = fired * Threshold + g[m]}
<1>9. 0 \in T
  <2>1. f[0] = [sum |-> 0, fired |-> fired] /\ g[0] = 0
    BY <1>1, <1>6, <1>7
  <2>2. f[0] \in Accumulators /\ f[0].sum = 0 /\ f[0].fired = fired
    BY <1>1, <2>1 DEF Accumulators
  <2>3. Taken(f[0]) = fired * Threshold + 0
    BY <2>2 DEF Taken
  <2> QED BY <2>1, <2>2, <2>3
<1>10. ASSUME NEW m \in Nat, m \in T PROVE m + 1 \in T
  <2>1. ASSUME m + 1 <= n PROVE f[m + 1] \in Accumulators /\ Taken(f[m + 1]) = fired * Threshold + g[m + 1]
    <3>1. m + 1 \in 0..n /\ m + 1 # 0 /\ m + 1 - 1 = m /\ m + 1 \in 1..n /\ m <= n /\ m \in 0..n
      BY <1>1, <2>1
    <3>2. f[m] \in Accumulators /\ Taken(f[m]) = fired * Threshold + g[m]
      BY <1>10, <3>1
    <3>3. f[m + 1] = Integrate(f[m], q[m + 1]) /\ g[m + 1] = g[m] + q[m + 1]
      BY <1>6, <1>7, <3>1
    <3>4. f[m + 1] \in Accumulators /\ Taken(f[m + 1]) = Taken(f[m]) + q[m + 1]
      <4>1. q[m + 1] \in 0..Threshold
        BY <1>5, <3>1
      <4> QED BY <3>2, <3>3, <4>1, IntegrateTakes
    <3>5. g[m] \in Nat /\ q[m + 1] \in Nat
      BY <1>1, <1>4, <1>5, <3>1
    <3> QED BY <1>8, <3>2, <3>3, <3>4, <3>5
  <2> QED BY <2>1
<1>11. T = Nat
  <2>1. T \in SUBSET Nat
    OBVIOUS
  <2> HIDE DEF T
  <2> QED BY <1>9, <1>10, <2>1, Reaches
<1>12. f[n] \in Accumulators /\ Taken(f[n]) = fired * Threshold + g[n]
  <2>1. n \in T
    BY <1>1, <1>11
  <2> QED BY <1>1, <2>1
<1> QED BY <1>2, <1>4, <1>12

----------------------------------------------------------------------------
(* One forward.                                                            *)

Weighed == DOMAIN Weight

CacheType ==
  [prev : Seq(Nat), start : Nat, feats : Seq(Nat), carry : 0..(Threshold - 1), fed : Seq(Nat),
   analysed : Seq(Nat), turns : Seq(Nat), integrated : Seq(Weighed), fired : Nat,
   tokens : Int, failed : Nat]

\* The weights of the frames integrated have become tokens or are carried.
Weighs(s, w) == s.fired * Threshold + s.carry = w

\* As long as no forward failed, what had its turn is integrated and no token is lost.
Faithful(s) == s.failed = 0 => s.integrated = s.turns /\ s.tokens = s.fired

\* p differs from s in what a forward changes; in what the integrating of weights changes.
SameBut(p, s) ==
  /\ p.prev = s.prev /\ p.start = s.start /\ p.feats = s.feats /\ p.fed = s.fed
  /\ p.analysed = s.analysed
SameTurns(p, s) == p.turns = s.turns /\ p.tokens = s.tokens /\ p.failed = s.failed

LEMMA WeightTypes ==
  /\ Weighed \subseteq Nat /\ \A f \in Weighed : Weight[f] \in 0..Threshold
  /\ Threshold \in Nat \ {0} /\ TailWeight \in 0..Threshold
BY FirstPassAssumption DEF Weighed

LEMMA Wider == ASSUME NEW A, NEW B, A \subseteq B, NEW q \in Seq(A) PROVE q \in Seq(B)
OBVIOUS

LEMMA ConcatOf ==
  ASSUME NEW S, NEW q \in Seq(S), NEW r \in Seq(S)
  PROVE  /\ q \o r \in Seq(S) /\ Len(q) \in Nat /\ Len(r) \in Nat /\ Len(q \o r) = Len(q) + Len(r)
         /\ q \o r = [k \in 1..(Len(q) + Len(r)) |-> IF k <= Len(q) THEN q[k] ELSE r[k - Len(q)]]
<1> DEFINE p == q \o r
<1>1. p \in Seq(S) /\ Len(q) \in Nat /\ Len(r) \in Nat /\ Len(p) = Len(q) + Len(r)
  OBVIOUS
<1>2. \A k \in 1..(Len(q) + Len(r)) : p[k] = IF k <= Len(q) THEN q[k] ELSE r[k - Len(q)]
  OBVIOUS
<1> HIDE DEF p
<1>3. p = [k \in 1..(Len(q) + Len(r)) |-> p[k]]
  BY <1>1
<1> QED BY <1>1, <1>2, <1>3 DEF p

LEMMA JoinedNumbers ==
  ASSUME NEW q \in Seq(Nat), NEW r \in Seq(Nat)
  PROVE  q \o r \in Seq(Nat) /\ Len(q \o r) = Len(q) + Len(r) /\ Len(q) \in Nat /\ Len(r) \in Nat
OBVIOUS

LEMMA WeightsOf ==
  ASSUME NEW q \in Seq(Weighed), NEW r \in Seq(Weighed)
  PROVE  /\ Weights(q) \in Seq(0..Threshold) /\ Weights(q) \in Seq(Nat)
         /\ Weights(q \o r) = Weights(q) \o Weights(r)
<1> DEFINE W == 0..Threshold
<1>1. ASSUME NEW p \in Seq(Weighed) PROVE Weights(p) \in Seq(W) /\ Len(Weights(p)) = Len(p)
                                          /\ Weights(p) = [k \in 1..Len(p) |-> Weight[p[k]]]
  <2>1. DOMAIN p = 1..Len(p) /\ Len(p) \in Nat /\ \A k \in 1..Len(p) : p[k] \in Weighed
    OBVIOUS
  <2>2. \A k \in 1..Len(p) : Weight[p[k]] \in W
    BY <2>1, WeightTypes
  <2> HIDE DEF W
  <2>3. Weights(p) = [k \in 1..Len(p) |-> Weight[p[k]]]
    BY <2>1 DEF Weights
  <2> QED BY <2>1, <2>2, <2>3
<1>2. W \subseteq Nat
  OBVIOUS
<1> HIDE DEF W
<1>3. Weights(q) \in Seq(Nat)
  <2>1. Weights(q) \in Seq(W)
    BY <1>1
  <2> QED BY <1>2, <2>1, Wider
<1>4. Weights(q \o r) = Weights(q) \o Weights(r)
  <2> DEFINE m == Len(q)
             n == Len(r)
             p == q \o r
             v == Weights(q) \o Weights(r)
  <2>1. /\ m \in Nat /\ n \in Nat /\ p \in Seq(Weighed) /\ Len(p) = m + n
        /\ \A k \in 1..(m + n) : p[k] = IF k <= m THEN q[k] ELSE r[k - m]
    OBVIOUS
  <2>2. v = [k \in 1..(m + n) |-> IF k <= m THEN Weights(q)[k] ELSE Weights(r)[k - m]]
    <3>1. Weights(q) \in Seq(W) /\ Weights(r) \in Seq(W) /\ Len(Weights(q)) = m /\ Len(Weights(r)) = n
      BY <1>1
    <3> DEFINE a == Weights(q)
               b == Weights(r)
    <3>2. a \in Seq(W) /\ b \in Seq(W) /\ Len(a) = m /\ Len(b) = n
      BY <3>1
    <3> HIDE DEF a, b, m, n
    <3>3. a \o b = [k \in 1..(Len(a) + Len(b)) |-> IF k <= Len(a) THEN a[k] ELSE b[k - Len(a)]]
      BY <3>2, ConcatOf
    <3> QED BY <3>2, <3>3 DEF a, b
  <2>3. Weights(p) = [k \in 1..(m + n) |-> Weight[p[k]]]
    BY <1>1, <2>1
  <2>4. /\ \A k \in 1..m : Weights(q)[k] = Weight[q[k]]
        /\ \A k \in 1..n : Weights(r)[k] = Weight[r[k]]
    BY <1>1
  <2> HIDE DEF m, n, p, v
  <2>5. ASSUME NEW k \in 1..(m + n)
        PROVE  (IF k <= m THEN Weights(q)[k] ELSE Weights(r)[k - m]) = Weight[p[k]]
    <3>1. CASE k <= m
      <4>1. k \in 1..m
        BY <2>1, <3>1
      <4> QED BY <2>1, <2>4, <3>1, <4>1
    <3>2. CASE ~(k <= m)
      <4>1. k - m \in 1..n
        BY <2>1, <3>2
      <4> QED BY <2>1, <2>4, <3>2, <4>1
    <3> QED BY <3>1, <3>2
  <2>6. v = Weights(p)
    BY <2>2, <2>3, <2>5
  <2> QED BY <2>6 DEF v, p
<1> QED BY <1>1, <1>3, <1>4 DEF W

IsCif(p, s, w) == p = CifSearch(s, w)

LEMMA CifIs ==
  ASSUME NEW s \in CacheType, NEW w \in Seq(0..Threshold), NEW p, IsCif(p, s, w), NEW x \in Nat,
         Weighs(s, x)
  PROVE  p \in CacheType /\ SameBut(p, s) /\ SameTurns(p, s) /\ p.integrated = s.integrated
         /\ Weighs(p, x + Sum(w)) /\ Sum(w) \in Nat
<1> DEFINE q == <<s.carry>> \o w
           acc == IntegrateAll(s.fired, q)
<1>1. s.carry \in 0..(Threshold - 1) /\ s.fired \in Nat /\ Threshold \in Nat \ {0}
  BY WeightTypes DEF CacheType
<1>2. s.carry \in Nat /\ s.carry \in 0..Threshold /\ w \in Seq(Nat)
  BY <1>1
<1>3. q \in Seq(0..Threshold)
  <2> DEFINE W == 0..Threshold
  <2>1. s.carry \in W /\ w \in Seq(W)
    BY <1>2
  <2> HIDE DEF W
  <2>2. <<s.carry>> \o w \in Seq(W)
    BY <2>1
  <2> QED BY <2>2 DEF W
<1>4. Sum(q) = s.carry + Sum(w) /\ Sum(w) \in Nat
  <2>1. <<s.carry>> \in Seq(Nat)
    BY <1>2
  <2>2. Sum(q) = Sum(<<s.carry>>) + Sum(w) /\ Sum(w) \in Nat
    BY <1>2, <2>1, SumOfConcat
  <2>3. Sum(<<s.carry>>) = s.carry
    BY <1>2, SumOfOne
  <2> QED BY <2>2, <2>3
<1> HIDE DEF q
<1>5. acc \in Accumulators /\ Taken(acc) = s.fired * Threshold + Sum(q)
  BY <1>1, <1>3, AllTakes
<1>6. p = [s EXCEPT !.carry = acc.sum, !.fired = acc.fired]
  BY DEF CifSearch, IsCif, q
<1> HIDE DEF acc
<1>7. acc.sum \in 0..(Threshold - 1) /\ acc.fired \in Nat
  BY <1>5 DEF Accumulators
<1>8. /\ p \in CacheType /\ SameBut(p, s) /\ SameTurns(p, s) /\ p.integrated = s.integrated
      /\ p.carry = acc.sum /\ p.fired = acc.fired
  <2>1. p \in CacheType
    BY <1>6, <1>7 DEF CacheType
  <2>2. SameBut(p, s) /\ p.integrated = s.integrated /\ p.carry = acc.sum /\ p.fired = acc.fired
    BY <1>6 DEF CacheType, SameBut
  <2>3. SameTurns(p, s)
    BY <1>6 DEF CacheType, SameTurns
  <2> QED BY <2>1, <2>2, <2>3
<1>9. p.fired * Threshold + p.carry = x + Sum(w)
  <2>1. s.fired * Threshold \in Int
    BY <1>1, Products
  <2>2. p.fired * Threshold + p.carry = s.fired * Threshold + (s.carry + Sum(w))
    BY <1>4, <1>5, <1>8 DEF Taken
  <2>3. s.fired * Threshold + s.carry = x
    BY DEF Weighs
  <2> QED BY <1>1, <1>4, <2>1, <2>2, <2>3
<1> QED BY <1>4, <1>8, <1>9 DEF Weighs

\* One run of a request; and the due turn, before it.
IsRun(p, s, turn, w) == p = Run(s, turn, w)
IsDue(d, s, turn, o) ==
  d = [s EXCEPT !.turns = s.turns \o turn, !.failed = IF o = Success THEN s.failed ELSE s.failed + 1]

LEMMA RunIs ==
  ASSUME NEW s \in CacheType, NEW turn \in Seq(Weighed), NEW w \in Seq(0..Threshold),
         NEW x \in Nat, Weighs(s, x), NEW p, IsRun(p, s, turn, w)
  PROVE  /\ p \in CacheType /\ SameBut(p, s) /\ SameTurns(p, s)
         /\ p.integrated = s.integrated \o turn
         /\ Weighs(p, x + Sum(w)) /\ Sum(w) \in Nat
<1> DEFINE c == [s EXCEPT !.integrated = s.integrated \o turn]
<1>1. IsCif(p, c, w)
  BY DEF IsRun, Run, IsCif
<1>2. s.integrated \o turn \in Seq(Weighed)
  <2>1. s.integrated \in Seq(Weighed)
    BY DEF CacheType
  <2> QED BY <2>1
<1>3. /\ c \in CacheType /\ SameBut(c, s) /\ SameTurns(c, s) /\ c.integrated = s.integrated \o turn
      /\ c.fired = s.fired /\ c.carry = s.carry
  BY <1>2 DEF CacheType, SameBut, SameTurns
<1> HIDE DEF c
<1>4. Weighs(c, x)
  BY <1>3 DEF Weighs
<1>5. /\ p \in CacheType /\ SameBut(p, c) /\ SameTurns(p, c) /\ p.integrated = c.integrated
      /\ Weighs(p, x + Sum(w)) /\ Sum(w) \in Nat
  BY <1>1, <1>3, <1>4, CifIs
<1> QED BY <1>3, <1>5 DEF SameBut, SameTurns

LEMMA DueIs ==
  ASSUME NEW s \in CacheType, NEW turn \in Seq(Weighed), NEW o, NEW d, IsDue(d, s, turn, o)
  PROVE  /\ d \in CacheType /\ SameBut(d, s) /\ d.turns = s.turns \o turn
         /\ d.integrated = s.integrated /\ d.fired = s.fired /\ d.carry = s.carry /\ d.tokens = s.tokens
         /\ d.failed = IF o = Success THEN s.failed ELSE s.failed + 1
<1> DEFINE q == s.turns \o turn
           f == IF o = Success THEN s.failed ELSE s.failed + 1
<1>1. q \in Seq(Nat) /\ f \in Nat
  <2>1. s.turns \in Seq(Nat) /\ s.failed \in Nat
    BY DEF CacheType
  <2>2. turn \in Seq(Nat)
    BY WeightTypes, Wider
  <2> QED BY <2>1, <2>2
<1>2. d = [s EXCEPT !.turns = q, !.failed = f]
  BY DEF IsDue
<1> HIDE DEF q, f
<1>3. d \in CacheType
  BY <1>1, <1>2 DEF CacheType
<1>4. /\ SameBut(d, s) /\ d.turns = q /\ d.integrated = s.integrated /\ d.fired = s.fired
      /\ d.carry = s.carry /\ d.tokens = s.tokens /\ d.failed = f
  BY <1>2 DEF CacheType, SameBut
<1> QED BY <1>3, <1>4 DEF q, f

\* What a turn of some weights has come to, whatever became of its request: it was run
\* never, once or twice.
Taking(p, s, turn, w, x) ==
  \/ p.integrated = s.integrated /\ Weighs(p, x)
  \/ p.integrated = s.integrated \o turn /\ Weighs(p, x + Sum(w))
  \/ p.integrated = (s.integrated \o turn) \o turn /\ Weighs(p, (x + Sum(w)) + Sum(w))

IsSubmit(p, s, turn, w, o) == p = Submit(s, turn, w, o)

LEMMA SubmitIs ==
  ASSUME NEW s \in CacheType, NEW turn \in Seq(Weighed), NEW w \in Seq(0..Threshold),
         NEW x \in Nat, Weighs(s, x), NEW o, NEW p, IsSubmit(p, s, turn, w, o)
  PROVE  /\ p \in CacheType /\ SameBut(p, s) /\ p.turns = s.turns \o turn
         /\ Taking(p, s, turn, w, x)
         /\ p.failed = 0 => /\ s.failed = 0 /\ p.integrated = s.integrated \o turn
                            /\ Weighs(p, x + Sum(w))
                            /\ s.tokens = s.fired => p.tokens = p.fired
<1> DEFINE d == [s EXCEPT !.turns = s.turns \o turn,
                         !.failed = IF o = Success THEN s.failed ELSE s.failed + 1]
           once == Run(d, turn, w)
           twice == Run(once, turn, w)
           got == IF ~o.read THEN 0
                  ELSE IF o.times = 1 THEN once.fired - d.fired ELSE twice.fired - once.fired
           done == CASE o.times = 0 -> d [] o.times = 1 -> once [] OTHER -> twice
<1>1. IsDue(d, s, turn, o) /\ IsRun(once, d, turn, w) /\ IsRun(twice, once, turn, w)
  BY DEF IsDue, IsRun
<1>2. p = [done EXCEPT !.tokens = done.tokens + got]
  BY DEF IsSubmit, Submit
<1> HIDE DEF d, once, twice, got, done
<1>3. /\ d \in CacheType /\ SameBut(d, s) /\ d.turns = s.turns \o turn
      /\ d.integrated = s.integrated /\ d.fired = s.fired /\ d.carry = s.carry /\ d.tokens = s.tokens
      /\ d.failed = IF o = Success THEN s.failed ELSE s.failed + 1
  BY <1>1, DueIs
<1>4. Weighs(d, x)
  BY <1>3 DEF Weighs
<1>5. /\ once \in CacheType /\ SameBut(once, d) /\ SameTurns(once, d)
      /\ once.integrated = d.integrated \o turn /\ Weighs(once, x + Sum(w)) /\ Sum(w) \in Nat
  <2>1. d \in CacheType /\ IsRun(once, d, turn, w)
    BY <1>1, <1>3
  <2> QED BY <1>4, <2>1, RunIs
<1> DEFINE y == x + Sum(w)
<1>6. /\ twice \in CacheType /\ SameBut(twice, once) /\ SameTurns(twice, once)
      /\ twice.integrated = once.integrated \o turn /\ Weighs(twice, y + Sum(w))
  <2>1. y \in Nat /\ Weighs(once, y) /\ once \in CacheType
    BY <1>5
  <2>2. IsRun(twice, once, turn, w)
    BY <1>1
  <2> HIDE DEF y
  <2> QED BY <2>1, <2>2, RunIs
<1>7. /\ done \in CacheType /\ SameBut(done, s) /\ SameTurns(done, d)
      /\ Taking(done, s, turn, w, x)
  <2>1. CASE o.times = 0
    <3>1. done = d
      BY <2>1 DEF done
    <3>2. SameTurns(d, d) /\ Taking(d, s, turn, w, x)
      BY <1>3, <1>4 DEF SameTurns, Taking
    <3> QED BY <1>3, <3>1, <3>2
  <2>2. CASE o.times = 1
    <3>1. done = once
      BY <2>2 DEF done
    <3>2. SameBut(once, s) /\ Taking(once, s, turn, w, x)
      BY <1>3, <1>5 DEF SameBut, Taking
    <3> QED BY <1>5, <3>1, <3>2
  <2>3. CASE o.times # 0 /\ o.times # 1
    <3>1. done = twice
      BY <2>3 DEF done
    <3>2. SameBut(twice, s) /\ SameTurns(twice, d)
      BY <1>3, <1>5, <1>6 DEF SameBut, SameTurns
    <3>3. Taking(twice, s, turn, w, x)
      BY <1>3, <1>5, <1>6, Zenon DEF Taking, y
    <3> QED BY <1>6, <3>1, <3>2, <3>3
  <2> QED BY <2>1, <2>2, <2>3
<1>8. got \in Int /\ done.tokens + got \in Int
  <2>1. d.fired \in Nat /\ once.fired \in Nat /\ twice.fired \in Nat
    BY <1>3, <1>5, <1>6 DEF CacheType
  <2>2. got \in Int
    BY <2>1 DEF got
  <2>3. done.tokens \in Int
    BY <1>7 DEF CacheType
  <2> QED BY <2>2, <2>3
<1>9. o = Success => done = once /\ got = once.fired - d.fired
  BY DEF Success, got, done
<1>10. p \in CacheType
  BY <1>2, <1>7, <1>8 DEF CacheType
<1>11. /\ SameBut(p, done) /\ p.turns = done.turns /\ p.integrated = done.integrated
       /\ p.fired = done.fired /\ p.carry = done.carry /\ p.failed = done.failed
       /\ p.tokens = done.tokens + got
  BY <1>2, <1>7 DEF CacheType, SameBut
<1>12. SameBut(p, s) /\ p.turns = s.turns \o turn
  BY <1>3, <1>7, <1>11 DEF SameBut, SameTurns
<1>13. Taking(p, s, turn, w, x)
  BY <1>7, <1>11, Zenon DEF Taking, Weighs
<1>14. ASSUME p.failed = 0
       PROVE  /\ s.failed = 0 /\ p.integrated = s.integrated \o turn /\ Weighs(p, x + Sum(w))
              /\ s.tokens = s.fired => p.tokens = p.fired
  <2>1. d.failed = 0 /\ s.failed \in Nat
    BY <1>7, <1>11, <1>14 DEF SameTurns, CacheType
  <2>2. o = Success /\ s.failed = 0
    BY <1>3, <2>1
  <2>3. done = once /\ got = once.fired - d.fired
    BY <1>9, <2>2
  <2>4. p.integrated = s.integrated \o turn /\ Weighs(p, x + Sum(w))
    BY <1>3, <1>5, <1>11, <2>3 DEF Weighs
  <2>5. ASSUME s.tokens = s.fired PROVE p.tokens = p.fired
    <3>1. p.tokens = s.tokens + (once.fired - s.fired) /\ p.fired = once.fired
      BY <1>3, <1>5, <1>11, <2>3 DEF SameTurns
    <3>2. once.fired \in Nat /\ s.fired \in Nat
      BY <1>5 DEF CacheType
    <3> QED BY <2>5, <3>1, <3>2
  <2> QED BY <2>2, <2>4, <2>5
<1> QED BY <1>10, <1>12, <1>13, <1>14

\* The forward of a window, and the frames from which the left context is cut.
IsForward(p, s, window, last, o) == p = Forward(s, window, last, o)
IsTurn(turn, window, end) == turn = SubSeq(window, Before + 1, end)

LEMMA IntegratedWeight ==
  ASSUME NEW s \in CacheType, NEW turn \in Seq(Weighed)
  PROVE  /\ Sum(Weights(s.integrated)) \in Nat /\ Sum(Weights(turn)) \in Nat
         /\ Sum(Weights(s.integrated \o turn)) = Sum(Weights(s.integrated)) + Sum(Weights(turn))
         /\ Sum(Weights((s.integrated \o turn) \o turn))
              = (Sum(Weights(s.integrated)) + Sum(Weights(turn))) + Sum(Weights(turn))
<1> DEFINE q == s.integrated
           r == q \o turn
<1>1. q \in Seq(Weighed) /\ r \in Seq(Weighed)
  <2>1. q \in Seq(Weighed)
    BY DEF CacheType
  <2> HIDE DEF q
  <2> QED BY <2>1
<1> HIDE DEF q, r
<1>2. /\ Weights(turn) \in Seq(Nat) /\ Weights(q) \in Seq(Nat) /\ Weights(r) \in Seq(Nat)
      /\ Weights(q \o turn) = Weights(q) \o Weights(turn)
      /\ Weights(r \o turn) = Weights(r) \o Weights(turn)
  BY <1>1, WeightsOf
<1>3. /\ Sum(Weights(q) \o Weights(turn)) = Sum(Weights(q)) + Sum(Weights(turn))
      /\ Sum(Weights(r) \o Weights(turn)) = Sum(Weights(r)) + Sum(Weights(turn))
      /\ Sum(Weights(q)) \in Nat /\ Sum(Weights(turn)) \in Nat
  BY <1>2, SumOfConcat
<1>4. Sum(Weights(r)) = Sum(Weights(q)) + Sum(Weights(turn))
  BY <1>2, <1>3 DEF r
<1> QED BY <1>2, <1>3, <1>4 DEF q, r

\* Whatever becomes of a forward that is not the last, its frames have had their turn and
\* the weight integrated is accounted for; and if it succeeds they are integrated.
LEMMA ForwardOn ==
  ASSUME NEW s \in CacheType, NEW window, NEW turn \in Seq(Weighed),
         IsTurn(turn, window, Before + Middle),
         Weighs(s, Sum(Weights(s.integrated))), Faithful(s), NEW o,
         NEW p, IsForward(p, s, window, FALSE, o)
  PROVE  /\ p \in CacheType /\ SameBut(p, s) /\ p.turns = s.turns \o turn
         /\ Weighs(p, Sum(Weights(p.integrated))) /\ Faithful(p)
<1> DEFINE w == Weights(turn)
           x == Sum(Weights(s.integrated))
<1>1. IsSubmit(p, s, turn, w, o)
  BY DEF Forward, IsForward, IsTurn, IsSubmit
<1>2. w \in Seq(0..Threshold) /\ x \in Nat
  BY WeightsOf, IntegratedWeight
<1> HIDE DEF w, x
<1>3. Weighs(s, x)
  BY DEF x
<1>4. /\ p \in CacheType /\ SameBut(p, s) /\ p.turns = s.turns \o turn
      /\ Taking(p, s, turn, w, x)
      /\ p.failed = 0 => /\ s.failed = 0 /\ p.integrated = s.integrated \o turn
                         /\ Weighs(p, x + Sum(w))
                         /\ s.tokens = s.fired => p.tokens = p.fired
  BY <1>1, <1>2, <1>3, SubmitIs
<1>5. Faithful(p)
  BY <1>4 DEF Faithful
<1>6. /\ Sum(Weights(s.integrated)) = x /\ Sum(Weights(s.integrated \o turn)) = x + Sum(w)
      /\ Sum(Weights((s.integrated \o turn) \o turn)) = (x + Sum(w)) + Sum(w)
  BY IntegratedWeight DEF x, w
<1>7. Weighs(p, Sum(Weights(p.integrated)))
  BY <1>4, <1>6, Zenon DEF Taking
<1> QED BY <1>4, <1>5, <1>7

\* In the last forward the end of the window has its turn too, and the weight of the tail.
LEMMA ForwardLast ==
  ASSUME NEW s \in CacheType, NEW window, NEW turn \in Seq(Weighed),
         IsTurn(turn, window, Len(window)),
         Weighs(s, Sum(Weights(s.integrated))), Faithful(s), NEW o,
         NEW p, IsForward(p, s, window, TRUE, o)
  PROVE  /\ p \in CacheType /\ SameBut(p, s)
         /\ p.failed = 0 => /\ p.integrated = s.turns \o turn /\ p.tokens = p.fired
                            /\ Weighs(p, Sum(Weights(p.integrated)) + TailWeight)
<1> DEFINE W == 0..Threshold
           v == Weights(turn)
           w == Append(v, TailWeight)
           x == Sum(Weights(s.integrated))
<1>1. IsSubmit(p, s, turn, w, o)
  BY DEF Forward, IsForward, IsTurn, IsSubmit
<1>2. TailWeight \in W /\ TailWeight \in Nat /\ v \in Seq(W) /\ v \in Seq(Nat)
  <2>1. TailWeight \in W /\ TailWeight \in Nat
    BY WeightTypes
  <2>2. v \in Seq(W) /\ v \in Seq(Nat)
    BY WeightsOf
  <2> QED BY <2>1, <2>2
<1>3. /\ x \in Nat /\ Sum(v) \in Nat /\ Sum(Weights(s.integrated \o turn)) = x + Sum(v)
  BY IntegratedWeight
<1> HIDE DEF W, v
<1>4. w \in Seq(W)
  BY <1>2
<1>5. w = v \o <<TailWeight>> /\ <<TailWeight>> \in Seq(Nat)
  BY <1>2
<1>6. Sum(v \o <<TailWeight>>) = Sum(v) + Sum(<<TailWeight>>)
  BY <1>2, <1>5, SumOfConcat
<1>7. Sum(<<TailWeight>>) = TailWeight
  BY <1>2, SumOfOne
<1>8. Sum(w) = Sum(v) + TailWeight
  BY <1>5, <1>6, <1>7
<1> HIDE DEF w
<1>9. /\ p \in CacheType /\ SameBut(p, s)
      /\ p.failed = 0 => /\ s.failed = 0 /\ p.integrated = s.integrated \o turn
                         /\ Weighs(p, x + Sum(w))
                         /\ s.tokens = s.fired => p.tokens = p.fired
  <2>1. w \in Seq(0..Threshold)
    BY <1>4 DEF W
  <2>2. Weighs(s, x)
    OBVIOUS
  <2> HIDE DEF x
  <2> QED BY <1>1, <1>3, <2>1, <2>2, SubmitIs
<1> HIDE DEF x
<1>10. ASSUME p.failed = 0
       PROVE  /\ p.integrated = s.turns \o turn /\ p.tokens = p.fired
              /\ Weighs(p, Sum(Weights(p.integrated)) + TailWeight)
  <2>1. p.integrated = s.integrated \o turn /\ Weighs(p, x + Sum(w)) /\ s.failed = 0
    BY <1>9, <1>10
  <2>2. s.integrated = s.turns /\ p.tokens = p.fired
    BY <1>9, <1>10, <2>1 DEF Faithful
  <2>3. x + Sum(w) = Sum(Weights(p.integrated)) + TailWeight
    <3>1. x + (Sum(v) + TailWeight) = (x + Sum(v)) + TailWeight
      BY <1>2, <1>3
    <3> QED BY <1>3, <1>8, <2>1, <3>1
  <2>4. Weighs(p, Sum(Weights(p.integrated)) + TailWeight)
    BY <2>1, <2>3
  <2> QED BY <2>1, <2>2, <2>4
<1> QED BY <1>9, <1>10

----------------------------------------------------------------------------
(* Windows of frames.                                                      *)

\* The frame of number x, or the padding before the first.
Ahead(x) == IF x > 0 THEN x ELSE Padding

KeptFrames(start) == [k \in 1..(Before + After) |-> Ahead(start - Before - After + k)]
Window(start, m) == [k \in 1..(Before + After + m) |-> Ahead(start - Before - After + k)]
Turn(start, n) == [k \in 1..n |-> Ahead(start - After + k)]
Following(m, n) == [k \in 1..n |-> m + k]

\* The frames that had their turn when start frames have been extracted.
Done(start) == IF start = 0 THEN <<>> ELSE FramesUpTo(start - After)

LEMMA FrameTypes ==
  /\ Before \in Nat \ {0} /\ Middle \in Nat \ {0} /\ FrameSamples \in Nat \ {0}
  /\ After \in Nat /\ After <= Middle /\ Padding = 0
BY FirstPassAssumption DEF Padding

LEMMA AheadType == \A x \in Int : Ahead(x) \in Nat /\ (x >= 0 => Ahead(x) = x)
BY FrameTypes DEF Ahead

LEMMA PartOf ==
  ASSUME NEW S, NEW q \in Seq(S), NEW a \in Int, NEW b \in Int, 1 <= a, a <= b + 1, b <= Len(q)
  PROVE  /\ SubSeq(q, a, b) \in Seq(S) /\ Len(SubSeq(q, a, b)) = b - a + 1
         /\ SubSeq(q, a, b) = [k \in 1..(b - a + 1) |-> q[a + k - 1]]
<1> DEFINE p == SubSeq(q, a, b)
<1>1. \A k \in a..b : q[k] \in S
  OBVIOUS
<1>2. /\ p \in Seq(S) /\ Len(p) = IF a <= b THEN b - a + 1 ELSE 0
      /\ \A k \in 1..(b - a + 1) : p[k] = q[a + k - 1]
  BY <1>1, SubSeqProperties
<1>3. Len(p) = b - a + 1
  BY <1>2
<1> HIDE DEF p
<1>4. p = [k \in 1..(b - a + 1) |-> p[k]]
  BY <1>2, <1>3
<1> QED BY <1>2, <1>3, <1>4 DEF p

\* The frames kept and the new ones.
LEMMA WindowIs ==
  ASSUME NEW s, s.start \in Nat, s.feats = KeptFrames(s.start), NEW m \in Nat
  PROVE  /\ s.feats \o NewFrames(s, m) = Window(s.start, m)
         /\ Window(s.start, m) \in Seq(Nat) /\ Len(Window(s.start, m)) = Before + After + m
         /\ NewFrames(s, m) \in Seq(Nat)
<1> DEFINE x == s.start
           B == Before + After
           q == s.feats
           r == NewFrames(s, m)
<1>1. x \in Nat /\ B \in Nat /\ m \in Nat
  BY FrameTypes
<1>2. \A k \in Int : Ahead(x - Before - After + k) \in Nat /\ x - Before - After + k = x - B + k
  BY <1>1, FrameTypes, AheadType
<1>3. q = [k \in 1..B |-> Ahead(x - Before - After + k)] /\ r = [k \in 1..m |-> x + k]
  BY DEF KeptFrames, NewFrames
<1> HIDE DEF x, B, q, r
<1>4. q \in Seq(Nat) /\ Len(q) = B /\ r \in Seq(Nat) /\ Len(r) = m
  <2>1. \A k \in 1..B : Ahead(x - Before - After + k) \in Nat
    BY <1>2
  <2>2. \A k \in 1..m : x + k \in Nat
    BY <1>1
  <2>3. q \in Seq(Nat) /\ Len(q) = B
    BY <1>1, <1>3, <2>1
  <2>4. r \in Seq(Nat) /\ Len(r) = m
    BY <1>1, <1>3, <2>2
  <2> QED BY <2>3, <2>4
<1>5. q \o r = [k \in 1..(B + m) |-> IF k <= B THEN q[k] ELSE r[k - B]]
  <2>1. q \o r = [k \in 1..(Len(q) + Len(r)) |-> IF k <= Len(q) THEN q[k] ELSE r[k - Len(q)]]
    BY <1>4, ConcatOf
  <2> QED BY <1>4, <2>1
<1>6. ASSUME NEW k \in 1..(B + m) PROVE (IF k <= B THEN q[k] ELSE r[k - B]) = Ahead(x - Before - After + k)
  <2>1. CASE k <= B
    <3>1. k \in 1..B
      BY <1>1, <2>1
    <3> QED BY <1>3, <2>1, <3>1
  <2>2. CASE ~(k <= B)
    <3>1. k - B \in 1..m /\ x - B + k > 0 /\ k \in Int /\ x + (k - B) = x - B + k
      BY <1>1, <2>2
    <3>2. r[k - B] = x + (k - B)
      BY <1>3, <3>1
    <3>3. Ahead(x - Before - After + k) = x - B + k
      BY <1>2, <3>1 DEF Ahead
    <3> QED BY <2>2, <3>1, <3>2, <3>3
  <2> QED BY <2>1, <2>2
<1>7. Window(x, m) = [k \in 1..(B + m) |-> Ahead(x - Before - After + k)]
  BY DEF Window, B
<1>8. q \o r = Window(x, m)
  BY <1>5, <1>6, <1>7
<1>9. Window(x, m) \in Seq(Nat) /\ Len(Window(x, m)) = B + m
  <2>1. q \o r \in Seq(Nat) /\ Len(q \o r) = B + m
    BY <1>4, ConcatOf
  <2> QED BY <1>8, <2>1
<1> QED BY <1>4, <1>8, <1>9 DEF x, B, q, r

\* The frames of a window whose turn it is.
LEMMA TurnIs ==
  ASSUME NEW start \in Nat, NEW m \in Nat, NEW n \in 0..(After + m)
  PROVE  SubSeq(Window(start, m), Before + 1, Before + n) = Turn(start, n)
<1> DEFINE w == Window(start, m)
<1>1. /\ Before \in Nat /\ After \in Nat /\ n \in Nat
      /\ w = [k \in 1..(Before + After + m) |-> Ahead(start - Before - After + k)]
  BY FrameTypes DEF Window
<1>2. SubSeq(w, Before + 1, Before + n) = [k \in 1..((Before + n) - (Before + 1) + 1) |-> w[(Before + 1) + k - 1]]
  <2>1. w \in Seq(Nat) /\ Len(w) = Before + After + m
    BY <1>1, AheadType
  <2> HIDE DEF w
  <2>2. 1 <= Before + 1 /\ Before + 1 <= Before + n + 1 /\ Before + n <= Len(w)
        /\ Before + 1 \in Int /\ Before + n \in Int
    BY <1>1, <2>1
  <2> DEFINE a == Before + 1
             b == Before + n
  <2>3. 1 <= a /\ a <= b + 1 /\ b <= Len(w) /\ a \in Int /\ b \in Int
    BY <2>2
  <2> HIDE DEF a, b
  <2>4. SubSeq(w, a, b) = [k \in 1..(b - a + 1) |-> w[a + k - 1]]
    BY <2>1, <2>3, PartOf
  <2> QED BY <2>4 DEF a, b
<1> HIDE DEF w
<1>3. (Before + n) - (Before + 1) + 1 = n
  BY <1>1
<1>4. ASSUME NEW k \in 1..n PROVE w[(Before + 1) + k - 1] = Ahead(start - After + k)
  <2>1. /\ (Before + 1) + k - 1 \in 1..(Before + After + m)
        /\ start - Before - After + ((Before + 1) + k - 1) = start - After + k
    BY <1>1
  <2> QED BY <1>1, <2>1
<1> QED BY <1>2, <1>3, <1>4 DEF Turn, w

\* The last frames of a window.
LEMMA LastFrames ==
  ASSUME NEW start \in Nat, NEW m \in Nat, NEW c \in 0..(Before + After + m)
  PROVE  LastOf(Window(start, m), c) = [k \in 1..c |-> Ahead(start + m - c + k)]
<1> DEFINE w == Window(start, m)
           l == Before + After + m
<1>1. /\ Before \in Nat /\ After \in Nat /\ c \in Nat /\ l \in Nat /\ Len(w) = l
      /\ w = [k \in 1..l |-> Ahead(start - Before - After + k)]
  BY FrameTypes DEF Window
<1>2. l = Before + After + m
  OBVIOUS
<1>3. LastOf(w, c) = [k \in 1..(l - (l - c + 1) + 1) |-> w[(l - c + 1) + k - 1]]
  <2>1. w \in Seq(Nat) /\ LastOf(w, c) = SubSeq(w, l - c + 1, l)
    BY <1>1, AheadType DEF LastOf
  <2> HIDE DEF w, l
  <2>2. 1 <= l - c + 1 /\ l - c + 1 <= l + 1 /\ l <= Len(w) /\ l - c + 1 \in Int /\ l \in Int
    BY <1>1, <1>2
  <2> QED BY <2>1, <2>2, PartOf
<1> HIDE DEF w, l
<1>4. l - (l - c + 1) + 1 = c
  BY <1>1
<1>5. ASSUME NEW k \in 1..c PROVE w[(l - c + 1) + k - 1] = Ahead(start + m - c + k)
  <2>1. /\ (l - c + 1) + k - 1 \in 1..l
        /\ start - Before - After + ((l - c + 1) + k - 1) = start + m - c + k
    BY <1>1, <1>2
  <2> QED BY <1>1, <2>1
<1> QED BY <1>3, <1>4, <1>5 DEF w

LEMMA KeptAgain ==
  ASSUME NEW start \in Nat, NEW m \in Nat
  PROVE  LastOf(Window(start, m), Before + After) = KeptFrames(start + m)
<1>1. Before + After \in 0..(Before + After + m) /\ Before \in Nat /\ After \in Nat
  BY FrameTypes
<1>2. LastOf(Window(start, m), Before + After) = [k \in 1..(Before + After) |-> Ahead(start + m - (Before + After) + k)]
  BY <1>1, LastFrames
<1>3. \A k \in 1..(Before + After) : start + m - (Before + After) + k = (start + m) - Before - After + k
  BY <1>1
<1>4. KeptFrames(start + m) = [k \in 1..(Before + After) |-> Ahead((start + m) - Before - After + k)]
  BY DEF KeptFrames
<1> QED BY <1>2, <1>3, <1>4

\* The frames up to m, and those that follow.
LEMMA UpToIs == ASSUME NEW m \in Nat
                PROVE  /\ FramesUpTo(m) = [k \in 1..(After + m) |-> Ahead(k - After)]
                       /\ FramesUpTo(m) \in Seq(Nat) /\ Len(FramesUpTo(m)) = After + m
<1> DEFINE q == [k \in 1..After |-> Padding]
           r == [k \in 1..m |-> k]
<1>1. After \in Nat /\ Padding = 0 /\ q \in Seq(Nat) /\ r \in Seq(Nat) /\ Len(q) = After /\ Len(r) = m
  BY FrameTypes
<1>2. /\ \A k \in 1..After : q[k] = Ahead(k - After)
      /\ \A k \in 1..m : r[k] = Ahead(k)
  BY <1>1 DEF Ahead
<1>3. FramesUpTo(m) = q \o r
  BY DEF FramesUpTo
<1> HIDE DEF q, r
<1>4. q \o r = [k \in 1..(After + m) |-> IF k <= After THEN q[k] ELSE r[k - After]] /\ q \o r \in Seq(Nat)
      /\ Len(q \o r) = After + m
  <2>1. /\ q \o r \in Seq(Nat) /\ Len(q \o r) = Len(q) + Len(r)
        /\ q \o r = [k \in 1..(Len(q) + Len(r)) |-> IF k <= Len(q) THEN q[k] ELSE r[k - Len(q)]]
    <3>1. q \in Seq(Nat) /\ r \in Seq(Nat)
      BY <1>1
    <3> QED BY <3>1, ConcatOf
  <2> QED BY <1>1, <2>1
<1>5. ASSUME NEW k \in 1..(After + m) PROVE (IF k <= After THEN q[k] ELSE r[k - After]) = Ahead(k - After)
  <2>1. CASE k <= After
    <3>1. k \in 1..After
      BY <1>1, <2>1
    <3> QED BY <1>2, <2>1, <3>1
  <2>2. CASE ~(k <= After)
    <3>1. k - After \in 1..m
      BY <1>1, <2>2
    <3> QED BY <1>2, <2>2, <3>1
  <2> QED BY <2>1, <2>2
<1> QED BY <1>3, <1>4, <1>5

LEMMA UpToFollowed ==
  ASSUME NEW m \in Nat, NEW n \in Nat
  PROVE  FramesUpTo(m) \o Following(m, n) = FramesUpTo(m + n)
<1> DEFINE q == FramesUpTo(m)
           r == Following(m, n)
           l == After + m
<1>1. /\ After \in Nat /\ l \in Nat /\ q = [k \in 1..l |-> Ahead(k - After)] /\ q \in Seq(Nat) /\ Len(q) = l
      /\ FramesUpTo(m + n) = [k \in 1..(After + (m + n)) |-> Ahead(k - After)]
  <2>1. After \in Nat /\ m + n \in Nat
    BY FrameTypes
  <2>2. q = [k \in 1..l |-> Ahead(k - After)] /\ q \in Seq(Nat) /\ Len(q) = l
    BY UpToIs
  <2>3. FramesUpTo(m + n) = [k \in 1..(After + (m + n)) |-> Ahead(k - After)]
    BY <2>1, UpToIs
  <2> QED BY <2>1, <2>2, <2>3
<1>2. r \in Seq(Nat) /\ Len(r) = n /\ r = [k \in 1..n |-> m + k]
  BY DEF Following
<1>3. After + (m + n) = l + n /\ l - After = m
  BY <1>1
<1> HIDE DEF q, r, l
<1>4. q \o r = [k \in 1..(l + n) |-> IF k <= l THEN q[k] ELSE r[k - l]]
  BY <1>1, <1>2, ConcatOf
<1>5. ASSUME NEW k \in 1..(l + n) PROVE (IF k <= l THEN q[k] ELSE r[k - l]) = Ahead(k - After)
  <2>1. CASE k <= l
    <3>1. k \in 1..l
      BY <1>1, <2>1
    <3> QED BY <1>1, <2>1, <3>1
  <2>2. CASE ~(k <= l)
    <3>1. k - l \in 1..n /\ m + (k - l) = k - After /\ k - After \in Int /\ k - After >= 0
      BY <1>1, <1>3, <2>2
    <3>2. r[k - l] = k - After
      BY <1>2, <3>1
    <3>3. Ahead(k - After) = k - After
      BY <3>1, AheadType
    <3> QED BY <2>2, <3>2, <3>3
  <2> QED BY <2>1, <2>2
<1>6. q \o r = [k \in 1..(l + n) |-> Ahead(k - After)]
  BY <1>4, <1>5
<1>7. FramesUpTo(m + n) = [k \in 1..(l + n) |-> Ahead(k - After)]
  BY <1>1, <1>3
<1> QED BY <1>6, <1>7 DEF q, r

LEMMA TurnFollows ==
  ASSUME NEW start \in Nat, NEW n \in Nat, start = 0 => n >= After, start = 0 \/ start >= Middle
  PROVE  Done(start) \o Turn(start, n) = FramesUpTo(start + n - After) /\ start + n - After \in Nat
<1>1. After \in Nat /\ After <= Middle /\ Middle \in Nat
  BY FrameTypes
<1>2. start + n - After \in Nat
  BY <1>1
<1>3. CASE start = 0
  <2>1. /\ start + n - After = n - After /\ n - After \in Nat /\ After + (n - After) = n
        /\ \A k \in 1..n : start - After + k = k - After
    BY <1>1, <1>2, <1>3
  <2>2. FramesUpTo(n - After) = [k \in 1..n |-> Ahead(k - After)] /\ FramesUpTo(n - After) \in Seq(Nat)
    BY <2>1, UpToIs
  <2>3. Turn(start, n) = FramesUpTo(n - After)
    BY <2>1, <2>2 DEF Turn
  <2>4. Done(start) = <<>>
    BY <1>3 DEF Done
  <2> DEFINE f == FramesUpTo(n - After)
  <2>5. f \in Seq(Nat)
    BY <2>2
  <2> HIDE DEF f
  <2>6. <<>> \o f = f
    BY <2>5
  <2> QED BY <1>2, <2>1, <2>3, <2>4, <2>6 DEF f
<1>4. CASE start # 0
  <2>1. start - After \in Nat /\ (start - After) + n = start + n - After
    BY <1>1, <1>4
  <2>2. Turn(start, n) = Following(start - After, n)
    <3>1. \A k \in 1..n : start - After + k \in Int /\ start - After + k >= 0
      BY <2>1
    <3> QED BY <3>1, AheadType DEF Turn, Following
  <2>3. Done(start) = FramesUpTo(start - After)
    BY <1>4 DEF Done
  <2> QED BY <1>2, <2>1, <2>2, <2>3, UpToFollowed
<1> QED BY <1>3, <1>4

LEMMA TurnWeighed ==
  ASSUME NEW start \in Nat, NEW n \in Nat, start + n >= After, 0..(start + n - After) \subseteq Weighed
  PROVE  Turn(start, n) \in Seq(Weighed) /\ Len(Turn(start, n)) = n
<1>1. ASSUME NEW k \in 1..n PROVE Ahead(start - After + k) \in Weighed
  <2>1. After \in Nat /\ Padding = 0
    BY FrameTypes
  <2>2. Ahead(start - After + k) \in 0..(start + n - After)
    BY <2>1 DEF Ahead
  <2> QED BY <2>2
<1> QED BY <1>1 DEF Turn

----------------------------------------------------------------------------
(* Strides.                                                                *)

\* A cache between two strides, as far as frames and weights go.
Steady(s) ==
  /\ s \in CacheType
  /\ s.feats = KeptFrames(s.start)
  /\ s.start = 0 \/ s.start >= Middle
  /\ s.turns = Done(s.start)
  /\ Weighs(s, Sum(Weights(s.integrated))) /\ Faithful(s)
  /\ s.start = 0 => s.tokens = 0
  /\ Len(s.analysed) = s.start * FrameSamples

LEMMA SizesAre ==
  /\ Before \in Nat \ {0} /\ Middle \in Nat \ {0} /\ FrameSamples \in Nat \ {0} /\ After \in Nat
  /\ After <= Middle /\ Stride \in Nat \ {0} /\ Stride = Middle * FrameSamples /\ MaxBytes \in Nat
<1>1. /\ Before \in Nat \ {0} /\ Middle \in Nat \ {0} /\ FrameSamples \in Nat \ {0} /\ After \in Nat
      /\ After <= Middle
  BY FrameTypes
<1>2. MaxBytes \in Nat
  BY BufferAssumption
<1>3. Middle * FrameSamples \in Int /\ 0 * FrameSamples < Middle * FrameSamples /\ 0 * FrameSamples = 0
  BY <1>1, Products
<1> QED BY <1>1, <1>2, <1>3 DEF Stride

\* The frames of the audio there may be have a weight.
LEMMA EveryFrameWeighs ==
  ASSUME NEW n \in Nat, 2 * (n * FrameSamples) <= MaxBytes
  PROVE  0..(n + 1) \subseteq Weighed
<1> DEFINE F == 2 * FrameSamples
           q == MaxBytes \div F
<1>1. F \in Nat \ {0} /\ FrameSamples \in Nat \ {0} /\ MaxBytes \in Nat
  BY SizesAre
<1>2. n * F = 2 * (n * FrameSamples) /\ n * F \in Int
  BY <1>1
<1>3. 0..(q + 1) \subseteq Weighed
  BY AudioAssumption DEF Weighed
<1> HIDE DEF F
<1>4. q \in Int /\ MaxBytes < q * F + F
  BY <1>1, Quotient
<1> HIDE DEF q
<1>5. (q + 1) * F = q * F + F /\ (n < q + 1 <=> n * F < (q + 1) * F)
  BY <1>1, <1>4, Products
<1>6. q * F \in Int
  BY <1>1, <1>4, Products
<1>7. n < q + 1
  BY <1>1, <1>2, <1>4, <1>5, <1>6
<1> QED BY <1>3, <1>4, <1>7

\* A stride as long as it should be, and within the bound; and what it leads to.
IsStride(chunk) == chunk \in Seq(Nat) /\ Len(chunk) = Stride
Fits(s) == 2 * (Len(s.analysed) + Stride) <= MaxBytes
IsChunk(p, s, chunk, o) == p = Chunk(s, chunk, o)

LEMMA ChunkIs ==
  ASSUME NEW s, Steady(s), NEW chunk, IsStride(chunk), Fits(s), NEW o, NEW p, IsChunk(p, s, chunk, o)
  PROVE  /\ Steady(p) /\ p.start = s.start + Middle /\ p.analysed = s.analysed \o chunk
         /\ p.prev = s.prev /\ p.fed = s.fed
<1>1. chunk \in Seq(Nat) /\ Len(chunk) = Stride /\ 2 * (Len(s.analysed) + Stride) <= MaxBytes
  BY DEF IsStride, Fits
<1> DEFINE x == s.start
           y == x + Middle
           window == Window(x, Middle)
           c == [Extracted(s, chunk, Middle) EXCEPT !.feats = LastOf(window, Before + After)]
           turn == Turn(x, Middle)
<1>2. /\ s \in CacheType /\ x \in Nat /\ s.feats = KeptFrames(x) /\ s.analysed \in Seq(Nat)
      /\ s.turns = Done(x) /\ Len(s.analysed) = x * FrameSamples /\ (x = 0 \/ x >= Middle)
      /\ Weighs(s, Sum(Weights(s.integrated))) /\ Faithful(s)
  BY DEF Steady, CacheType
<1>3. /\ Middle \in Nat /\ Middle > 0 /\ After \in Nat /\ After <= Middle /\ FrameSamples \in Nat \ {0}
      /\ Before \in Nat /\ After <= After + Middle /\ Middle \in 0..(After + Middle)
  BY SizesAre
<1>4. s.feats \o NewFrames(s, Middle) = window /\ window \in Seq(Nat)
  BY <1>2, <1>3, WindowIs
<1> HIDE DEF x
<1>5. y \in Nat /\ y # 0 /\ y >= Middle /\ y = x + Middle
  BY <1>2, <1>3
<1> HIDE DEF y
<1>6. IsForward(p, c, window, FALSE, o)
  BY <1>4 DEF Chunk, IsChunk, IsForward
<1>7. LastOf(window, Before + After) = KeptFrames(y) /\ KeptFrames(y) \in Seq(Nat)
  <2>1. LastOf(window, Before + After) = KeptFrames(y)
    BY <1>2, <1>3, <1>5, KeptAgain
  <2>2. \A k \in 1..(Before + After) : Ahead(y - Before - After + k) \in Nat
    <3> SUFFICES ASSUME NEW k \in 1..(Before + After) PROVE Ahead(y - Before - After + k) \in Nat
      OBVIOUS
    <3>1. y - Before - After + k \in Int
      BY <1>3, <1>5
    <3> QED BY <3>1, AheadType
  <2>3. KeptFrames(y) \in Seq(Nat)
    BY <1>3, <2>2 DEF KeptFrames
  <2> QED BY <2>1, <2>3
<1>8. s.analysed \o chunk \in Seq(Nat) /\ Len(s.analysed \o chunk) = Len(s.analysed) + Stride
  BY <1>1, <1>2, JoinedNumbers
<1>9. Len(s.analysed) + Stride = y * FrameSamples /\ y * FrameSamples \in Nat
  <2>1. (x + Middle) * FrameSamples = x * FrameSamples + Middle * FrameSamples
    BY <1>2, <1>3
  <2>2. Len(s.analysed) \in Nat /\ Stride \in Nat /\ Stride = Middle * FrameSamples
    BY <1>2, SizesAre
  <2> QED BY <1>2, <1>5, <2>1, <2>2
<1>10. turn \in Seq(Weighed)
  <2>1. 0..(y + 1) \subseteq Weighed
    <3>1. 2 * (y * FrameSamples) <= MaxBytes
      BY <1>1, <1>9
    <3> QED BY <1>5, <3>1, EveryFrameWeighs
  <2>2. x + Middle - After <= y + 1 /\ x + Middle >= After /\ x + Middle - After \in Int
    BY <1>2, <1>3, <1>5
  <2>3. 0..(x + Middle - After) \subseteq Weighed
    <3> DEFINE z == x + Middle - After
    <3>1. z \in Int /\ z <= y + 1 /\ y \in Nat
      BY <1>5, <2>2
    <3> HIDE DEF z
    <3>2. \A k \in 0..z : k \in 0..(y + 1)
      BY <3>1
    <3>3. 0..z \subseteq Weighed
      BY <2>1, <3>2
    <3> QED BY <3>3 DEF z
  <2> QED BY <1>2, <1>3, <2>2, <2>3, TurnWeighed
<1>11. IsTurn(turn, window, Before + Middle)
  BY <1>2, <1>3, TurnIs DEF IsTurn
<1>12. Done(x) \o turn = FramesUpTo(y - After)
  <2>1. Done(x) \o turn = FramesUpTo(x + Middle - After)
    BY <1>2, <1>3, TurnFollows
  <2>2. x + Middle - After = y - After
    BY <1>2, <1>3, <1>5
  <2> QED BY <2>1, <2>2
<1>13. Done(y) = FramesUpTo(y - After)
  BY <1>5 DEF Done
<1> HIDE DEF window, turn
<1>14. c = [s EXCEPT !.start = s.start + Middle, !.analysed = s.analysed \o chunk, !.feats = KeptFrames(y)]
  BY <1>2, <1>7 DEF Extracted, CacheType
<1> HIDE DEF c
<1>15. /\ c \in CacheType /\ c.start = y /\ c.analysed = s.analysed \o chunk /\ c.feats = KeptFrames(y)
       /\ c.integrated = s.integrated /\ c.fired = s.fired /\ c.carry = s.carry /\ SameTurns(c, s)
       /\ c.prev = s.prev /\ c.fed = s.fed
  <2>1. c \in CacheType
    <3>1. s.start + Middle \in Nat
      BY <1>5 DEF x
    <3> QED BY <1>2, <1>7, <1>8, <1>14, <3>1 DEF CacheType
  <2> QED BY <1>2, <1>14, <1>5, <2>1 DEF CacheType, SameTurns, x
<1>16. Weighs(c, Sum(Weights(c.integrated))) /\ Faithful(c)
  BY <1>2, <1>15 DEF Weighs, Faithful, SameTurns
<1>17. /\ p \in CacheType /\ SameBut(p, c) /\ p.turns = c.turns \o turn
       /\ Weighs(p, Sum(Weights(p.integrated))) /\ Faithful(p)
  BY <1>6, <1>10, <1>11, <1>15, <1>16, ForwardOn
<1>18. /\ p.start = y /\ p.analysed = s.analysed \o chunk /\ p.feats = KeptFrames(y)
       /\ p.prev = s.prev /\ p.fed = s.fed /\ p.turns = Done(y)
  BY <1>2, <1>12, <1>13, <1>15, <1>17 DEF SameBut, SameTurns
<1>19. Steady(p)
  BY <1>8, <1>9, <1>17, <1>18, <1>5 DEF Steady
<1> QED BY <1>18, <1>19, <1>5 DEF x

StridesBy(f, s, audio, n, os) ==
  f = [k \in 0..n |-> IF k = 0 THEN s ELSE Chunk(f[k - 1], SubSeq(audio, (k - 1) * Stride + 1, k * Stride), os[k])]

LEMMA StridesExist == ASSUME NEW s, NEW audio, NEW n \in Nat, NEW os PROVE \E f : StridesBy(f, s, audio, n, os)
<1> DEFINE T == {m \in Nat : \E f : StridesBy(f, s, audio, m, os)}
           part(k) == SubSeq(audio, (k - 1) * Stride + 1, k * Stride)
<1> HIDE DEF part
<1>1. 0 \in T
  <2> DEFINE h == [k \in 0..0 |-> s]
  <2>1. h = [k \in 0..0 |-> IF k = 0 THEN s ELSE Chunk(h[k - 1], part(k), os[k])]
    OBVIOUS
  <2> QED BY <2>1 DEF StridesBy, part
<1>2. ASSUME NEW m \in Nat, m \in T PROVE m + 1 \in T
  <2>1. PICK f : StridesBy(f, s, audio, m, os)
    BY <1>2
  <2> DEFINE h == [k \in 0..(m + 1) |-> IF k = m + 1 THEN Chunk(f[m], part(k), os[k]) ELSE f[k]]
  <2>2. ASSUME NEW k \in 0..(m + 1) PROVE h[k] = IF k = 0 THEN s ELSE Chunk(h[k - 1], part(k), os[k])
    <3>1. CASE k = m + 1
      <4>1. k # 0 /\ k - 1 \in 0..(m + 1) /\ k - 1 # m + 1 /\ k - 1 = m
        BY <3>1
      <4>2. h[k - 1] = f[m] /\ h[k] = Chunk(f[m], part(k), os[k])
        BY <3>1, <4>1
      <4> QED BY <4>1, <4>2
    <3>2. CASE k # m + 1
      <4>1. k \in 0..m /\ f[k] = IF k = 0 THEN s ELSE Chunk(f[k - 1], part(k), os[k])
        <5>1. k \in 0..m
          BY <3>2
        <5> QED BY <2>1, <5>1 DEF StridesBy, part
      <4>2. k # 0 => k - 1 \in 0..(m + 1) /\ k - 1 # m + 1
        BY <4>1
      <4> QED BY <3>2, <4>1, <4>2
    <3> QED BY <3>1, <3>2
  <2>3. h = [k \in 0..(m + 1) |-> h[k]]
    OBVIOUS
  <2> HIDE DEF h
  <2>4. StridesBy(h, s, audio, m + 1, os)
    BY <2>2, <2>3 DEF StridesBy, part
  <2> QED BY <2>4
<1> HIDE DEF T
<1>3. T = Nat
  <2>1. T \in SUBSET Nat
    BY DEF T
  <2> QED BY <1>1, <1>2, <2>1, Reaches
<1>4. n \in T
  BY <1>3
<1> QED BY <1>4 DEF T

Joined(w, q, r) == w = q \o r

LEMMA Regroup ==
  ASSUME NEW p \in Seq(Nat), NEW q \in Seq(Nat), NEW r \in Seq(Nat), NEW w, Joined(w, q, r)
  PROVE  Joined(p \o w, p \o q, r)
<1>1. (p \o q) \o r = p \o (q \o r)
  OBVIOUS
<1> QED BY <1>1 DEF Joined

\* One more part of some audio, after what has been taken of it.
LEMMA PartTaken ==
  ASSUME NEW p \in Seq(Nat), NEW audio \in Seq(Nat), NEW a \in Nat, NEW b \in a..Len(audio)
  PROVE  (p \o SubSeq(audio, 1, a)) \o SubSeq(audio, a + 1, b) = p \o SubSeq(audio, 1, b)
<1>1. 1 \in Int /\ a \in Int /\ b \in Int /\ 1 <= 1 /\ 1 <= a + 1 /\ a <= Len(audio) /\ a + 1 <= b + 1 /\ b <= Len(audio)
      /\ a + 1 \in Int
  OBVIOUS
<1>2. SubSeq(audio, 1, a) \in Seq(Nat)
  BY <1>1, PartOf
<1>3. SubSeq(audio, a + 1, b) \in Seq(Nat)
  <2> DEFINE c == a + 1
  <2>1. c \in Int /\ 1 <= c /\ c <= b + 1
    BY <1>1
  <2> HIDE DEF c
  <2>2. SubSeq(audio, c, b) \in Seq(Nat)
    BY <1>1, <2>1, PartOf
  <2> QED BY <2>2 DEF c
<1>4. SubSeq(audio, 1, a) \o SubSeq(audio, a + 1, b) = SubSeq(audio, 1, b)
  <2>1. 1 \in 1..(Len(audio) + 1) /\ a \in (1 - 1)..Len(audio) /\ b \in a..Len(audio)
    BY <1>1
  <2> QED BY <2>1, ConcatAdjacentSubSeq
<1>5. Joined(SubSeq(audio, 1, b), SubSeq(audio, 1, a), SubSeq(audio, a + 1, b))
  BY <1>4, Zenon DEF Joined
<1>6. Joined(p \o SubSeq(audio, 1, b), p \o SubSeq(audio, 1, a), SubSeq(audio, a + 1, b))
  BY <1>2, <1>3, <1>5, Regroup, Zenon
<1> QED BY <1>6, Zenon DEF Joined

\* The strides of some audio, one after another.
LEMMA StridesAre ==
  ASSUME NEW s, Steady(s), NEW audio \in Seq(Nat), NEW n \in Nat, n * Stride <= Len(audio),
         2 * (Len(s.analysed) + Len(audio)) <= MaxBytes, NEW os
  PROVE  LET p == Strides(s, audio, n, os)
         IN /\ Steady(p) /\ p.prev = s.prev /\ p.fed = s.fed
            /\ p.analysed = s.analysed \o SubSeq(audio, 1, n * Stride)
<1> DEFINE f == CHOOSE h : StridesBy(h, s, audio, n, os)
           As(p, k) == /\ Steady(p) /\ p.prev = s.prev /\ p.fed = s.fed
                       /\ p.analysed = s.analysed \o SubSeq(audio, 1, k * Stride)
<1>1. StridesBy(f, s, audio, n, os) /\ Strides(s, audio, n, os) = f[n]
  <2>1. \E h : StridesBy(h, s, audio, n, os)
    BY StridesExist
  <2> QED BY <2>1 DEF Strides, StridesBy
<1> HIDE DEF f
<1>2. Stride \in Nat \ {0} /\ s.analysed \in Seq(Nat) /\ Len(audio) \in Nat /\ Len(s.analysed) \in Nat
      /\ MaxBytes \in Nat
  BY SizesAre DEF Steady, CacheType
<1>3. \A k \in 0..n : f[k] = IF k = 0 THEN s
                             ELSE Chunk(f[k - 1], SubSeq(audio, (k - 1) * Stride + 1, k * Stride), os[k])
  BY <1>1 DEF StridesBy
<1> HIDE DEF As
<1> DEFINE T == {m \in Nat : m <= n => As(f[m], m)}
<1>4. 0 \in T
  <2>1. f[0] = s
    BY <1>3
  <2>2. 0 * Stride = 0 /\ SubSeq(audio, 1, 0) = <<>> /\ s.analysed \o <<>> = s.analysed
    <3>1. SubSeq(audio, 1, 0) = <<>>
      BY SubSeqEmpty
    <3>2. s.analysed \o <<>> = s.analysed
      BY <1>2, ConcatEmptySeq
    <3> QED BY <1>2, <3>1, <3>2
  <2>3. As(f[0], 0)
    BY <2>1, <2>2 DEF As
  <2> QED BY <2>3
<1>5. ASSUME NEW m \in Nat, m \in T PROVE m + 1 \in T
  <2> SUFFICES ASSUME m + 1 <= n PROVE As(f[m + 1], m + 1)
    OBVIOUS
  <2> DEFINE a == m * Stride
             b == (m + 1) * Stride
             r == f[m]
             part == SubSeq(audio, a + 1, b)
  <2>1. As(r, m)
    BY <1>5
  <2>2. m + 1 \in 0..n /\ m + 1 # 0 /\ (m + 1) - 1 = m
    OBVIOUS
  <2>3. f[m + 1] = Chunk(r, part, os[m + 1])
    BY <1>3, <2>2
  <2>4. a \in Nat /\ b = a + Stride /\ b <= Len(audio) /\ b \in Nat
    <3>1. b = a + Stride /\ a \in Int /\ n * Stride \in Int
      BY <1>2, Products
    <3>2. b <= n * Stride
      BY <1>2, Products
    <3>3. 0 * Stride <= a /\ 0 * Stride = 0
      BY <1>2, Products
    <3> HIDE DEF a, b
    <3> QED BY <1>2, <3>1, <3>2, <3>3
  <2> HIDE DEF a, b, r
  <2>5. part \in Seq(Nat) /\ Len(part) = Stride
    <3>1. a + 1 \in Int /\ b \in Int /\ 1 <= a + 1 /\ a + 1 <= b + 1 /\ b <= Len(audio) /\ b - (a + 1) + 1 = Stride
      BY <1>2, <2>4
    <3>2. part \in Seq(Nat) /\ Len(part) = b - (a + 1) + 1
      <4> DEFINE c == a + 1
      <4>1. c \in Int /\ b \in Int /\ 1 <= c /\ c <= b + 1 /\ b <= Len(audio) /\ part = SubSeq(audio, c, b)
        BY <3>1
      <4> HIDE DEF c, part
      <4>2. part \in Seq(Nat) /\ Len(part) = b - c + 1
        BY <4>1, PartOf
      <4> QED BY <4>2 DEF c
    <3> QED BY <3>1, <3>2
  <2>6. Len(r.analysed) = Len(s.analysed) + a
    <3>1. SubSeq(audio, 1, a) \in Seq(Nat) /\ Len(SubSeq(audio, 1, a)) = a
      <4>1. 1 \in Int /\ a \in Int /\ 1 <= 1 /\ 1 <= a + 1 /\ a <= Len(audio) /\ a - 1 + 1 = a
        BY <1>2, <2>4
      <4> QED BY <4>1, PartOf
    <3>2. r.analysed = s.analysed \o SubSeq(audio, 1, a)
      BY <2>1 DEF a, As
    <3> QED BY <1>2, <3>1, <3>2, ConcatOf
  <2>7. 2 * (Len(r.analysed) + Stride) <= MaxBytes
    BY <1>2, <2>4, <2>6
  <2> DEFINE o == os[m + 1]
             c == Chunk(r, part, o)
  <2>8. /\ Steady(c) /\ c.analysed = r.analysed \o part /\ c.prev = r.prev /\ c.fed = r.fed
    <3>1. Steady(r)
      BY <2>1 DEF As
    <3> HIDE DEF part, o, f, T
    <3>2. IsStride(part) /\ Fits(r)
      BY <2>5, <2>7 DEF IsStride, Fits
    <3>3. IsChunk(c, r, part, o)
      BY DEF IsChunk
    <3> HIDE DEF As, c
    <3> QED BY <3>1, <3>2, <3>3, ChunkIs
  <2> HIDE DEF c
  <2>9. c.analysed = s.analysed \o SubSeq(audio, 1, b)
    <3>1. s.analysed \in Seq(Nat) /\ a \in Nat /\ b \in a..Len(audio)
      BY <1>2, <2>4
    <3>2. (s.analysed \o SubSeq(audio, 1, a)) \o part = s.analysed \o SubSeq(audio, 1, b)
      BY <3>1, PartTaken
    <3>3. r.analysed = s.analysed \o SubSeq(audio, 1, a)
      BY <2>1 DEF a, As
    <3> HIDE DEF part
    <3> QED BY <2>8, <3>2, <3>3
  <2>10. c.prev = s.prev /\ c.fed = s.fed
    BY <2>1, <2>8 DEF As
  <2>11. As(c, m + 1)
    BY <2>8, <2>9, <2>10 DEF b, As
  <2> QED BY <2>3, <2>11 DEF c
<1>6. T = Nat
  <2>1. T \in SUBSET Nat
    OBVIOUS
  <2> HIDE DEF T
  <2> QED BY <1>4, <1>5, <2>1, Reaches
<1>7. As(f[n], n)
  <2>1. n \in T
    BY <1>6
  <2> QED BY <2>1
<1> QED BY <1>1, <1>7 DEF As

----------------------------------------------------------------------------
(* A message, and the end of a sentence.                                   *)

\* A cache between two messages.
Streaming(s) == Steady(s) /\ s.fed = s.analysed \o s.prev /\ Len(s.prev) < Stride

LEMMA SteadyBut ==
  ASSUME NEW s, Steady(s), NEW p \in CacheType,
         p.start = s.start, p.feats = s.feats, p.integrated = s.integrated, p.analysed = s.analysed,
         p.carry = s.carry, p.fired = s.fired, SameTurns(p, s)
  PROVE  Steady(p)
BY Zenon DEF Steady, Weighs, Faithful, SameTurns

\* What waits goes before what comes.
LEMMA JoinedTail ==
  ASSUME NEW s, s.analysed \in Seq(Nat), s.prev \in Seq(Nat), NEW samples \in Seq(Nat)
  PROVE  (s.analysed \o s.prev) \o samples = s.analysed \o (s.prev \o samples)
<1>1. Joined(s.prev \o samples, s.prev, samples)
  BY Zenon DEF Joined
<1>2. Joined(s.analysed \o (s.prev \o samples), s.analysed \o s.prev, samples)
  BY <1>1, Regroup, Zenon
<1> QED BY <1>2, Zenon DEF Joined

LEMMA ProcessChunkIs ==
  ASSUME NEW s, Streaming(s), NEW samples \in Seq(Nat), 2 * (Len(s.fed) + Len(samples)) <= MaxBytes,
         NEW os
  PROVE  LET p == ProcessChunk(s, samples, os) IN Streaming(p) /\ p.fed = s.fed \o samples
<1> DEFINE audio == s.prev \o samples
           n == Len(audio) \div Stride
           e == n * Stride
           l == Len(audio)
           rest == SubSeq(audio, e + 1, l)
           s1 == [s EXCEPT !.fed = s.fed \o samples]
           c == Strides(s1, audio, n, os)
           p == [c EXCEPT !.prev = rest]
<1>1. /\ s \in CacheType /\ s.prev \in Seq(Nat) /\ s.fed \in Seq(Nat) /\ s.analysed \in Seq(Nat)
      /\ s.fed = s.analysed \o s.prev /\ Len(s.prev) < Stride /\ Steady(s)
  BY DEF Streaming, Steady, CacheType
<1>2. Stride \in Nat \ {0} /\ MaxBytes \in Nat
  BY SizesAre
<1>3. ProcessChunk(s, samples, os) = p
  BY DEF ProcessChunk, WholeStrides
<1>4. audio \in Seq(Nat) /\ s.fed \o samples \in Seq(Nat)
  BY <1>1, ConcatOf
<1>5. /\ l \in Int /\ 0 <= l /\ l = Len(s.prev) + Len(samples)
      /\ Len(s.fed) = Len(s.analysed) + Len(s.prev)
      /\ Len(s.analysed) \in Nat /\ Len(s.prev) \in Nat /\ Len(samples) \in Nat
  <2>1. Len(s.analysed \o s.prev) = Len(s.analysed) + Len(s.prev)
    BY <1>1, JoinedNumbers
  <2>2. Len(audio) = Len(s.prev) + Len(samples)
    BY <1>1, ConcatOf
  <2> HIDE DEF audio
  <2>3. Len(s.analysed) \in Nat /\ Len(s.prev) \in Nat /\ Len(samples) \in Nat
    BY <1>1, ConcatOf
  <2> QED BY <1>1, <2>1, <2>2, <2>3
<1>6. /\ s1 \in CacheType /\ s1.start = s.start /\ s1.feats = s.feats /\ s1.integrated = s.integrated
      /\ s1.analysed = s.analysed /\ s1.carry = s.carry /\ s1.fired = s.fired /\ s1.prev = s.prev
      /\ s1.fed = s.fed \o samples /\ SameTurns(s1, s)
  BY <1>1, <1>4 DEF CacheType, SameTurns
<1> HIDE DEF s1, audio
<1>7. Steady(s1)
  BY <1>1, <1>6, SteadyBut
<1>8. l = Len(audio)
  OBVIOUS
<1>9. n = l \div Stride /\ n \in Int /\ e <= l /\ l < e + Stride
  <2> HIDE DEF l
  <2>1. (l \div Stride) \in Int /\ (l \div Stride) * Stride <= l /\ l < (l \div Stride) * Stride + Stride
    BY <1>2, <1>5, Quotient
  <2> QED BY <1>8, <2>1
<1> HIDE DEF l
<1> HIDE DEF n
<1>10. e \in Int /\ n \in Nat /\ e >= 0
  <2>1. e \in Int /\ (n + 1) * Stride = e + Stride
    BY <1>2, <1>9, Products
  <2>2. 0 * Stride < (n + 1) * Stride /\ 0 * Stride = 0
    <3> DEFINE b == (n + 1) * Stride
    <3>1. b = e + Stride /\ 0 * Stride = 0 /\ e \in Int /\ l < e + Stride
      BY <1>2, <1>9, <2>1
    <3> HIDE DEF b, e
    <3>2. 0 < b
      BY <1>2, <1>5, <3>1
    <3> QED BY <3>1, <3>2 DEF b
  <2>3. 0 < n + 1
    BY <1>2, <1>9, <2>2, Products
  <2>4. n \in Nat
    BY <1>9, <2>3
  <2>5. 0 * Stride <= n * Stride
    BY <1>2, <2>4, Products
  <2> QED BY <2>1, <2>2, <2>4, <2>5
<1> HIDE DEF e
<1>11. /\ Steady(c) /\ c.prev = s1.prev /\ c.fed = s1.fed
      /\ c.analysed = s1.analysed \o SubSeq(audio, 1, e)
  <2>1. 2 * (Len(s1.analysed) + Len(audio)) <= MaxBytes
    <3>1. s1.analysed = s.analysed
      BY <1>6
    <3>2. Len(s.analysed) + l = Len(s.fed) + Len(samples)
      <4>1. \A x, y, z \in Nat : x + (y + z) = (x + y) + z
        OBVIOUS
      <4>2. l = Len(s.prev) + Len(samples) /\ Len(s.fed) = Len(s.analysed) + Len(s.prev)
        BY <1>5
      <4>3. Len(s.analysed) \in Nat /\ Len(s.prev) \in Nat /\ Len(samples) \in Nat
        BY <1>5
      <4>4. Len(s.analysed) + (Len(s.prev) + Len(samples)) = (Len(s.analysed) + Len(s.prev)) + Len(samples)
        BY <4>1, <4>3
      <4> QED BY <4>2, <4>4
    <3> QED BY <1>8, <3>1, <3>2
  <2>2. n \in Nat /\ n * Stride <= Len(audio)
    BY <1>9, <1>10, <1>8 DEF e
  <2> QED BY <1>4, <1>7, <2>1, <2>2, StridesAre DEF e
<1> HIDE DEF c
<1>12. rest \in Seq(Nat) /\ Len(rest) < Stride
  <2>1. e + 1 \in Int /\ l \in Int /\ 1 <= e + 1 /\ e + 1 <= l + 1 /\ l <= Len(audio)
    BY <1>5, <1>8, <1>9, <1>10
  <2>2. rest \in Seq(Nat) /\ Len(rest) = l - (e + 1) + 1
    BY <1>4, <2>1, PartOf
  <2> QED BY <1>2, <1>5, <1>9, <1>10, <2>2
<1>13. c.analysed \o rest = s.fed \o samples
  <2>1. (s.analysed \o SubSeq(audio, 1, e)) \o rest = s.analysed \o SubSeq(audio, 1, l)
    <3>1. e \in Nat /\ l \in e..Len(audio)
      BY <1>5, <1>8, <1>9, <1>10
    <3> QED BY <1>1, <1>4, <3>1, PartTaken
  <2>2. SubSeq(audio, 1, l) = audio
    BY <1>4, <1>8
  <2>3. (s.analysed \o s.prev) \o samples = s.analysed \o audio
    BY <1>1, JoinedTail DEF audio
  <2> HIDE DEF rest
  <2> QED BY <1>1, <1>6, <1>11, <2>1, <2>2, <2>3
<1> HIDE DEF rest
<1>14. /\ p \in CacheType /\ p.start = c.start /\ p.feats = c.feats /\ p.integrated = c.integrated
       /\ p.analysed = c.analysed /\ p.carry = c.carry /\ p.fired = c.fired /\ p.prev = rest
       /\ p.fed = c.fed /\ SameTurns(p, c)
  <2>1. c \in CacheType
    BY <1>11 DEF Steady
  <2> QED BY <1>12, <2>1 DEF CacheType, SameTurns
<1> HIDE DEF p
<1>15. Steady(p)
  BY <1>11, <1>14, SteadyBut
<1>16. p.fed = s.fed \o samples /\ p.fed = p.analysed \o p.prev /\ Len(p.prev) < Stride
  BY <1>6, <1>11, <1>12, <1>13, <1>14
<1> QED BY <1>3, <1>15, <1>16 DEF Streaming

----------------------------------------------------------------------------
(* The flush.                                                              *)

Whole(p) ==
  /\ p.start = 0 => Len(p.fed) < Stride /\ p.tokens = 0
  /\ p.start > 0 /\ p.failed = 0 =>
       /\ p.integrated = FramesUpTo(p.start)
       /\ Len(p.fed) - Len(p.analysed) < FrameSamples
       /\ p.tokens = (Sum(Weights(p.integrated)) + TailWeight) \div Threshold

LEMMA WholeTokens ==
  ASSUME NEW n \in Nat \ {0}, NEW f \in Nat, NEW r \in 0..(n - 1), NEW x \in Int, f * n + r = x
  PROVE  f = x \div n
<1> DEFINE d == x \div n
<1>1. d \in Int /\ d * n <= x /\ x < d * n + n /\ f \in Int
  BY Quotient
<1> HIDE DEF d
<1>2. /\ (f + 1) * n = f * n + n /\ (d + 1) * n = d * n + n /\ f * n \in Int /\ d * n \in Int
      /\ (f < d + 1 <=> f * n < (d + 1) * n) /\ (d < f + 1 <=> d * n < (f + 1) * n)
  BY <1>1, Products
<1>3. f * n < (d + 1) * n /\ d * n < (f + 1) * n
  BY <1>1, <1>2
<1>4. f < d + 1 /\ d < f + 1
  BY <1>2, <1>3
<1> QED BY <1>1, <1>4 DEF d

LittleLeft(p) == Len(p.fed) - Len(p.analysed) < FrameSamples

LEMMA Ended ==
  ASSUME NEW p \in CacheType, p.start # 0, LittleLeft(p),
         p.failed = 0 => /\ p.integrated = FramesUpTo(p.start) /\ p.tokens = p.fired
                         /\ Weighs(p, Sum(Weights(p.integrated)) + TailWeight)
  PROVE  Whole(p)
<1> SUFFICES ASSUME p.failed = 0
             PROVE  /\ p.integrated = FramesUpTo(p.start)
                    /\ p.tokens = (Sum(Weights(p.integrated)) + TailWeight) \div Threshold
  BY DEF Whole, LittleLeft
<1> DEFINE x == Sum(Weights(p.integrated)) + TailWeight
<1>1. x \in Int
  <2>1. p.integrated \in Seq(Weighed)
    BY DEF CacheType
  <2>2. Weights(p.integrated) \in Seq(Nat)
    BY <2>1, WeightsOf
  <2>3. Sum(Weights(p.integrated)) \in Nat
    BY <2>2, SumOfConcat
  <2> QED BY <2>3, WeightTypes
<1>2. p.fired * Threshold + p.carry = x /\ p.fired \in Nat /\ p.carry \in 0..(Threshold - 1)
  BY DEF Weighs, CacheType
<1> HIDE DEF x
<1>3. p.fired = x \div Threshold
  <2> DEFINE f == p.fired
             g == p.carry
  <2>1. f * Threshold + g = x /\ f \in Nat /\ g \in 0..(Threshold - 1) /\ Threshold \in Nat \ {0}
    BY <1>2, WeightTypes
  <2> HIDE DEF f, g
  <2>2. f = x \div Threshold
    BY <1>1, <2>1, WholeTokens
  <2> QED BY <2>2 DEF f
<1> QED BY <1>3 DEF x

LEMMA SuffixOf ==
  ASSUME NEW S, NEW q \in Seq(S), NEW r \in Seq(S)
  PROVE  SubSeq(q \o r, Len(q) + 1, Len(q \o r)) = r
<1> DEFINE w == q \o r
           m == Len(q)
           n == Len(r)
<1>1. /\ w \in Seq(S) /\ m \in Nat /\ n \in Nat /\ Len(w) = m + n
      /\ w = [k \in 1..(m + n) |-> IF k <= m THEN q[k] ELSE r[k - m]]
  BY ConcatOf
<1>2. r = [k \in 1..n |-> r[k]]
  OBVIOUS
<1> HIDE DEF w, m, n
<1>3. m + 1 \in Int /\ m + n \in Int /\ 1 <= m + 1 /\ m + 1 <= m + n + 1 /\ m + n <= Len(w)
      /\ (m + n) - (m + 1) + 1 = n
  BY <1>1
<1>4. SubSeq(w, m + 1, m + n) = [k \in 1..((m + n) - (m + 1) + 1) |-> w[(m + 1) + k - 1]]
  BY <1>1, <1>3, PartOf
<1>5. ASSUME NEW k \in 1..n PROVE w[(m + 1) + k - 1] = r[k]
  <2>1. (m + 1) + k - 1 \in 1..(m + n) /\ ~((m + 1) + k - 1 <= m) /\ ((m + 1) + k - 1) - m = k
    BY <1>1
  <2> QED BY <1>1, <2>1
<1>6. SubSeq(w, m + 1, m + n) = r
  BY <1>2, <1>3, <1>4, <1>5
<1> QED BY <1>1, <1>6 DEF w, m

\* The frames of a tail are few enough.
LEMMA TailWeighs ==
  ASSUME NEW s, Streaming(s), NEW n \in TailFrames(s.prev), 2 * Len(s.fed) <= MaxBytes
  PROVE  n \in Nat /\ 0..(s.start + n) \subseteq Weighed
<1> DEFINE l == Len(s.prev)
           q == l \div FrameSamples
           x == s.start
           F == FrameSamples
<1>1. /\ x \in Nat /\ l \in Int /\ 0 <= l /\ Len(s.analysed) = x * F /\ s.prev \in Seq(Nat)
      /\ s.analysed \in Seq(Nat) /\ s.fed = s.analysed \o s.prev
  BY DEF Streaming, Steady, CacheType
<1>2. F \in Nat \ {0} /\ MaxBytes \in Nat
  BY SizesAre
<1>3. q \in Int /\ q * F <= l /\ l < q * F + F
  <2> HIDE DEF l
  <2> QED BY <1>1, <1>2, Quotient
<1>4. n = q \/ n = q + 1
  BY DEF TailFrames
<1>5. Len(s.fed) = x * F + l
  <2>1. Len(s.analysed \o s.prev) = Len(s.analysed) + Len(s.prev)
    BY <1>1, JoinedNumbers
  <2> QED BY <1>1, <2>1
<1> HIDE DEF l, q, x, F
<1>6. /\ q * F \in Int /\ (q + 1) * F = q * F + F /\ 0 * F = 0
      /\ (0 < q + 1 <=> 0 * F < (q + 1) * F) /\ x * F \in Int
  BY <1>1, <1>2, <1>3, Products
<1>7. q \in Nat
  <2> DEFINE b == q * F
             c == (q + 1) * F
  <2>1. b \in Int /\ c = b + F /\ l < b + F /\ 0 * F = 0
    BY <1>3, <1>6
  <2> HIDE DEF b, c
  <2>2. 0 < c
    BY <1>1, <1>2, <2>1
  <2>3. 0 * F < (q + 1) * F
    BY <2>1, <2>2 DEF c
  <2> QED BY <1>3, <1>6, <2>3
<1>8. x + q \in Nat /\ 2 * ((x + q) * F) <= MaxBytes
  <2>1. (x + q) * F = x * F + q * F
    BY <1>1, <1>2, <1>7
  <2> DEFINE y == (x + q) * F
             z == Len(s.fed)
  <2>2. y <= z /\ z \in Int /\ y \in Int
    <3> DEFINE u == x * F
               v == q * F
    <3>1. u \in Int /\ v \in Int /\ v <= l /\ z = u + l /\ y = u + v
      BY <1>3, <1>5, <1>6, <2>1
    <3> HIDE DEF u, v, y, z
    <3> QED BY <1>1, <3>1
  <2>3. 2 * z <= MaxBytes
    OBVIOUS
  <2> HIDE DEF y, z
  <2>4. 2 * y <= MaxBytes
    BY <1>2, <2>2, <2>3
  <2> QED BY <1>1, <1>7, <2>4 DEF y
<1>9. 0..((x + q) + 1) \subseteq Weighed
  BY <1>8, EveryFrameWeighs DEF F
<1>10. n \in Nat /\ x + n <= (x + q) + 1
  BY <1>1, <1>4, <1>7
<1>11. 0..(x + n) \subseteq Weighed
  <2>1. \A k \in 0..(x + n) : k \in 0..((x + q) + 1)
    BY <1>1, <1>7, <1>10
  <2> QED BY <1>9, <2>1
<1> QED BY <1>10, <1>11 DEF x

\* Frames of whole strides; the frames of a tail that the last window does not hold.
Begun(x) == x \in Nat /\ x # 0 /\ x >= Middle
Beyond(n) == n + After - Middle

\* A tail that leaves the windows as they are, or fits into the last.
LEMMA LastWindow ==
  ASSUME NEW c \in CacheType, NEW x, Begun(x), NEW m \in Nat,
         c.start = x + m, c.turns = Done(x), Weighs(c, Sum(Weights(c.integrated))), Faithful(c),
         0..(x + m) \subseteq Weighed, LittleLeft(c),
         NEW o, NEW p, IsForward(p, c, Window(x, m), TRUE, o)
  PROVE  Whole(p)
<1> DEFINE window == Window(x, m)
           n == After + m
           turn == Turn(x, n)
<1>1. x \in Nat /\ x # 0 /\ x >= Middle
  BY DEF Begun
<1>2. After \in Nat /\ Before \in Nat /\ n \in Nat /\ n \in 0..(After + m) /\ Middle \in Nat /\ m \in 0..n
  BY FrameTypes
<1>3. x + n - After = x + m /\ x + n >= After /\ x + m # 0
  BY <1>1, <1>2
<1>4. Len(window) = Before + n
  <2>1. window = [k \in 1..(Before + After + m) |-> Ahead(x - Before - After + k)]
    BY <1>1 DEF Window
  <2> HIDE DEF window
  <2> QED BY <1>2, <2>1
<1>5. turn = SubSeq(window, Before + 1, Before + n)
  BY <1>1, <1>2, TurnIs
<1>6. IsTurn(turn, window, Len(window))
  BY <1>4, <1>5 DEF IsTurn
<1>7. turn \in Seq(Weighed)
  BY <1>1, <1>2, <1>3, TurnWeighed
<1>8. Done(x) \o turn = FramesUpTo(x + m)
  <2>1. Done(x) \o Turn(x, n) = FramesUpTo(x + n - After)
    <3> HIDE DEF n
    <3> QED BY <1>1, <1>2, TurnFollows
  <2> QED BY <1>3, <2>1
<1> HIDE DEF turn, n
<1>9. /\ p \in CacheType /\ SameBut(p, c)
      /\ p.failed = 0 => /\ p.integrated = c.turns \o turn /\ p.tokens = p.fired
                         /\ Weighs(p, Sum(Weights(p.integrated)) + TailWeight)
  BY <1>6, <1>7, ForwardLast
<1>10. /\ p.start = x + m /\ p.fed = c.fed /\ p.analysed = c.analysed
       /\ p.failed = 0 => p.integrated = FramesUpTo(p.start)
  BY <1>8, <1>9 DEF SameBut
<1>11. LittleLeft(p)
  BY <1>10 DEF LittleLeft
<1> QED BY <1>3, <1>9, <1>10, <1>11, Ended

\* The cache to which a tail of n frames has been added.
IsExtracted(c, s, n, feats) == c = [Extracted(s, s.prev, n) EXCEPT !.feats = feats]

LEMMA ExtractedIs ==
  ASSUME NEW s, Streaming(s), NEW n \in Nat, NEW feats \in Seq(Nat), NEW c, IsExtracted(c, s, n, feats)
  PROVE  /\ c \in CacheType /\ c.start = s.start + n /\ SameTurns(c, s) /\ c.feats = feats
         /\ Weighs(c, Sum(Weights(c.integrated))) /\ Faithful(c)
         /\ LittleLeft(c)
<1>1. /\ s \in CacheType /\ s.fed = s.analysed \o s.prev /\ Weighs(s, Sum(Weights(s.integrated))) /\ Faithful(s)
      /\ s.analysed \o s.prev \in Seq(Nat) /\ s.start \in Nat
  BY DEF Streaming, Steady, CacheType
<1>2. c = [s EXCEPT !.start = s.start + n, !.analysed = s.analysed \o s.prev, !.feats = feats]
  BY <1>1 DEF IsExtracted, Extracted, CacheType
<1>3. s.start + n \in Nat
  BY <1>1
<1>4. /\ c \in CacheType /\ c.start = s.start + n /\ SameTurns(c, s) /\ c.feats = feats
      /\ c.fed = s.fed /\ c.analysed = s.fed /\ c.fired = s.fired /\ c.carry = s.carry
      /\ c.integrated = s.integrated
  BY <1>1, <1>2, <1>3 DEF CacheType, SameTurns
<1>5. Weighs(c, Sum(Weights(c.integrated))) /\ Faithful(c)
  BY <1>1, <1>4 DEF Weighs, Faithful, SameTurns
<1>6. Len(c.fed) - Len(c.analysed) = 0
  <2>1. s.fed \in Seq(Nat)
    BY <1>1
  <2>2. Len(s.fed) \in Nat
    BY <2>1
  <2> QED BY <1>4, <2>2
<1>7. LittleLeft(c)
  <2>1. 0 < FrameSamples
    BY SizesAre
  <2> QED BY <1>6, <2>1 DEF LittleLeft
<1> QED BY <1>4, <1>5, <1>7

\* A tail that needs two windows.
LEMMA TailBeyond ==
  ASSUME NEW s, Streaming(s), s.start # 0, NEW n \in Nat, 0..(s.start + n) \subseteq Weighed,
         Beyond(n) > 0,
         NEW c, IsExtracted(c, s, n, LastOf(Window(s.start, n), Before)),
         NEW o1, NEW first, IsForward(first, c, Window(s.start, n), FALSE, o1),
         NEW o2, NEW p, IsForward(p, first, first.feats \o LastOf(NewFrames(s, n), Beyond(n)), TRUE, o2)
  PROVE  Whole(p)
<1> DEFINE x == s.start
           window == Window(x, n)
           beyond == Beyond(n)
           kept == LastOf(window, Before)
           turn == Turn(x, Middle)
           rest == LastOf(NewFrames(s, n), beyond)
           y == x + Middle - After
<1>1. /\ x \in Nat /\ x >= Middle /\ s.turns = Done(x) /\ s \in CacheType
  BY DEF Streaming, Steady, CacheType
<1>2. /\ Middle \in Nat /\ After \in Nat /\ Before \in Nat /\ After <= Middle /\ Middle \in 0..(After + n)
      /\ beyond \in Nat /\ beyond <= n /\ Before \in 0..(Before + After + n)
      /\ beyond = n + After - Middle
  BY FrameTypes DEF Beyond
<1>3. y \in Nat /\ y <= x + n /\ y + beyond = x + n /\ x + Middle >= After
  BY <1>1, <1>2
<1>4. kept = [k \in 1..Before |-> Ahead(x + n - Before + k)] /\ kept \in Seq(Nat) /\ Len(kept) = Before
  <2>1. kept = [k \in 1..Before |-> Ahead(x + n - Before + k)]
    BY <1>1, <1>2, LastFrames
  <2>2. \A k \in 1..Before : Ahead(x + n - Before + k) \in Nat
    <3> SUFFICES ASSUME NEW k \in 1..Before PROVE Ahead(x + n - Before + k) \in Nat
      OBVIOUS
    <3>1. x + n - Before + k \in Int
      BY <1>1, <1>2
    <3> QED BY <3>1, AheadType
  <2> HIDE DEF kept
  <2> QED BY <1>2, <2>1, <2>2
<1>5. rest = Following(y, beyond) /\ rest \in Seq(Weighed) /\ rest \in Seq(Nat) /\ Len(rest) = beyond
  <2> DEFINE q == NewFrames(s, n)
             a == n - beyond + 1
  <2>1. q = [k \in 1..n |-> x + k] /\ q \in Seq(Nat) /\ Len(q) = n /\ rest = LastOf(q, beyond)
    BY <1>1 DEF NewFrames
  <2> HIDE DEF q, rest, beyond
  <2>2. rest = SubSeq(q, a, n)
    BY <2>1 DEF LastOf
  <2> USE DEF beyond
  <2>3. a \in Int /\ n \in Int /\ 1 <= a /\ a <= n + 1 /\ n <= Len(q) /\ n - a + 1 = beyond
    BY <1>2, <2>1
  <2>4. rest = [k \in 1..(n - a + 1) |-> q[a + k - 1]]
    <3> HIDE DEF a, rest, beyond
    <3>1. SubSeq(q, a, n) = [k \in 1..(n - a + 1) |-> q[a + k - 1]]
      BY <2>1, <2>3, PartOf
    <3> QED BY <2>2, <3>1
  <2>5. ASSUME NEW k \in 1..beyond PROVE q[a + k - 1] = y + k /\ y + k \in Weighed
    <3>1. a + k - 1 \in 1..n /\ x + (a + k - 1) = y + k /\ y + k \in 0..(x + n)
      BY <1>1, <1>2, <1>3
    <3> HIDE DEF a, y
    <3> QED BY <2>1, <3>1
  <2>6. Following(y, beyond) = [k \in 1..beyond |-> y + k]
    BY DEF Following
  <2> HIDE DEF a, rest, beyond, y
  <2>7. rest = [k \in 1..beyond |-> y + k]
    BY <2>3, <2>4, <2>5
  <2>8. rest \in Seq(Weighed) /\ Len(rest) = beyond
    BY <1>2, <2>5, <2>7
  <2>9. rest \in Seq(Nat)
    <3>1. Weighed \subseteq Nat
      BY WeightTypes
    <3> QED BY <2>8, <3>1, Wider
  <2> QED BY <2>6, <2>7, <2>8, <2>9
<1> HIDE DEF rest
<1>6. /\ c \in CacheType /\ c.start = x + n /\ c.turns = Done(x) /\ c.feats = kept
      /\ Weighs(c, Sum(Weights(c.integrated))) /\ Faithful(c) /\ LittleLeft(c)
  <2>1. IsExtracted(c, s, n, kept) /\ s.start = x
    OBVIOUS
  <2> HIDE DEF kept
  <2>2. /\ c \in CacheType /\ c.start = s.start + n /\ SameTurns(c, s) /\ c.feats = kept
        /\ Weighs(c, Sum(Weights(c.integrated))) /\ Faithful(c) /\ LittleLeft(c)
    BY <1>4, <2>1, ExtractedIs
  <2> HIDE DEF x
  <2> QED BY <1>1, <2>1, <2>2 DEF SameTurns
<1>7. turn \in Seq(Weighed) /\ IsTurn(turn, window, Before + Middle) /\ Done(x) \o turn = FramesUpTo(y)
  <2>1. 0..y \subseteq Weighed
    <3>1. \A k \in 0..y : k \in 0..(x + n)
      BY <1>1, <1>3
    <3> QED BY <3>1
  <2>2. turn \in Seq(Weighed)
    BY <1>1, <1>2, <1>3, <2>1, TurnWeighed
  <2>3. IsTurn(turn, window, Before + Middle)
    BY <1>1, <1>2, TurnIs DEF IsTurn
  <2>4. Done(x) \o turn = FramesUpTo(y)
    BY <1>1, <1>2, TurnFollows
  <2> QED BY <2>2, <2>3, <2>4
<1> HIDE DEF turn
<1>8. /\ first \in CacheType /\ SameBut(first, c) /\ first.turns = c.turns \o turn
      /\ Weighs(first, Sum(Weights(first.integrated))) /\ Faithful(first)
  BY <1>6, <1>7, ForwardOn
<1>9. /\ first.feats = kept /\ first.start = x + n /\ first.turns = FramesUpTo(y)
      /\ first.fed = c.fed /\ first.analysed = c.analysed
  BY <1>6, <1>7, <1>8 DEF SameBut
<1> DEFINE w == kept \o rest
<1>10. IsForward(p, first, w, TRUE, o2)
  BY <1>9 DEF rest
<1>11. IsTurn(rest, w, Len(w))
  <2> HIDE DEF kept
  <2>1. SubSeq(kept \o rest, Len(kept) + 1, Len(kept \o rest)) = rest
    BY <1>4, <1>5, SuffixOf
  <2> QED BY <1>4, <2>1 DEF IsTurn
<1> HIDE DEF w
<1>12. /\ p \in CacheType /\ SameBut(p, first)
       /\ p.failed = 0 => /\ p.integrated = first.turns \o rest /\ p.tokens = p.fired
                          /\ Weighs(p, Sum(Weights(p.integrated)) + TailWeight)
  <2>1. rest \in Seq(Weighed)
    BY <1>5
  <2>2. first \in CacheType /\ Weighs(first, Sum(Weights(first.integrated))) /\ Faithful(first)
    BY <1>8
  <2> HIDE DEF x, window, beyond, kept, y
  <2> QED BY <1>10, <1>11, <2>1, <2>2, ForwardLast
<1>13. p.start = x + n /\ LittleLeft(p)
  BY <1>6, <1>9, <1>12 DEF SameBut, LittleLeft
<1>14. p.failed = 0 => p.integrated = FramesUpTo(x + n)
  <2>1. FramesUpTo(y) \o Following(y, beyond) = FramesUpTo(y + beyond)
    <3> HIDE DEF y, beyond
    <3> QED BY <1>2, <1>3, UpToFollowed
  <2> QED BY <1>3, <1>5, <1>9, <1>12, <2>1
<1>15. x + n # 0
  BY <1>1
<1> HIDE DEF x
<1> QED BY <1>6, <1>12, <1>13, <1>14, <1>15, Ended

LEMMA FlushIs ==
  ASSUME NEW s, Streaming(s), NEW n \in TailFrames(s.prev), 2 * Len(s.fed) <= MaxBytes, NEW os
  PROVE  Whole(Flush(s, n, os))
<1> DEFINE x == s.start
           window == s.feats \o NewFrames(s, n)
           beyond == Beyond(n)
           c == [Extracted(s, s.prev, n) EXCEPT !.feats = LastOf(window, Before)]
           first == Forward(c, window, FALSE, os[1])
           p == Flush(s, n, os)
<1>1. /\ s \in CacheType /\ x \in Nat /\ s.feats = KeptFrames(x) /\ s.turns = Done(x)
      /\ Weighs(s, Sum(Weights(s.integrated))) /\ Faithful(s) /\ (x = 0 => s.tokens = 0) /\ s.fed = s.analysed \o s.prev
      /\ s.prev \in Seq(Nat) /\ s.analysed \in Seq(Nat) /\ s.fed \in Seq(Nat) /\ Len(s.prev) < Stride
      /\ Len(s.analysed) = x * FrameSamples /\ (x = 0 \/ x >= Middle)
  BY DEF Streaming, Steady, CacheType
<1>2. Middle \in Nat \ {0} /\ After \in Nat /\ FrameSamples \in Nat \ {0} /\ Before \in Nat
  BY SizesAre
<1>3. n \in Nat /\ 0..(x + n) \subseteq Weighed
  BY TailWeighs
<1>4. Len(s.fed) = Len(s.analysed) + Len(s.prev) /\ Len(s.analysed) \in Nat /\ Len(s.prev) \in Nat
  <2>1. Len(s.analysed \o s.prev) = Len(s.analysed) + Len(s.prev)
    BY <1>1, JoinedNumbers
  <2> QED BY <1>1, <2>1
<1>5. window = Window(x, n) /\ window \in Seq(Nat)
  BY <1>1, <1>3, WindowIs
<1>6. CASE x = 0
  <2>1. p = s
    BY <1>6 DEF Flush
  <2>2. Len(s.fed) < Stride
    <3>1. Len(s.analysed) = 0
      BY <1>1, <1>2, <1>6
    <3>2. Len(s.fed) = Len(s.prev)
      BY <1>4, <3>1
    <3> QED BY <1>1, <3>2
  <2>3. Whole(s)
    <3>1. ~(s.start > 0) /\ s.tokens = 0
      BY <1>1, <1>6
    <3> QED BY <2>2, <3>1 DEF Whole
  <2> QED BY <2>1, <2>3
<1>7. CASE x # 0 /\ Len(s.prev) < FrameSamples
  <2>1. IsForward(p, s, s.feats, TRUE, os[1])
    BY <1>7 DEF Flush, LastChunk, IsForward
  <2>2. s.feats = Window(x, 0)
    BY <1>1, <1>2 DEF KeptFrames, Window
  <2>3. s.start = x + 0 /\ 0..(x + 0) \subseteq Weighed /\ Begun(x)
    BY <1>1, <1>3, <1>7 DEF Begun
  <2>4. LittleLeft(s)
    BY <1>2, <1>4, <1>7 DEF LittleLeft
  <2> HIDE DEF p, x
  <2>5. IsForward(p, s, Window(x, 0), TRUE, os[1])
    BY <2>1, <2>2
  <2>6. 0 \in Nat
    OBVIOUS
  <2>7. Whole(p)
    BY <1>1, <2>3, <2>4, <2>5, <2>6, LastWindow
  <2> QED BY <2>7 DEF p
<1>8. CASE x # 0 /\ ~(Len(s.prev) < FrameSamples) /\ beyond <= 0
  <2> DEFINE e == Extracted(s, s.prev, n)
  <2>1. p = Forward(e, window, TRUE, os[1])
    BY <1>8 DEF Flush, LastChunk, Beyond
  <2>2. IsExtracted(e, s, n, s.feats)
    BY <1>1 DEF IsExtracted, Extracted, CacheType
  <2>3. IsForward(p, e, Window(x, n), TRUE, os[1])
    BY <1>5, <2>1 DEF IsForward
  <2>4. s.feats \in Seq(Nat) /\ Begun(x) /\ s.start = x
    BY <1>1, <1>8 DEF CacheType, Begun
  <2> HIDE DEF e, p, beyond
  <2>5. /\ e \in CacheType /\ e.start = s.start + n /\ SameTurns(e, s)
        /\ Weighs(e, Sum(Weights(e.integrated))) /\ Faithful(e) /\ LittleLeft(e)
    <3>1. s.feats \in Seq(Nat)
      BY <2>4
    <3> HIDE DEF x, window, c, first
    <3> QED BY <1>3, <2>2, <3>1, ExtractedIs
  <2> HIDE DEF x
  <2>6. e.start = x + n /\ e.turns = Done(x)
    BY <1>1, <2>4, <2>5 DEF SameTurns
  <2>7. Whole(p)
    BY <1>1, <1>3, <2>3, <2>4, <2>5, <2>6, LastWindow
  <2> QED BY <2>7 DEF p
<1>9. CASE x # 0 /\ ~(Len(s.prev) < FrameSamples) /\ ~(beyond <= 0)
  <2>1. p = Forward(first, first.feats \o LastOf(NewFrames(s, n), beyond), TRUE, os[2])
    BY <1>9 DEF Flush, LastChunk, Beyond
  <2>2. IsForward(p, first, first.feats \o LastOf(NewFrames(s, n), beyond), TRUE, os[2])
    BY <2>1 DEF IsForward
  <2>3. IsForward(first, c, Window(x, n), FALSE, os[1])
    BY <1>5 DEF IsForward
  <2>4. IsExtracted(c, s, n, LastOf(Window(x, n), Before))
    BY <1>5 DEF IsExtracted
  <2> HIDE DEF p, first, c
  <2>5. Beyond(n) > 0 /\ s.start # 0 /\ 0..(s.start + n) \subseteq Weighed
    BY <1>2, <1>3, <1>9 DEF Beyond
  <2>6. Whole(p)
    BY <1>3, <2>2, <2>3, <2>4, <2>5, TailBeyond
  <2> QED BY <2>6 DEF p
<1> QED BY <1>6, <1>7, <1>8, <1>9

LEMMA UnflushedIs == ASSUME NEW s, Streaming(s) PROVE Whole(Unflushed(s))
<1> DEFINE p == Unflushed(s)
<1>1. /\ s \in CacheType /\ s.fed = s.analysed \o s.prev /\ s.prev \in Seq(Nat)
      /\ s.analysed \in Seq(Nat) /\ Len(s.prev) < Stride /\ Len(s.analysed) = s.start * FrameSamples
      /\ s.start = 0 => s.tokens = 0
  BY DEF Streaming, Steady, CacheType
<1>2. p.start = s.start /\ p.fed = s.fed /\ p.tokens = s.tokens /\ p.failed = s.failed + 1
  BY <1>1 DEF Unflushed, CacheType
<1>3. p.failed # 0
  <2>1. s.failed \in Nat
    BY <1>1 DEF CacheType
  <2> HIDE DEF p
  <2> QED BY <1>2, <2>1
<1>4. s.start = 0 => Len(s.fed) < Stride
  <2>1. Len(s.fed) = Len(s.analysed) + Len(s.prev) /\ Len(s.analysed) \in Nat /\ Len(s.prev) \in Nat
    BY <1>1, JoinedNumbers
  <2>2. s.start = 0 => Len(s.analysed) = 0
    BY <1>1, SizesAre
  <2>3. Len(s.analysed) = 0 => Len(s.fed) = Len(s.prev)
    BY <2>1
  <2> QED BY <1>1, <2>2, <2>3
<1> HIDE DEF p
<1>5. Whole(p)
  BY <1>1, <1>2, <1>3, <1>4 DEF Whole
<1> QED BY <1>5 DEF p

----------------------------------------------------------------------------
(* The stream of a session.                                                *)

\* Every sample fed is one of those heard.
FromHeard == \A k \in DOMAIN stream.fed : \E j \in 1..(Len(heard) \div 2) : stream.fed[k] = heard[2 * j - 1]

Listening ==
  /\ heard \in Seq(Nat) /\ received \in Nat
  /\ Len(heard) % 2 = 0 /\ Len(heard) <= received /\ received <= MaxBytes
  /\ Streaming(stream) /\ FromHeard /\ 2 * Len(stream.fed) <= Len(heard)
  /\ Whole(sentence)

LEMMA NewCacheIs == Streaming(NewCache) /\ NewCache.fed = <<>> /\ Whole(NewCache)
<1> DEFINE c == NewCache
           feats == [k \in 1..(Before + After) |-> Padding]
<1>1. /\ c.prev = <<>> /\ c.start = 0 /\ c.feats = feats /\ c.carry = 0 /\ c.fed = <<>>
      /\ c.analysed = <<>> /\ c.turns = <<>> /\ c.integrated = <<>> /\ c.fired = 0
      /\ c.tokens = 0 /\ c.failed = 0
  BY DEF NewCache
<1>2. Before \in Nat /\ After \in Nat /\ Padding = 0 /\ FrameSamples \in Nat /\ Threshold \in Nat \ {0}
  BY FrameTypes, WeightTypes
<1>3. feats \in Seq(Nat)
  BY <1>2
<1>4. c \in CacheType
  <2>1. 0 \in 0..(Threshold - 1) /\ <<>> \in Seq(Nat) /\ <<>> \in Seq(Weighed) /\ 0 \in Nat /\ 0 \in Int
    BY <1>2
  <2> HIDE DEF feats
  <2>2. NewCache = [prev |-> <<>>, start |-> 0, feats |-> feats, carry |-> 0,
                    fed |-> <<>>, analysed |-> <<>>, turns |-> <<>>, integrated |-> <<>>,
                    fired |-> 0, tokens |-> 0, failed |-> 0]
    BY DEF NewCache, feats
  <2> QED BY <1>3, <2>1, <2>2 DEF CacheType
<1>5. c.feats = KeptFrames(c.start)
  <2>1. \A k \in 1..(Before + After) : Ahead(0 - Before - After + k) = Padding
    <3> SUFFICES ASSUME NEW k \in 1..(Before + After) PROVE Ahead(0 - Before - After + k) = Padding
      OBVIOUS
    <3>1. ~(0 - Before - After + k > 0)
      BY <1>2
    <3> QED BY <3>1 DEF Ahead
  <2>2. KeptFrames(0) = [k \in 1..(Before + After) |-> Ahead(0 - Before - After + k)]
    BY DEF KeptFrames
  <2> HIDE DEF c
  <2> QED BY <1>1, <2>1, <2>2
<1> HIDE DEF c, feats
<1>6. Weighs(c, Sum(Weights(c.integrated)))
  <2>1. Weights(<<>>) = <<>> /\ 0 * Threshold + 0 = 0
    BY <1>2 DEF Weights
  <2> QED BY <1>1, <2>1, SumOfNone DEF Weighs
<1>7. Steady(c)
  <2>1. c.turns = Done(c.start) /\ Faithful(c)
    BY <1>1 DEF Done, Faithful
  <2>2. Len(c.analysed) = c.start * FrameSamples
    BY <1>1, <1>2
  <2> QED BY <1>1, <1>4, <1>5, <1>6, <2>1, <2>2 DEF Steady
<1>8. Streaming(c)
  <2>1. <<>> \o <<>> = <<>> /\ Len(<<>>) = 0 /\ 0 < Stride
    BY SizesAre
  <2> QED BY <1>1, <1>7, <2>1 DEF Streaming
<1>9. Whole(c)
  <2>1. Len(<<>>) = 0 /\ 0 < Stride
    BY SizesAre
  <2> QED BY <1>1, <2>1 DEF Whole
<1> QED BY <1>1, <1>8, <1>9 DEF c

\* When the stream is new, nothing is asked of what was heard.
LEMMA FreshStream == ASSUME Listening, stream' = NewCache, UNCHANGED <<heard, received>>
                     PROVE  /\ heard' \in Seq(Nat) /\ received' \in Nat
                            /\ Len(heard') % 2 = 0 /\ Len(heard') <= received' /\ received' <= MaxBytes
                            /\ Streaming(stream') /\ FromHeard' /\ 2 * Len(stream'.fed) <= Len(heard')
<1>1. Streaming(stream') /\ stream'.fed = <<>>
  BY NewCacheIs
<1>2. FromHeard'
  BY <1>1 DEF FromHeard
<1>3. Len(stream'.fed) = 0 /\ Len(heard') \in Nat
  BY <1>1 DEF Listening
<1> QED BY <1>1, <1>2, <1>3 DEF Listening

LEMMA ListeningInit == AudioInit => Listening
<1> SUFFICES ASSUME AudioInit PROVE Listening
  OBVIOUS
<1>1. heard = <<>> /\ received = 0 /\ stream = NewCache /\ sentence = NewCache
  BY DEF AudioInit, Init
<1>2. Streaming(stream) /\ stream.fed = <<>> /\ Whole(sentence)
  BY <1>1, NewCacheIs
<1>3. FromHeard /\ Len(stream.fed) = 0 /\ Len(heard) = 0
  BY <1>1, <1>2 DEF FromHeard
<1>4. heard \in Seq(Nat) /\ received \in Nat /\ Len(heard) % 2 = 0 /\ received <= MaxBytes
  BY <1>1, <1>3, SizesAre
<1> QED BY <1>1, <1>2, <1>3, <1>4 DEF Listening

\* What the gate lets through is whole samples, and not more than was sent.
LEMMA AcceptedIs == ASSUME NEW n \in Nat
                    PROVE  Accepted(n) \in Nat /\ Accepted(n) % 2 = 0 /\ Accepted(n) <= n
<1> DEFINE m == MaxFrameMs * BytesPerMs
<1>1. m \in Nat /\ m % 2 = 0
  BY AudioAssumption, BufferAssumption
<1>2. n - (n % 2) \in Nat /\ (n - (n % 2)) % 2 = 0 /\ n - (n % 2) <= n
  OBVIOUS
<1>3. Accepted(n) = IF n - (n % 2) <= m THEN n - (n % 2) ELSE m
  BY DEF Accepted, Lesser
<1> HIDE DEF m
<1> QED BY <1>1, <1>2, <1>3

LEMMA HearListens == ASSUME NEW n \in Frames, Listening, Hear(n) PROVE Listening'
<1> DEFINE a == Accepted(n)
           data == Arriving(a)
           q == Samples(data)
           l == Len(heard)
           h == l \div 2
           m == a \div 2
           f == stream.fed
<1>1. /\ n \in Nat /\ received + n <= MaxBytes /\ received' = received + n /\ heard' = heard \o data
      /\ sentence' = NewCache
      /\ stream' = stream \/ \E os : stream' = ProcessChunk(stream, q, os)
  BY BufferAssumption DEF Hear, Frame, Unheard
<1>2. a \in Nat /\ a % 2 = 0 /\ a <= n
  BY <1>1, AcceptedIs
<1>3. /\ heard \in Seq(Nat) /\ received \in Nat /\ l \in Nat /\ l % 2 = 0 /\ l <= received
      /\ Streaming(stream) /\ FromHeard /\ 2 * Len(f) <= l /\ f \in Seq(Nat)
  <2>1. /\ heard \in Seq(Nat) /\ received \in Nat /\ l % 2 = 0 /\ l <= received
        /\ Streaming(stream) /\ FromHeard /\ 2 * Len(f) <= l
    BY DEF Listening
  <2>2. f \in Seq(Nat)
    BY <2>1 DEF Streaming, Steady, CacheType
  <2> QED BY <2>1, <2>2
<1>4. Len(f) \in Nat
  BY <1>3
<1>5. h \in Nat /\ l = 2 * h /\ m \in Nat /\ a = 2 * m /\ (l + a) \div 2 = h + m
  <2> HIDE DEF a, l
  <2> QED BY <1>2, <1>3
<1>6. data = [k \in 1..a |-> received + k] /\ data \in Seq(Nat) /\ Len(data) = a
  <2> HIDE DEF a
  <2> QED BY <1>2, <1>3 DEF Arriving
<1> HIDE DEF a, data
<1>7. q = [i \in 1..m |-> data[2 * i - 1]] /\ q \in Seq(Nat) /\ Len(q) = m
  <2>1. q = [i \in 1..m |-> data[2 * i - 1]]
    BY <1>6 DEF Samples
  <2>2. \A i \in 1..m : 2 * i - 1 \in 1..a
    BY <1>2, <1>5
  <2>3. \A i \in 1..m : data[2 * i - 1] \in Nat
    <3>1. \A j \in 1..a : data[j] \in Nat
      <4>1. data \in Seq(Nat) /\ Len(data) = a
        BY <1>6
      <4> QED BY <1>2, <4>1
    <3> QED BY <2>2, <3>1
  <2> HIDE DEF q, m
  <2> QED BY <1>5, <2>1, <2>3
<1> HIDE DEF q, l, h, m
<1>8. /\ heard' \in Seq(Nat) /\ Len(heard') = l + a
      /\ \A k \in 1..l : heard'[k] = heard[k]
      /\ \A k \in 1..a : heard'[l + k] = data[k]
  <2>1. /\ heard \o data \in Seq(Nat) /\ Len(heard \o data) = l + a
        /\ heard \o data = [k \in 1..(l + a) |-> IF k <= l THEN heard[k] ELSE data[k - l]]
    <3>1. /\ heard \o data \in Seq(Nat) /\ Len(heard \o data) = Len(heard) + Len(data)
          /\ heard \o data = [k \in 1..(Len(heard) + Len(data)) |->
                                IF k <= Len(heard) THEN heard[k] ELSE data[k - Len(heard)]]
      <4>1. heard \in Seq(Nat) /\ data \in Seq(Nat)
        BY <1>3, <1>6
      <4> QED BY <4>1, ConcatOf
    <3>2. Len(heard) = l
      BY DEF l
    <3> QED BY <1>6, <3>1, <3>2
  <2> DEFINE g == heard \o data
  <2>2. g = heard'
    BY <1>1
  <2> HIDE DEF g
  <2>3. \A k \in 1..l : k \in 1..(l + a) /\ k <= l
    BY <1>2, <1>3
  <2>4. \A k \in 1..a : l + k \in 1..(l + a) /\ ~(l + k <= l) /\ (l + k) - l = k
    BY <1>2, <1>3
  <2>5. \A k \in 1..l : g[k] = heard[k]
    BY <2>1, <2>3 DEF g
  <2>6. \A k \in 1..a : g[l + k] = data[k]
    BY <2>1, <2>4 DEF g
  <2> QED BY <2>1, <2>2, <2>5, <2>6 DEF g
<1>9. /\ received' \in Nat /\ received' <= MaxBytes /\ Len(heard') % 2 = 0 /\ Len(heard') <= received'
      /\ Len(heard') \div 2 = h + m
  BY <1>1, <1>2, <1>3, <1>5, <1>8
<1>10. ASSUME NEW j \in 1..h PROVE j \in 1..(h + m) /\ heard'[2 * j - 1] = heard[2 * j - 1]
  <2>1. 2 * j - 1 \in 1..l /\ j \in 1..(h + m)
    BY <1>5
  <2> QED BY <1>8, <2>1
<1>11. ASSUME NEW k \in DOMAIN f
       PROVE  \E j \in 1..(h + m) : f[k] = heard'[2 * j - 1]
  <2>1. PICK j \in 1..h : f[k] = heard[2 * j - 1]
    BY <1>3 DEF FromHeard, h, l
  <2> QED BY <1>10, <2>1
<1>12. Whole(sentence')
  BY <1>1, NewCacheIs
<1>13. CASE stream' = stream
  <2>1. FromHeard'
    BY <1>9, <1>11, <1>13 DEF FromHeard
  <2>2. 2 * Len(stream'.fed) <= Len(heard')
    <3> DEFINE z == Len(f)
    <3>1. z \in Nat /\ Len(stream'.fed) = z /\ 2 * z <= l
      BY <1>3, <1>13, <1>4
    <3> HIDE DEF z
    <3>2. 2 * z <= l + a
      BY <1>2, <1>3, <3>1
    <3> QED BY <1>8, <3>1, <3>2
  <2> QED BY <1>3, <1>8, <1>9, <1>12, <1>13, <2>1, <2>2 DEF Listening
<1>14. CASE \E os : stream' = ProcessChunk(stream, q, os)
  <2>1. PICK os : stream' = ProcessChunk(stream, q, os)
    BY <1>14
  <2> DEFINE z == Len(f)
  <2>2. z \in Nat /\ 2 * z <= l /\ z = Len(f)
    BY <1>3, <1>4
  <2> HIDE DEF z
  <2>3. 2 * (Len(stream.fed) + Len(q)) <= MaxBytes
    <3>1. l + a <= MaxBytes /\ MaxBytes \in Nat
      BY <1>1, <1>2, <1>3, SizesAre
    <3>2. 2 * (z + m) <= MaxBytes
      BY <1>3, <1>5, <2>2, <3>1
    <3> QED BY <1>7, <2>2, <3>2
  <2>4. Streaming(stream') /\ stream'.fed = f \o q
    BY <1>3, <1>7, <2>1, <2>3, ProcessChunkIs
  <2> HIDE DEF f
  <2>5. /\ Len(f \o q) = Len(f) + m
        /\ f \o q = [k \in 1..(Len(f) + m) |-> IF k <= Len(f) THEN f[k] ELSE q[k - Len(f)]]
    <3>1. /\ Len(f \o q) = Len(f) + Len(q)
          /\ f \o q = [k \in 1..(Len(f) + Len(q)) |-> IF k <= Len(f) THEN f[k] ELSE q[k - Len(f)]]
      <4>1. f \in Seq(Nat) /\ q \in Seq(Nat)
        BY <1>3, <1>7
      <4> QED BY <4>1, ConcatOf
    <3> QED BY <1>7, <3>1
  <2>6. 2 * Len(stream'.fed) <= Len(heard')
    <3>1. 2 * (z + m) <= l + a
      <4>1. l \in Nat /\ z \in Nat /\ m \in Nat /\ 2 * z <= l /\ a = 2 * m
        BY <1>3, <1>5, <2>2
      <4> QED BY <4>1
    <3> QED BY <1>8, <2>2, <2>4, <2>5, <3>1
  <2>7. ASSUME NEW k \in 1..(Len(f) + m)
        PROVE  \E j \in 1..(h + m) : (IF k <= Len(f) THEN f[k] ELSE q[k - Len(f)]) = heard'[2 * j - 1]
    <3>1. CASE k <= Len(f)
      <4>1. k \in DOMAIN f
        BY <1>3, <1>4, <3>1
      <4> QED BY <1>11, <3>1, <4>1
    <3>2. CASE ~(k <= Len(f))
      <4> DEFINE i == k - Len(f)
                 j == h + i
      <4>1. i \in 1..m /\ 2 * i - 1 \in 1..a /\ j \in 1..(h + m) /\ 2 * j - 1 = l + (2 * i - 1)
        BY <1>5, <1>4, <3>2
      <4> HIDE DEF i, j
      <4>2. q[i] = data[2 * i - 1]
        BY <1>7, <4>1
      <4>3. heard'[2 * j - 1] = data[2 * i - 1]
        BY <1>8, <4>1
      <4>4. (IF k <= Len(f) THEN f[k] ELSE q[k - Len(f)]) = q[i]
        BY <3>2 DEF i
      <4> QED BY <4>1, <4>2, <4>3, <4>4
    <3> QED BY <3>1, <3>2
  <2> DEFINE g == f \o q
  <2> HIDE DEF g
  <2>8. g = [k \in 1..(Len(f) + m) |-> IF k <= Len(f) THEN f[k] ELSE q[k - Len(f)]] /\ stream'.fed = g
    BY <2>4, <2>5 DEF g
  <2>9. \A k \in DOMAIN g : \E j \in 1..(h + m) : g[k] = heard'[2 * j - 1]
    BY <2>7, <2>8
  <2>10. FromHeard'
    BY <1>9, <2>8, <2>9 DEF FromHeard
  <2> QED BY <1>8, <1>9, <1>12, <2>4, <2>6, <2>10 DEF Listening
<1> QED BY <1>1, <1>13, <1>14

LEMMA ListeningNext == Listening /\ [AudioNext]_audioVars => Listening'
<1> SUFFICES ASSUME Listening, [AudioNext]_audioVars PROVE Listening'
  OBVIOUS
<1>1. CASE \E n \in Frames : Hear(n)
  BY <1>1, HearListens
<1>2. CASE EndSentence
  <2>1. \/ \E n \in TailFrames(stream.prev) : \E os : sentence' = Flush(stream, n, os)
        \/ sentence' = Unflushed(stream)
    BY <1>2 DEF EndSentence
  <2>2. stream' = NewCache /\ UNCHANGED <<heard, received>>
    BY <1>2 DEF EndSentence, vars
  <2>3. 2 * Len(stream.fed) <= MaxBytes
    <3>1. stream.fed \in Seq(Nat) /\ heard \in Seq(Nat)
      BY DEF Listening, Streaming, Steady, CacheType
    <3>2. Len(stream.fed) \in Nat /\ Len(heard) \in Nat /\ MaxBytes \in Nat
      BY <3>1, SizesAre
    <3>3. /\ 2 * Len(stream.fed) <= Len(heard) /\ Len(heard) <= received /\ received <= MaxBytes
          /\ received \in Nat
      BY DEF Listening
    <3> QED BY <3>2, <3>3
  <2>4. \A n \in TailFrames(stream.prev) : \A os : Whole(Flush(stream, n, os))
    BY <2>3, FlushIs DEF Listening
  <2>5. Whole(Unflushed(stream))
    BY UnflushedIs DEF Listening
  <2>6. Whole(sentence')
    BY <2>1, <2>4, <2>5
  <2> QED BY <2>2, <2>6, FreshStream DEF Listening
<1>3. CASE Discard
  <2>1. stream' = NewCache /\ sentence' = NewCache /\ UNCHANGED <<heard, received>>
    BY <1>3 DEF Discard, vars
  <2>2. Whole(sentence')
    BY <2>1, NewCacheIs
  <2> QED BY <2>1, <2>2, FreshStream DEF Listening
<1>4. CASE CleanUp
  <2>1. heard' = <<>> /\ received' = 0 /\ stream' = NewCache /\ sentence' = NewCache
    BY <1>4 DEF CleanUp, Clear
  <2>2. Streaming(stream') /\ stream'.fed = <<>> /\ Whole(sentence')
    BY <2>1, NewCacheIs
  <2>3. FromHeard' /\ Len(stream'.fed) = 0 /\ Len(heard') = 0
    BY <2>1, <2>2 DEF FromHeard
  <2>4. heard' \in Seq(Nat) /\ received' \in Nat /\ Len(heard') % 2 = 0 /\ received' <= MaxBytes
    BY <2>1, <2>3, SizesAre
  <2> QED BY <2>1, <2>2, <2>3, <2>4 DEF Listening
<1>5. CASE UNCHANGED audioVars
  <2>1. UNCHANGED <<heard, received, stream, sentence>>
    BY <1>5 DEF audioVars, vars
  <2> QED BY <2>1 DEF Listening, FromHeard
<1> QED BY <1>1, <1>2, <1>3, <1>4, <1>5 DEF AudioNext

----------------------------------------------------------------------------
(* Theorems.                                                               *)

LEMMA BufferInvariant == AudioSpec => []IInv
<1>1. AudioInit => IInv
  BY InitInv DEF AudioInit
<1> QED
  BY <1>1, NextInv, PTL DEF AudioSpec

\* Every reachable state of the ring buffer is well formed: head stays an index of the
\* buffer, whatever its size and the lengths of the messages.
THEOREM BufferTypeCorrect == AudioSpec => []TypeOK
<1>1. IInv => TypeOK
  BY DEF IInv
<1> QED
  BY <1>1, BufferInvariant, PTL

\* The timeline is the audio the gate let through, and the buffer holds its end, byte
\* for byte, for every size of the buffer, limit and length of the messages.
THEOREM TailAlwaysKept == AudioSpec => []TailKept
  BY IndexGivesTail, BufferInvariant, PTL

\* What the second pass is given is what was heard: an utterance with its pre-roll is
\* read back byte for byte, less what the buffer no longer holds, for every size, pre-roll
\* and length of the messages (get_segment_with_preroll and get_range of ring_buffer.py).
THEOREM RangeAlwaysFaithful == AudioSpec => []RangeFaithful
  BY ReadsFaithfully, BufferInvariant, PTL

LEMMA StreamInvariant == AudioSpec => []Listening
<1> QED BY ListeningInit, ListeningNext, PTL DEF AudioSpec

\* Whatever the lengths of the messages, the sizes of the windows and the forwards that
\* fail: every sample given to the stream is one of those heard, is analysed once and in
\* order or waits for its stride, each frame but the right context has had its turn once
\* and in order, the weight integrated has become tokens or is carried; and without a
\* failure all that had its turn is integrated and every token was returned
\* (process_chunk, _prepare_requests and submit of onnx_batched_streaming.py).
THEOREM AlwaysHeardOnce == AudioSpec => []HeardOnce
<1>1. Listening => HeardOnce
  <2> SUFFICES ASSUME Listening PROVE HeardOnce
    OBVIOUS
  <2>1. /\ FromHeard /\ stream.fed = stream.analysed \o stream.prev /\ Len(stream.prev) < Stride
        /\ Len(stream.analysed) = stream.start * FrameSamples /\ stream.turns = Done(stream.start)
        /\ Weighs(stream, Sum(Weights(stream.integrated))) /\ Faithful(stream)
    BY DEF Listening, Streaming, Steady
  <2> QED BY <2>1 DEF HeardOnce, FromHeard, Done, Weighs, Faithful
<1> QED BY <1>1, StreamInvariant, PTL

\* However long the tail of a sentence is, if none of its forwards failed its flush
\* integrates each of its frames once, and the tokens are those of one pass over all of
\* them, for every weight the frames may have (flush and _cif_search of
\* onnx_batched_streaming.py).
THEOREM SentencesAlwaysWhole == AudioSpec => []SentenceWhole
<1>1. Listening => SentenceWhole
  BY DEF Listening, Whole, SentenceWhole
<1> QED BY <1>1, StreamInvariant, PTL
============================================================================

---------------------------- MODULE MCAudioPath ----------------------------
(***************************************************************************)
(* The instance of AudioPath that TLC checks.  A buffer of three           *)
(* milliseconds of four bytes, and messages that are empty, odd, a         *)
(* fraction of a millisecond, or longer than the limit; a stride of two    *)
(* frames of two samples, so that a message may complete two strides, a    *)
(* tail may be shorter than a frame, fit into the last window, or need two.*)
(***************************************************************************)
EXTENDS AudioPath

MCFrames == {0, 3, 6, 15}
MCWeight == [f \in 0..9 |-> (3 * f + 1) % 5]
============================================================================

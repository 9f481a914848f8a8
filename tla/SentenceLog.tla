---------------------------- MODULE SentenceLog ----------------------------
(***************************************************************************)
(* What a session promises its client about sentences, whatever cut them   *)
(* (VAD pause, forced cut, watchdog, COMMIT or STOP): an append-only log   *)
(* of disjoint intervals of the audio timeline, each of which is settled   *)
(* at most once, and nothing after the log is closed.                      *)
(***************************************************************************)
EXTENDS Integers, Sequences

VARIABLES
  log,      \* intervals in sentence_id order: Seq([start, end])
  fate,     \* sentence_id -> "open" | "final" | "abandoned"
  closed    \* session_finished has been sent

logVars == <<log, fate, closed>>

\* Sentences are nonempty, and each starts at or after the previous end.
WellFormed(l) ==
  /\ \A i \in DOMAIN l : 0 <= l[i].start /\ l[i].start < l[i].end
  /\ \A i, j \in DOMAIN l : i < j => l[i].end <= l[j].start

LogInit == log = <<>> /\ fate = <<>> /\ closed = FALSE

\* One handler call may cut several sentences: it only adds to the log.
Extend ==
  /\ ~closed
  /\ Len(log') > Len(log)
  /\ \A i \in DOMAIN log : log'[i] = log[i]
  /\ WellFormed(log')
  /\ DOMAIN fate' = DOMAIN log'
  /\ \A i \in DOMAIN log' : fate'[i] = IF i \in DOMAIN log THEN fate[i] ELSE "open"
  /\ UNCHANGED closed

\* Open sentences receive their final, or are given up; never both.
Settle ==
  /\ ~closed
  /\ DOMAIN fate' = DOMAIN fate
  /\ \A i \in DOMAIN fate :
       \/ fate'[i] = fate[i]
       \/ fate[i] = "open" /\ fate'[i] \in {"final", "abandoned"}
  /\ UNCHANGED <<log, closed>>

\* session_finished is the last message, sent when no sentence is open.
Close ==
  /\ ~closed
  /\ \A i \in DOMAIN fate : fate[i] # "open"
  /\ closed' = TRUE
  /\ UNCHANGED <<log, fate>>

LogNext == Extend \/ Settle \/ Close

LogSpec == LogInit /\ [][LogNext]_logVars
============================================================================

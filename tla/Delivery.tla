------------------------------ MODULE Delivery ------------------------------
(***************************************************************************)
(* How the results of one session reach its client: the receive loop, the  *)
(* send loop and the bounded output queue of each connection               *)
(* (server/websocket_server.py), the second passes that put their finals   *)
(* whenever they are done (pipeline/session_pipeline.py), and the queue    *)
(* without a reader that a pipeline is given when its connection is lost   *)
(* (core/session_manager.py).  What a chunk or a COMMIT yields is chosen   *)
(* freely (SessionPipeline says what it is); the session is not replaced   *)
(* by another under its id (SessionLifecycle says what happens then).      *)
(***************************************************************************)
EXTENDS Integers, Sequences, Functions

CONSTANTS
  MaxConns,      \* bound: connections of this client, one after the other
  MaxSentences,  \* bound: sentences cut
  MaxReplies,    \* bound: partials and replies besides
  Cap            \* maxsize of an output queue

ASSUME BoundAssumption ==
  {MaxConns, Cap} \subseteq Nat \ {0} /\ {MaxSentences, MaxReplies} \subseteq Nat

VARIABLES
  handler,   \* each connection's receive loop: where it is, and the puts before it
  sender,    \* whether each connection's send loop runs
  lost,      \* whether the connection is closed
  own,       \* each connection's output_queue
  fresh,     \* the queue its pipeline is given at detach
  session,   \* the ClientSession
  task,      \* each sentence's second pass
  replies,   \* partials and replies so far
  got        \* history: what the client has received on each connection, replies left out

vars == <<handler, sender, lost, own, fresh, session, task, replies, got>>

Conns == 1..MaxConns
Ids == 1..MaxSentences
\* A message is its type and the sentences it is about.
Msg(type, sentences) == [type |-> type, about |-> sentences]
Reply == Msg("reply", {})
Provisional(i) == Msg("provisional", {i})
Final(i) == Msg("final", {i})
Resumed(n) == Msg("resumed", 1..n)
Finished(done) == Msg("finished", done)
Wait == Msg("wait", {})  \* not a message: wait_for_pending_tasks

Init ==
  /\ handler = [c \in Conns |-> [at |-> "none", todo |-> <<>>]]
  /\ sender = [c \in Conns |-> FALSE] /\ lost = [c \in Conns |-> FALSE]
  /\ own = [c \in Conns |-> <<>>] /\ fresh = [c \in Conns |-> <<>>]
  /\ session = [status |-> "new", holder |-> 0, stopping |-> FALSE, cut |-> 0, done |-> {}]
  /\ task = [i \in Ids |-> [at |-> "none", of |-> 0, queue |-> "own"]]
  /\ replies = 0 /\ got = [c \in Conns |-> <<>>]

----------------------------------------------------------------------------
(* Queues.                                                                 *)

\* pipeline.output_queue of connection c's pipeline: swapped when it is detached.
Out(c) ==
  IF handler[c].at \in {"gone", "finalising"} THEN "fresh" ELSE "own"

Queue(c, which) == IF which = "own" THEN own[c] ELSE fresh[c]

\* Fault: one message too many.
HasRoomForOneMore(c, which) == Len(Queue(c, which)) <= Cap

HasRoom(c, which) == Len(Queue(c, which)) < Cap

PutInto(c, which, m) ==
  IF which = "own"
  THEN own' = [own EXCEPT ![c] = Append(@, m)] /\ UNCHANGED fresh
  ELSE fresh' = [fresh EXCEPT ![c] = Append(@, m)] /\ UNCHANGED own

----------------------------------------------------------------------------
(* The receive loop.                                                       *)

Busy(c, todo) == handler' = [handler EXCEPT ![c] = [at |-> "busy", todo |-> todo]]

\* START, on a new session or resuming the suspended one.
Connect(c) ==
  /\ handler[c].at = "none" /\ \A b \in 1..(c - 1) : handler[b].at # "none"
  /\ \/ session.status = "new" /\ Busy(c, <<Reply>>)
     \/ session.status = "detached" /\ Busy(c, <<Resumed(session.cut)>>)
  /\ session' = [session EXCEPT !.status = "attached", !.holder = c]
  /\ sender' = [sender EXCEPT ![c] = TRUE]
  /\ UNCHANGED <<lost, own, fresh, task, replies, got>>

\* Audio, COMMIT or a command: nothing, a reply or partial, and a sentence, whose
\* record is there before its provisional text is put.
Receive(c) ==
  \E cuts \in {0, 1}, says \in {0, 1} :
    /\ handler[c].at = "idle" /\ cuts + says > 0
    /\ cuts = 1 => ~session.stopping /\ session.cut < MaxSentences
    /\ replies + says <= MaxReplies
    /\ Busy(c, [k \in 1..cuts |-> Provisional(session.cut + 1)] \o [k \in 1..says |-> Reply])
    /\ session' = [session EXCEPT !.cut = @ + cuts]
    /\ replies' = replies + says
    /\ UNCHANGED <<sender, lost, own, fresh, task, got>>

\* Fault: with nothing to wait for, process_stop returns at once.
StopProgramHasty(flushes) ==
  IF flushes = 0 /\ \A i \in Ids : task[i].at \notin {"runs", "puts"} THEN <<>>
  ELSE [k \in 1..flushes |-> Provisional(session.cut + 1)] \o <<Wait, Finished({})>>

\* process_stop: what is left is flushed, the second passes are awaited, and the
\* transcript is put.
StopProgram(flushes) ==
  [k \in 1..flushes |-> Provisional(session.cut + 1)] \o <<Wait, Finished({})>>

Stop(c) ==
  \E flushes \in {0, 1} :
    /\ handler[c].at = "idle" /\ ~session.stopping
    /\ session.cut + flushes <= MaxSentences
    /\ Busy(c, StopProgram(flushes))
    /\ session' = [session EXCEPT !.stopping = TRUE, !.cut = @ + flushes]
    /\ UNCHANGED <<sender, lost, own, fresh, task, replies, got>>

Running(c) == handler[c].at \in {"busy", "finalising"} /\ handler[c].todo # <<>>

Proceed(c) == handler' = [handler EXCEPT ![c].todo = Tail(@)]

\* output_queue.put: waits for room; after a provisional the second pass starts.
Put(c) ==
  LET m == Head(handler[c].todo)
  IN /\ Running(c) /\ m # Wait /\ HasRoom(c, Out(c))
     /\ PutInto(c, Out(c), IF m.type = "finished" THEN Finished(session.done) ELSE m)
     /\ task' = [i \in Ids |-> IF m = Provisional(i) THEN [at |-> "runs", of |-> c, queue |-> "own"] ELSE task[i]]
     /\ Proceed(c)
     /\ UNCHANGED <<sender, lost, session, replies, got>>

\* Fault: only the second passes of this connection's pipeline are awaited.
PendingOfHolder ==
  {i \in Ids : task[i].at \in {"runs", "puts"} /\ task[i].of = session.holder}

Pending == {i \in Ids : task[i].at \in {"runs", "puts"}}
Cancelled(t) == [i \in Ids |-> IF i \in Pending THEN [t[i] EXCEPT !.at = "ended"] ELSE t[i]]

\* wait_for_pending_tasks: all have ended, or the time is up and they are cancelled.
WaitOver(c) ==
  /\ Running(c) /\ Head(handler[c].todo) = Wait
  /\ Pending = {}
  /\ Proceed(c)
  /\ UNCHANGED <<sender, lost, own, fresh, session, task, replies, got>>

\* Fault: there is no time limit.
WaitTimesOutNever(c) == FALSE /\ UNCHANGED vars

WaitTimesOut(c) ==
  /\ Running(c) /\ Head(handler[c].todo) = Wait
  /\ Pending # {}
  /\ task' = Cancelled(task)
  /\ Proceed(c)
  /\ UNCHANGED <<sender, lost, own, fresh, session, replies, got>>

\* The handler returns to the loop.
Return(c) ==
  /\ handler[c].at = "busy" /\ handler[c].todo = <<>>
  /\ handler' = [handler EXCEPT ![c].at = "idle"]
  /\ UNCHANGED <<sender, lost, own, fresh, session, task, replies, got>>

\* finally: the session is suspended, or removed when it has been stopped; the
\* send loop is cancelled.
Leave(c) ==
  /\ handler[c].at = "idle" /\ lost[c]
  /\ handler' = [handler EXCEPT ![c].at = "gone"]
  /\ sender' = [sender EXCEPT ![c] = FALSE]
  /\ IF session.stopping
     THEN session' = [session EXCEPT !.status = "over"] /\ task' = Cancelled(task)
     ELSE session' = [session EXCEPT !.status = "detached"] /\ UNCHANGED task
  /\ UNCHANGED <<lost, own, fresh, replies, got>>

----------------------------------------------------------------------------
(* The send loop, and the connection.                                      *)

Lose(c) ==
  /\ handler[c].at \in {"idle", "busy"} /\ ~lost[c]
  /\ lost' = [lost EXCEPT ![c] = TRUE]
  /\ UNCHANGED <<handler, sender, own, fresh, session, task, replies, got>>

Send(c) ==
  /\ sender[c] /\ own[c] # <<>> /\ ~lost[c]
  /\ got' = [got EXCEPT ![c] = IF Head(own[c]) = Reply THEN @ ELSE Append(@, Head(own[c]))]
  /\ own' = [own EXCEPT ![c] = Tail(@)]
  /\ UNCHANGED <<handler, sender, lost, fresh, session, task, replies>>

\* ConnectionClosed, or another error of send: the loop ends.
SendFails(c) ==
  /\ sender[c] /\ own[c] # <<>>
  /\ own' = [own EXCEPT ![c] = Tail(@)]
  /\ sender' = [sender EXCEPT ![c] = FALSE]
  /\ UNCHANGED <<handler, lost, fresh, session, task, replies, got>>

----------------------------------------------------------------------------
(* The second passes.                                                      *)

\* Fault: the final goes to whoever holds the session.
TaskDoneToHolder(i) ==
  LET c == session.holder
  IN /\ task[i].at = "runs" /\ HasRoom(c, Out(c))
     /\ session' = [session EXCEPT !.done = @ \cup {i}]
     /\ PutInto(c, Out(c), Final(i)) /\ task' = [task EXCEPT ![i].at = "ended"]
     /\ UNCHANGED <<handler, sender, lost, replies, got>>

\* Its result is recorded, then put into the queue its pipeline has now; with room
\* there the task does not yield in between.
TaskDone(i) ==
  LET c == task[i].of
  IN /\ task[i].at = "runs"
     /\ session' = [session EXCEPT !.done = @ \cup {i}]
     /\ IF HasRoom(c, Out(c))
        THEN PutInto(c, Out(c), Final(i)) /\ task' = [task EXCEPT ![i].at = "ended"]
        ELSE /\ task' = [task EXCEPT ![i].at = "puts", ![i].queue = Out(c)]
             /\ UNCHANGED <<own, fresh>>
     /\ UNCHANGED <<handler, sender, lost, replies, got>>

\* Room has come up in the queue it waits for.
TaskPuts(i) ==
  LET c == task[i].of
  IN /\ task[i].at = "puts" /\ HasRoom(c, task[i].queue)
     /\ PutInto(c, task[i].queue, Final(i))
     /\ task' = [task EXCEPT ![i].at = "ended"]
     /\ UNCHANGED <<handler, sender, lost, session, replies, got>>

----------------------------------------------------------------------------
(* The finaliser of a session whose resume window has closed.              *)

Expire ==
  LET c == session.holder
  IN \E flushes \in {0, 1} :
       /\ session.status = "detached" /\ session.cut + flushes <= MaxSentences
       /\ handler' = [handler EXCEPT ![c] = [at |-> "finalising", todo |-> StopProgram(flushes)]]
       /\ session' = [session EXCEPT !.status = "expired", !.stopping = TRUE, !.cut = @ + flushes]
       /\ UNCHANGED <<sender, lost, own, fresh, task, replies, got>>

\* process_stop has returned or its wait_for has run out; the session is cleaned up.
FinalizerEnds(c) ==
  /\ handler[c].at = "finalising"
  /\ handler' = [handler EXCEPT ![c] = [at |-> "gone", todo |-> <<>>]]
  /\ session' = [session EXCEPT !.status = "over"]
  /\ task' = Cancelled(task)
  /\ UNCHANGED <<sender, lost, own, fresh, replies, got>>

----------------------------------------------------------------------------
\* A receive loop that waits for room which nobody will make.
Stuck(c) ==
  /\ Running(c) /\ handler[c].at = "busy" /\ Head(handler[c].todo) # Wait
  /\ ~sender[c] /\ ~HasRoom(c, "own")

AtRest ==
  /\ session.status = "over" \/ \E c \in Conns : Stuck(c) /\ lost[c]
  /\ UNCHANGED vars

Client(c) == Connect(c) \/ Receive(c) \/ Stop(c)
Loops(c) == Put(c) \/ WaitOver(c) \/ WaitTimesOut(c) \/ Return(c) \/ Leave(c)
Network(c) == Lose(c) \/ Send(c) \/ SendFails(c)

Next ==
  \/ \E c \in Conns : Client(c) \/ Loops(c) \/ Network(c) \/ FinalizerEnds(c)
  \/ \E i \in Ids : TaskDone(i) \/ TaskPuts(i)
  \/ Expire \/ AtRest

\* A message handed to the connection is sent, or the connection ends over it.
Sending(c) == Send(c) \/ SendFails(c) \/ (sender[c] /\ own[c] # <<>> /\ Lose(c))

\* The event loop goes on; the second pass has its hard timeout, the waits theirs; a
\* client that does not read is dropped by the keepalive (ping_timeout).
Fairness ==
  /\ \A c \in Conns : WF_vars(Loops(c)) /\ WF_vars(Sending(c))
  /\ \A i \in Ids : WF_vars(TaskDone(i)) /\ WF_vars(TaskPuts(i))

Spec == Init /\ [][Next]_vars /\ Fairness

----------------------------------------------------------------------------
(* Properties.                                                             *)

Messages ==
  [type : {"reply", "provisional", "final", "resumed", "finished", "wait"}, about : SUBSET Ids]

\* The type invariant: the queues are bounded.
TypeOK ==
  /\ \A c \in Conns :
       /\ handler[c].at \in {"none", "idle", "busy", "gone", "finalising"}
       /\ handler[c].todo \in Seq(Messages)
       /\ {sender[c], lost[c]} \subseteq BOOLEAN /\ got[c] \in Seq(Messages)
       /\ \A which \in {"own", "fresh"} :
            Queue(c, which) \in Seq(Messages) /\ Len(Queue(c, which)) <= Cap
  /\ session \in [status : {"new", "attached", "detached", "expired", "over"}, holder : 0..MaxConns,
                  stopping : BOOLEAN, cut : 0..MaxSentences, done : SUBSET Ids]
  /\ task \in [Ids -> [at : {"none", "runs", "puts", "ended"}, of : 0..MaxConns, queue : {"own", "fresh"}]]
  /\ replies \in 0..MaxReplies

\* What a client can rely on although finals come when they like, block on full
\* queues and outlive connections: on each connection a sentence's final follows its
\* provisional, each once; sentences are announced in their order; nothing follows
\* session_finished; and what was announced before the loss of a connection is not
\* announced or finalised on the next (docs/client-integration-guide.md, 4.6).
InOrder ==
  \A c \in Conns :
    LET g == got[c]
    IN /\ \A j, k \in DOMAIN g :
            j < k => g[j] # g[k] /\ g[j].type # "finished"
       /\ \A h, i \in Ids : \A j, k \in DOMAIN g :
            /\ g[j] = Provisional(h) /\ g[k] = Provisional(i) /\ j < k => h < i
            /\ g[k] = Final(i) => Provisional(i) \in Range(SubSeq(g, 1, k - 1))
       /\ \A i \in Ids, b \in 1..(c - 1) :
            Provisional(i) \in Range(g) => Provisional(i) \notin Range(got[b])

Delivered(i) ==
  \E c \in Conns : Final(i) \in Range(got[c]) \cup Range(fresh[c])

\* The transcript that closes a session holds every final the client was ever sent, and
\* those that went to a queue nobody reads while it was away.
FinalsInTranscript ==
  \A c \in Conns : \A k \in DOMAIN got[c] : got[c][k].type = "finished" =>
    \A i \in Ids : Delivered(i) => i \in got[c][k].about

\* The loss of a connection is noticed: its handler suspends the session, or ends the
\* STOP it was in, whatever was blocked when the reader of its queue disappeared -
\* except for the handler that itself waits for room in that queue.
LossNoticed ==
  \A c \in Conns : lost[c] ~> (handler[c].at \in {"gone", "finalising"} \/ Stuck(c))

\* A STOP is answered as long as the connection lasts, though second passes may be
\* blocked on the queue of a connection lost before.
StopAnswered ==
  \A c \in Conns :
    (handler[c].at = "busy" /\ session.stopping) ~>
      ((\E k \in DOMAIN got[c] : got[c][k].type = "finished") \/ ~sender[c] \/ lost[c])
============================================================================

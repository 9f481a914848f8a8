------------------------- MODULE SessionLifecycle -------------------------
(***************************************************************************)
(* Sessions from START to the transcript on disk: the connections of the   *)
(* gateway (server/websocket_server.py), the session table of the manager  *)
(* (core/session_manager.py), its resume window, its idle eviction, and    *)
(* the shutdown of the service (server/service.py).                        *)
(*                                                                         *)
(* A session id names an entry of the table; the sessions that have lived  *)
(* under it are numbered in the order of their creation.  Every method of  *)
(* the manager is atomic under its lock, up to the disk writes, which run  *)
(* in an executor.  Time is not modelled: a resume window may expire, or   *)
(* a session become idle, at any moment.                                   *)
(***************************************************************************)
EXTENDS Integers, Sequences, FiniteSets

CONSTANTS
  MaxConns,        \* bound: connections opened, numbered in the order of their opening
  Ids,             \* session ids
  MaxConnections,  \* server.max_connections
  ResumeEnabled,   \* server.resume_ttl_sec > 0
  MayShutdown,     \* whether the service may be stopped
  MaxSessions      \* bound: sessions created

ASSUME LifecycleAssumption ==
  /\ MaxConnections \in Nat \ {0} /\ {MaxSessions, MaxConns} \subseteq Nat
  /\ {ResumeEnabled, MayShutdown} \subseteq BOOLEAN

VARIABLES
  service,  \* "up", "stopping" or "exited"
  table,    \* _sessions: the session an id stands for, or None
  session,  \* the sessions created so far, in or out of the table
  conn      \* what each handle_connection is doing, and the session it holds

vars == <<service, table, session, conn>>

None == 0
Conns == 1..MaxConns
Sessions == DOMAIN session
InTable == {o \in Sessions : \E id \in Ids : table[id] = o}
Occupied(tb) == {id \in Ids : tb[id] # None}
Open(c) == service = "up" /\ conn[c].phase = "open"
Held(o) == \E c \in Conns : conn[c].phase # "closed" /\ conn[c].holds = o

\* A session as create_session makes it.  pipeline is the session whose pipeline
\* detach_session left with it; step is how far it is on its way out of the table
\* and onto the disk, and retired counts who set it on that way.
NewSession(id) ==
  [id |-> id, active |-> TRUE, detached |-> FALSE, pipeline |-> None,
   stopping |-> FALSE, step |-> "live", retired |-> 0]

Init ==
  /\ service = "up"
  /\ table = [id \in Ids |-> None]
  /\ session = <<>>
  /\ conn = [c \in Conns |-> [phase |-> "new", holds |-> None]]

OpenConnection(c) ==
  /\ service = "up" /\ conn[c].phase = "new"
  /\ \A d \in 1..(c - 1) : conn[d].phase # "new"
  /\ conn' = [conn EXCEPT ![c].phase = "open"]
  /\ UNCHANGED <<service, table, session>>

\* A session that has left the table is handed to a finaliser or to the disk.
Retire(ss, o, step) == [ss EXCEPT ![o].step = step, ![o].retired = @ + 1]

\* Fault: a session keeps its entry until it is finalised.
PopNothing(id) == table

Pop(id) == [table EXCEPT ![id] = None]

----------------------------------------------------------------------------
(* START.                                                                  *)

\* Fault: the session replaced under an id is not cleaned.
ReplaceLeaking(ss, o) == ss

\* create_session cleans the session that had the id, without saving it.
Replace(ss, o) ==
  IF o = None THEN ss ELSE [ss EXCEPT ![o].active = FALSE, ![o].step = "replaced"]

\* server.max_connections, counted in entries of the table.
Room(tb) == Cardinality(Occupied(tb)) < MaxConnections

\* create_session, on the table tb and the sessions ss.  A refusal raises and ends
\* the connection, which Disconnect models.
CreateSession(c, id, tb, ss) ==
  /\ Len(ss) < MaxSessions
  /\ Room(tb)
  /\ session' = Append(Replace(ss, tb[id]), NewSession(id))
  /\ table' = [tb EXCEPT ![id] = Len(ss) + 1]
  /\ conn' = [conn EXCEPT ![c].holds = Len(ss) + 1]

\* A START without resume; with no id, or audio before any START, it takes an id
\* nobody has used.  A session the connection held before is left in the table.
Start(c, id) ==
  /\ Open(c)
  /\ CreateSession(c, id, table, session)
  /\ UNCHANGED service

\* A plain START on a connection that has a session marks it active again.
StartAgain(c) ==
  /\ Open(c) /\ conn[c].holds # None
  /\ session' = [session EXCEPT ![conn[c].holds].active = TRUE]
  /\ UNCHANGED <<service, table, conn>>

\* Fault: a resumed session is not marked active.
ReattachInactive(c, o) ==
  /\ session' = [session EXCEPT ![o].detached = FALSE, ![o].pipeline = None]
  /\ conn' = [conn EXCEPT ![c].holds = o]
  /\ UNCHANGED table

\* A resume inside the window: the session goes on under the new connection.
Reattach(c, o) ==
  /\ session' = [session EXCEPT ![o].detached = FALSE, ![o].pipeline = None, ![o].active = TRUE]
  /\ conn' = [conn EXCEPT ![c].holds = o]
  /\ UNCHANGED table

Suspended(o) == o # None /\ session[o].detached

\* A START with resume: only a detached session can be resumed; one that has
\* outlived its window is popped and finalised, and a new session is created.  For
\* any other id it is a START.
StartResume(c, id) ==
  LET o == table[id]
  IN /\ Open(c) /\ Suspended(o)
     /\ Reattach(c, o) \/ CreateSession(c, id, Pop(id), Retire(session, o, "finalize"))
     /\ UNCHANGED service

----------------------------------------------------------------------------
(* STOP and disconnection.                                                 *)

\* process_stop by the connection's own pipeline: at most once per session.
StopMessage(c) ==
  LET o == conn[c].holds
  IN /\ Open(c) /\ o # None /\ ~session[o].stopping
     /\ session' = [session EXCEPT ![o].stopping = TRUE]
     /\ conn' = [conn EXCEPT ![c].phase = "in_stop"]
     /\ UNCHANGED <<service, table>>

\* The handler goes on once process_stop has sent session_finished.
StopReturns(c) ==
  /\ conn[c].phase = "in_stop"
  /\ conn' = [conn EXCEPT ![c].phase = "open"]
  /\ UNCHANGED <<service, table, session>>

Gone == [phase |-> "closed", holds |-> None]

\* detach_session looks up the id, and marks the session it stands for now.
Detachable(o) ==
  LET t == table[session[o].id]
  IN ResumeEnabled /\ ~session[o].stopping /\ t # None /\ ~session[t].stopping

\* The session marked keeps the pipeline of the connection that is gone.
Detach(c, o) ==
  LET t == table[session[o].id]
  IN /\ session' = [session EXCEPT ![t].detached = TRUE, ![t].pipeline = o, ![t].active = FALSE]
     /\ conn' = [conn EXCEPT ![c] = Gone]
     /\ UNCHANGED table

\* remove_session pops what the id stands for now, if anything, to be saved and
\* cleaned; the connection waits for it.
Remove(c, o) ==
  LET id == session[o].id
      t  == table[id]
  IN IF t = None THEN conn' = [conn EXCEPT ![c] = Gone] /\ UNCHANGED <<table, session>>
     ELSE /\ table' = Pop(id)
          /\ session' = Retire(session, t, "persist")
          /\ conn' = [conn EXCEPT ![c] = [phase |-> "removing", holds |-> t]]

\* The connection is lost, or closed at shutdown: handle_connection's finally.
Disconnect(c) ==
  LET o == conn[c].holds
  IN /\ conn[c].phase = "open"
     /\ \/ o = None /\ conn' = [conn EXCEPT ![c] = Gone] /\ UNCHANGED <<table, session>>
        \/ o # None /\ Detachable(o) /\ Detach(c, o)
        \/ /\ o # None /\ ~Detachable(o) /\ ~session[o].stopping
           /\ session' = [session EXCEPT ![o].stopping = TRUE]
           /\ conn' = [conn EXCEPT ![c].phase = "closing"]
           /\ UNCHANGED table
        \/ o # None /\ session[o].stopping /\ Remove(c, o)
     /\ UNCHANGED service

\* process_stop has returned, or its wait_for has given up.
CloseReturns(c) ==
  /\ conn[c].phase = "closing"
  /\ Remove(c, conn[c].holds)
  /\ UNCHANGED service

----------------------------------------------------------------------------
(* The maintenance loop and what it starts.                                *)

\* cleanup_idle_sessions: a detached session's window has expired.
Expire(o) ==
  /\ service = "up" /\ o \in InTable /\ session[o].detached
  /\ table' = Pop(session[o].id)
  /\ session' = Retire(session, o, "finalize")
  /\ UNCHANGED <<service, conn>>

\* Fault: a session that has stopped is not looked at.
EvictRunning(o) ==
  /\ service = "up" /\ o \in InTable /\ ~session[o].detached /\ ~session[o].stopping
  /\ table' = Pop(session[o].id)
  /\ session' = Retire(session, o, "persist")
  /\ UNCHANGED <<service, conn>>

\* cleanup_idle_sessions: nothing has been received for the session for too long,
\* though its connection may be open.
EvictIdle(o) ==
  /\ service = "up" /\ o \in InTable /\ ~session[o].detached
  /\ table' = Pop(session[o].id)
  /\ session' = Retire(session, o, "persist")
  /\ UNCHANGED <<service, conn>>

\* _idle_session_cleaner comes round, and cleanup_idle_sessions meets the session.
Maintain(o) == Expire(o) \/ EvictIdle(o)

\* _finalize_detached runs process_stop of the pipeline left with the session, which
\* returns at once if that pipeline's session is stopping.
FinalizeBegins(o) ==
  LET p == session[o].pipeline
  IN /\ service # "exited" /\ session[o].step = "finalize"
     /\ session' = [session EXCEPT ![p].stopping = TRUE,
                                   ![o].step = IF session[p].stopping THEN "persist" ELSE "stopping"]
     /\ UNCHANGED <<service, table, conn>>

\* It returns, fails, or is given up.
FinalizeReturns(o) ==
  /\ service # "exited" /\ session[o].step = "stopping"
  /\ session' = [session EXCEPT ![o].step = "persist"]
  /\ UNCHANGED <<service, table, conn>>

\* _persist_transcript, in the executor.
Persist(o) ==
  /\ service # "exited" /\ session[o].step = "persist"
  /\ session' = [session EXCEPT ![o].step = "cleanup"]
  /\ UNCHANGED <<service, table, conn>>

\* cleanup; a connection that removed the session is through with it.
CleanUp(o) ==
  /\ service # "exited" /\ session[o].step = "cleanup"
  /\ session' = [session EXCEPT ![o].step = "done", ![o].active = FALSE]
  /\ conn' = [c \in Conns |-> IF conn[c] = [phase |-> "removing", holds |-> o] THEN Gone ELSE conn[c]]
  /\ UNCHANGED <<service, table>>

Retirement(o) == FinalizeBegins(o) \/ FinalizeReturns(o) \/ Persist(o) \/ CleanUp(o)

\* The service is told to stop: the maintenance loop is cancelled and every
\* connection is closed; when their handlers have ended, the process exits, and
\* the tasks of the event loop with it.
Shutdown ==
  /\ MayShutdown /\ service = "up"
  /\ service' = "stopping"
  /\ UNCHANGED <<table, session, conn>>

AllClosed == \A c \in Conns : conn[c].phase \in {"new", "closed"}

Exit ==
  /\ service = "stopping" /\ AllClosed
  /\ service' = "exited"
  /\ UNCHANGED <<table, session, conn>>

Over == AllClosed /\ UNCHANGED vars

Next ==
  \/ \E c \in Conns :
       \/ OpenConnection(c) \/ StartAgain(c) \/ StopMessage(c) \/ StopReturns(c)
       \/ Disconnect(c) \/ CloseReturns(c)
       \/ \E id \in Ids : Start(c, id) \/ StartResume(c, id)
  \/ \E o \in Sessions : Maintain(o) \/ Retirement(o)
  \/ Shutdown \/ Exit \/ Over

\* The maintenance loop comes round every minute; a window that is open, or a
\* session nobody holds, is old enough in the end.  process_stop is bounded by its
\* timeouts, and the tasks and disk writes go on.  Nothing obliges a client.
Fairness ==
  /\ \A o \in 1..MaxSessions :
       /\ WF_vars(o \in Sessions /\ Expire(o))
       /\ WF_vars(o \in Sessions /\ ~Held(o) /\ EvictIdle(o))
       /\ WF_vars(o \in Sessions /\ Retirement(o))
  /\ \A c \in Conns : WF_vars(StopReturns(c)) /\ WF_vars(CloseReturns(c))

Spec == Init /\ [][Next]_vars /\ Fairness

----------------------------------------------------------------------------
(* Properties.                                                             *)

Leaving == {"finalize", "stopping", "persist", "cleanup", "done"}

SessionType ==
  [id : Ids, active : BOOLEAN, detached : BOOLEAN, pipeline : 0..MaxSessions,
   stopping : BOOLEAN, step : Leaving \union {"live", "replaced"}, retired : {0, 1}]

\* The type invariant: table and connections name sessions that exist.
TypeOK ==
  /\ service \in {"up", "stopping", "exited"}
  /\ table \in [Ids -> 0..Len(session)]
  /\ session \in Seq(SessionType) /\ Len(session) <= MaxSessions
  /\ conn \in [Conns -> [phase : {"new", "open", "in_stop", "closing", "removing", "closed"},
                         holds : 0..Len(session)]]

\* The table, the finalisers, the evictions and the removals share the sessions out:
\* each is in the table, under its own id and nobody's else; or it is on its way to
\* the disk, set there exactly once whoever else raced for it; or a START replaced it.
OneFate ==
  \A o \in Sessions :
    IF o \in InTable
    THEN /\ \A id \in Ids : table[id] = o => id = session[o].id
         /\ session[o].step = "live" /\ session[o].retired = 0
    ELSE \/ session[o].step \in Leaving /\ session[o].retired = 1
         \/ session[o].step = "replaced" /\ session[o].retired = 0

\* A session of the table that is not detached is active, through disconnects,
\* resumes and plain STARTs: its audio and its COMMITs are not dropped unseen.
TableIsActive == \A o \in InTable : ~session[o].detached => session[o].active

\* While the service runs, a session nobody holds any more does not stay: its
\* transcript is saved and it is cleaned, or a START replaces or resumes it.
OrphansSettle ==
  \A o \in 1..MaxSessions :
    (o \in InTable /\ ~Held(o)) ~>
      \/ Held(o) \/ service # "up"
      \/ o \in Sessions /\ session[o].step \in {"done", "replaced"}

----------------------------------------------------------------------------
(* Refuted by a run of its own.                                            *)

\* docs 7.1: a session is suspended when its connection is lost.  Then the loss of
\* one connection suspends no session that another connection is streaming to.
SuspendedByItsOwn ==
  [][\A o \in Sessions : ~session[o].detached /\ session'[o].detached =>
       \A c \in Conns : conn[c].holds = o => conn'[c].phase = "closed"]_vars
============================================================================

---------------------- MODULE SessionLifecycle_proofs ----------------------
(***************************************************************************)
(* The session table and the sessions out of it, for any ids, any number   *)
(* of connections and of sessions.  Table and sessions are related by one  *)
(* predicate on their values, Fates; three lemmas say which changes of the *)
(* two keep it (a session created, retired, or changed where it is), and   *)
(* every action is one of them or two in a row.                            *)
(***************************************************************************)
EXTENDS SessionLifecycle, SequenceTheorems, TLAPS

\* The entries of the table, and the sessions that have none.
Fates(tb, ss) ==
  /\ tb \in [Ids -> 0..Len(ss)]
  /\ ss \in Seq(SessionType) /\ Len(ss) <= MaxSessions
  /\ \A id \in Ids : tb[id] # None =>
       /\ ss[tb[id]].id = id /\ ss[tb[id]].step = "live" /\ ss[tb[id]].retired = 0
       /\ ~ss[tb[id]].detached => ss[tb[id]].active
  /\ \A o \in 1..Len(ss) : (\A id \in Ids : tb[id] # o) =>
       \/ ss[o].step \in Leaving /\ ss[o].retired = 1
       \/ ss[o].step = "replaced" /\ ss[o].retired = 0

ConnPhases == {"new", "open", "in_stop", "closing", "removing", "closed"}
\* A connection that is about to remove its session has one.
ConnType(cs, n) ==
  /\ cs \in [Conns -> [phase : ConnPhases, holds : 0..n]]
  /\ \A c \in Conns : cs[c].phase = "closing" => cs[c].holds # None

ServiceType == service \in {"up", "stopping", "exited"}

IInv == Fates(table, session) /\ ConnType(conn, Len(session)) /\ ServiceType

LEMMA IInvIsEnough == IInv => TypeOK /\ OneFate /\ TableIsActive
<1> SUFFICES ASSUME IInv PROVE TypeOK /\ OneFate /\ TableIsActive
  OBVIOUS
<1>1. Sessions = 1..Len(session)
  BY DEF IInv, Fates, Sessions
<1>2. TypeOK
  BY DEF IInv, Fates, ConnType, ConnPhases, ServiceType, TypeOK
<1>3. OneFate
  <2> SUFFICES ASSUME NEW o \in 1..Len(session)
               PROVE  IF o \in InTable
                      THEN /\ \A id \in Ids : table[id] = o => id = session[o].id
                           /\ session[o].step = "live" /\ session[o].retired = 0
                      ELSE \/ session[o].step \in Leaving /\ session[o].retired = 1
                           \/ session[o].step = "replaced" /\ session[o].retired = 0
    BY <1>1 DEF OneFate
  <2>1. o # None
    BY DEF None, IInv, Fates
  <2>2. CASE o \in InTable
    BY <2>1, <2>2 DEF InTable, IInv, Fates
  <2>3. CASE o \notin InTable
    <3>1. \A id \in Ids : table[id] # o
      BY <1>1, <2>3 DEF InTable
    <3> QED
      BY <2>3, <3>1 DEF IInv, Fates
  <2> QED
    BY <2>2, <2>3
<1>4. TableIsActive
  <2> SUFFICES ASSUME NEW o \in InTable, ~session[o].detached PROVE session[o].active
    BY DEF TableIsActive
  <2>1. PICK id \in Ids : table[id] = o
    BY DEF InTable
  <2>2. o # None
    BY <1>1 DEF InTable, None, IInv, Fates
  <2> QED
    BY <2>1, <2>2 DEF IInv, Fates
<1> QED
  BY <1>2, <1>3, <1>4

----------------------------------------------------------------------------
(* What keeps the table and the sessions in step.                          *)

\* Another record for one session.
LEMMA RecordReplaced ==
  ASSUME NEW ss \in Seq(SessionType), NEW o \in 1..Len(ss), NEW r \in SessionType
  PROVE  /\ [ss EXCEPT ![o] = r] \in Seq(SessionType)
         /\ Len([ss EXCEPT ![o] = r]) = Len(ss)
         /\ \A i \in 1..Len(ss) : [ss EXCEPT ![o] = r][i] = IF i = o THEN r ELSE ss[i]
  BY ExceptSeq

\* What may become of the record s of a session that stays where it is.
SamePlace(s, t) ==
  /\ t \in SessionType /\ t.id = s.id /\ t.retired = s.retired
  /\ s.step = "live" => t.step = "live" /\ ((s.detached \/ s.active) => (t.detached \/ t.active))
  /\ s.step \in Leaving => t.step \in Leaving
  /\ s.step = "replaced" => t.step = "replaced"

LEMMA Changed ==
  ASSUME NEW tb, NEW ss, NEW tt, Fates(tb, ss),
         tt \in Seq(SessionType), Len(tt) = Len(ss),
         \A o \in 1..Len(ss) : SamePlace(ss[o], tt[o])
  PROVE  Fates(tb, tt)
<1>1. /\ tb \in [Ids -> 0..Len(tt)] /\ Len(tt) <= MaxSessions
  BY DEF Fates
<1>2. ASSUME NEW id \in Ids, tb[id] # None
      PROVE  /\ tt[tb[id]].id = id /\ tt[tb[id]].step = "live" /\ tt[tb[id]].retired = 0
             /\ ~tt[tb[id]].detached => tt[tb[id]].active
  <2>1. tb[id] \in 1..Len(ss)
    BY <1>2 DEF Fates, None
  <2>2. SamePlace(ss[tb[id]], tt[tb[id]])
    BY <2>1
  <2>3. /\ ss[tb[id]].id = id /\ ss[tb[id]].step = "live" /\ ss[tb[id]].retired = 0
        /\ ss[tb[id]].detached \/ ss[tb[id]].active
    BY <1>2 DEF Fates
  <2> QED
    BY <2>2, <2>3 DEF SamePlace
<1>3. ASSUME NEW o \in 1..Len(tt), \A id \in Ids : tb[id] # o
      PROVE  \/ tt[o].step \in Leaving /\ tt[o].retired = 1
             \/ tt[o].step = "replaced" /\ tt[o].retired = 0
  <2>1. \/ ss[o].step \in Leaving /\ ss[o].retired = 1
        \/ ss[o].step = "replaced" /\ ss[o].retired = 0
    BY <1>3 DEF Fates
  <2>2. SamePlace(ss[o], tt[o])
    BY <1>3
  <2> QED
    BY <2>1, <2>2 DEF SamePlace
<1> QED
  BY <1>1, <1>2, <1>3 DEF Fates

\* The same for a step that changes one session.
LEMMA ChangedOne ==
  ASSUME NEW tb, NEW ss, Fates(tb, ss), NEW o \in 1..Len(ss), NEW r, SamePlace(ss[o], r)
  PROVE  /\ Fates(tb, [ss EXCEPT ![o] = r]) /\ Len([ss EXCEPT ![o] = r]) = Len(ss)
         /\ \A i \in 1..Len(ss) : [ss EXCEPT ![o] = r][i] = IF i = o THEN r ELSE ss[i]
<1> DEFINE tt == [ss EXCEPT ![o] = r]
<1>1. r \in SessionType /\ ss \in Seq(SessionType)
  BY DEF SamePlace, Fates
<1>2. /\ tt \in Seq(SessionType) /\ Len(tt) = Len(ss)
      /\ \A i \in 1..Len(ss) : tt[i] = IF i = o THEN r ELSE ss[i]
  BY <1>1, RecordReplaced
<1>3. ASSUME NEW i \in 1..Len(ss) PROVE SamePlace(ss[i], tt[i])
  <2>1. CASE i = o
    BY <1>2, <2>1
  <2>2. CASE i # o
    <3>1. ss[i] \in SessionType
      BY <1>1
    <3> QED
      BY <1>2, <2>2, <3>1 DEF SamePlace
  <2> QED
    BY <2>1, <2>2
<1> HIDE DEF tt
<1>4. Fates(tb, tt)
  BY <1>2, <1>3, Changed
<1> QED
  BY <1>2, <1>4 DEF tt

\* process_stop of the pipeline of some session.
LEMMA MarkedStopping ==
  ASSUME NEW tb, NEW ss, Fates(tb, ss), NEW p \in 1..Len(ss)
  PROVE  LET tt == [ss EXCEPT ![p].stopping = TRUE]
         IN /\ Fates(tb, tt) /\ Len(tt) = Len(ss)
            /\ \A i \in 1..Len(ss) : tt[i] \in SessionType /\ tt[i].step = ss[i].step
<1> DEFINE r == [ss[p] EXCEPT !.stopping = TRUE]
<1>1. ss \in Seq(SessionType) /\ \A i \in 1..Len(ss) : ss[i] \in SessionType
  BY DEF Fates
<1>2. SamePlace(ss[p], r) /\ r \in SessionType /\ r.step = ss[p].step
  BY <1>1 DEF SamePlace, SessionType
<1>3. [ss EXCEPT ![p].stopping = TRUE] = [ss EXCEPT ![p] = r]
  OBVIOUS
<1> HIDE DEF r
<1>4. /\ Fates(tb, [ss EXCEPT ![p] = r]) /\ Len([ss EXCEPT ![p] = r]) = Len(ss)
      /\ \A i \in 1..Len(ss) : [ss EXCEPT ![p] = r][i] = IF i = p THEN r ELSE ss[i]
  BY <1>2, ChangedOne
<1> QED
  BY <1>1, <1>2, <1>3, <1>4

\* A session that leaves the table for a finaliser or the disk.
LEMMA Retired ==
  ASSUME NEW tb, NEW ss, Fates(tb, ss), NEW id \in Ids, tb[id] # None,
         NEW step \in {"finalize", "persist"}
  PROVE  /\ Fates([tb EXCEPT ![id] = None], Retire(ss, tb[id], step))
         /\ Len(Retire(ss, tb[id], step)) = Len(ss)
<1> DEFINE o == tb[id]
           r == [ss[o] EXCEPT !.step = step, !.retired = @ + 1]
           tt == [ss EXCEPT ![o] = r]
           tc == [tb EXCEPT ![id] = None]
<1>1. /\ o \in 1..Len(ss) /\ ss \in Seq(SessionType) /\ ss[o] \in SessionType
      /\ ss[o].retired = 0 /\ ss[o].id = id
  BY DEF Fates, None
<1>2. r \in SessionType /\ r.step = step /\ r.retired = 1
  <2> DEFINE s == ss[o]
  <2>1. s \in SessionType /\ s.retired = 0 /\ s.retired + 1 = 1
    BY <1>1
  <2> HIDE DEF s
  <2>2. [s EXCEPT !.step = step, !.retired = 1] \in SessionType
    BY <2>1 DEF SessionType, Leaving
  <2>3. [s EXCEPT !.step = step, !.retired = @ + 1] = [s EXCEPT !.step = step, !.retired = 1]
    BY <2>1 DEF SessionType
  <2>4. [s EXCEPT !.step = step, !.retired = 1].step = step /\ [s EXCEPT !.step = step, !.retired = 1].retired = 1
    BY <2>1 DEF SessionType
  <2> QED
    BY <2>2, <2>3, <2>4 DEF s
<1>3. /\ tt \in Seq(SessionType) /\ Len(tt) = Len(ss)
      /\ \A i \in 1..Len(ss) : tt[i] = IF i = o THEN r ELSE ss[i]
  BY <1>1, <1>2, RecordReplaced
<1>4. Retire(ss, o, step) = tt
  BY DEF Retire
<1>5. /\ tc \in [Ids -> 0..Len(tt)] /\ tc[id] = None
      /\ \A i \in Ids : i # id => tc[i] = tb[i]
  BY <1>3 DEF Fates, None
<1>6. \A i \in Ids : i # id => tb[i] # o
  BY <1>1 DEF Fates
<1> HIDE DEF r, tt, tc
<1>7. ASSUME NEW i \in Ids, tc[i] # None
      PROVE  /\ tt[tc[i]].id = i /\ tt[tc[i]].step = "live" /\ tt[tc[i]].retired = 0
             /\ ~tt[tc[i]].detached => tt[tc[i]].active
  <2>1. i # id /\ tc[i] = tb[i] /\ tb[i] # o /\ tb[i] # None
    BY <1>5, <1>6, <1>7
  <2>2. tb[i] \in 1..Len(ss)
    BY <2>1 DEF Fates, None
  <2>3. tt[tc[i]] = ss[tb[i]]
    BY <1>3, <2>1, <2>2
  <2> QED
    BY <2>1, <2>3 DEF Fates
<1>8. ASSUME NEW k \in 1..Len(tt), \A i \in Ids : tc[i] # k
      PROVE  \/ tt[k].step \in Leaving /\ tt[k].retired = 1
             \/ tt[k].step = "replaced" /\ tt[k].retired = 0
  <2>1. CASE k = o
    BY <1>1, <1>2, <1>3, <2>1 DEF Leaving
  <2>2. CASE k # o
    <3>1. \A i \in Ids : tb[i] # k
      BY <1>5, <1>8, <2>2
    <3>2. tt[k] = ss[k]
      BY <1>3, <1>8, <2>2
    <3> QED
      BY <1>3, <1>8, <3>1, <3>2 DEF Fates
  <2> QED
    BY <2>1, <2>2
<1>9. Fates(tc, tt)
  BY <1>3, <1>5, <1>7, <1>8 DEF Fates
<1> QED
  BY <1>3, <1>4, <1>9 DEF tc

\* A session created, and the one that had its id replaced.
LEMMA Created ==
  ASSUME NEW tb, NEW ss, Fates(tb, ss), NEW id \in Ids, Len(ss) < MaxSessions
  PROVE  /\ Fates([tb EXCEPT ![id] = Len(ss) + 1], Append(Replace(ss, tb[id]), NewSession(id)))
         /\ Len(Append(Replace(ss, tb[id]), NewSession(id))) = Len(ss) + 1
<1> DEFINE o == tb[id]
           n == Len(ss)
           rr == Replace(ss, o)
           tt == Append(rr, NewSession(id))
           tc == [tb EXCEPT ![id] = n + 1]
<1>1. n \in Nat /\ ss \in Seq(SessionType) /\ o \in 0..n
  BY DEF Fates
<1>2. /\ rr \in Seq(SessionType) /\ Len(rr) = n
      /\ \A i \in 1..n : i # o => rr[i] = ss[i]
      /\ o # None => rr[o].step = "replaced" /\ rr[o].retired = 0
  <2>1. CASE o = None
    BY <1>1, <2>1 DEF Replace
  <2>2. CASE o # None
    <3> DEFINE r == [ss[o] EXCEPT !.active = FALSE, !.step = "replaced"]
    <3>1. o \in 1..n /\ ss[o] \in SessionType /\ ss[o].retired = 0
      BY <1>1, <2>2 DEF Fates, None
    <3>2. r \in SessionType /\ r.step = "replaced" /\ r.retired = 0
      BY <3>1 DEF SessionType
    <3>3. rr = [ss EXCEPT ![o] = r]
      BY <2>2 DEF Replace
    <3> HIDE DEF r, rr
    <3> QED
      BY <1>1, <3>1, <3>2, <3>3, RecordReplaced
  <2> QED
    BY <2>1, <2>2
<1>3. NewSession(id) \in SessionType
  BY <1>1, LifecycleAssumption DEF NewSession, SessionType, None
<1> HIDE DEF rr
<1>4. /\ tt \in Seq(SessionType) /\ Len(tt) = n + 1 /\ tt[n + 1] = NewSession(id)
      /\ \A i \in 1..n : tt[i] = rr[i]
  BY <1>2, <1>3, AppendProperties
<1>5. /\ tc \in [Ids -> 0..(n + 1)] /\ tc[id] = n + 1
      /\ \A i \in Ids : i # id => tc[i] = tb[i]
  BY <1>1 DEF Fates
<1>6. \A i \in Ids : i # id /\ tb[i] # None => tb[i] # o
  BY DEF Fates
<1> HIDE DEF tt, tc
<1>7. ASSUME NEW i \in Ids, tc[i] # None
      PROVE  /\ tt[tc[i]].id = i /\ tt[tc[i]].step = "live" /\ tt[tc[i]].retired = 0
             /\ ~tt[tc[i]].detached => tt[tc[i]].active
  <2>1. CASE i = id
    BY <1>4, <1>5, <2>1 DEF NewSession
  <2>2. CASE i # id
    <3>1. tc[i] = tb[i] /\ tb[i] # o /\ tb[i] # None
      BY <1>5, <1>6, <1>7, <2>2
    <3>2. tb[i] \in 1..n
      BY <1>1, <3>1 DEF Fates, None
    <3>3. tt[tc[i]] = ss[tb[i]]
      BY <1>2, <1>4, <3>1, <3>2
    <3> QED
      BY <3>1, <3>3 DEF Fates
  <2> QED
    BY <2>1, <2>2
<1>8. ASSUME NEW k \in 1..Len(tt), \A i \in Ids : tc[i] # k
      PROVE  \/ tt[k].step \in Leaving /\ tt[k].retired = 1
             \/ tt[k].step = "replaced" /\ tt[k].retired = 0
  <2>1. k # n + 1 /\ k \in 1..n
    BY <1>1, <1>4, <1>5, <1>8
  <2>2. CASE k = o
    <3>1. o # None
      BY <2>1, <2>2 DEF None
    <3> QED
      BY <1>2, <1>4, <2>1, <2>2, <3>1
  <2>3. CASE k # o
    <3>1. \A i \in Ids : tb[i] # k
      BY <1>5, <1>8, <2>3
    <3>2. tt[k] = ss[k]
      BY <1>2, <1>4, <2>1, <2>3
    <3> QED
      BY <2>1, <3>1, <3>2 DEF Fates
  <2> QED
    BY <2>2, <2>3
<1>9. Fates(tc, tt)
  <2>1. Len(tt) <= MaxSessions
    BY <1>1, <1>4, LifecycleAssumption
  <2> QED
    BY <1>4, <1>5, <1>7, <1>8, <2>1 DEF Fates
<1> QED
  BY <1>4, <1>9 DEF tc, tt, rr

----------------------------------------------------------------------------
(* The connections.                                                        *)

LEMMA ConnMoves ==
  ASSUME NEW cs, NEW n \in Nat, ConnType(cs, n), NEW c \in Conns, NEW p \in ConnPhases, NEW h \in 0..n
  PROVE  /\ (p = "closing" => cs[c].holds # None) => ConnType([cs EXCEPT ![c].phase = p], n)
         /\ h # None => ConnType([cs EXCEPT ![c].holds = h], n)
         /\ p # "closing" => ConnType([cs EXCEPT ![c] = [phase |-> p, holds |-> h]], n)
  BY DEF ConnType

LEMMA ConnGrows ==
  ASSUME NEW cs, NEW n \in Nat, ConnType(cs, n) PROVE ConnType(cs, n + 1)
<1>1. 0..n \subseteq 0..(n + 1)
  OBVIOUS
<1> QED
  BY <1>1 DEF ConnType

\* The session a connection holds.
LEMMA HeldSession ==
  ASSUME IInv, NEW c \in Conns
  PROVE  /\ Len(session) \in Nat /\ conn[c].holds \in 0..Len(session)
         /\ conn[c].holds # None => conn[c].holds \in 1..Len(session) /\ session[conn[c].holds] \in SessionType
<1>1. Len(session) \in Nat /\ session \in Seq(SessionType)
  BY DEF IInv, Fates
<1>2. conn[c].holds \in 0..Len(session)
  BY DEF IInv, ConnType
<1> QED
  BY <1>1, <1>2 DEF None

----------------------------------------------------------------------------
(* The steps.                                                              *)

\* A step that leaves the table alone and changes the record of one session.
LEMMA OneRecord ==
  ASSUME IInv, NEW o \in 1..Len(session), NEW r, SamePlace(session[o], r),
         session' = [session EXCEPT ![o] = r], UNCHANGED <<service, table>>,
         ConnType(conn', Len(session))
  PROVE  IInv'
<1>1. Fates(table, [session EXCEPT ![o] = r]) /\ Len([session EXCEPT ![o] = r]) = Len(session)
  <2>1. Fates(table, session)
    BY DEF IInv
  <2> QED
    BY <2>1, ChangedOne, ZenonT(30)
<1>2. Fates(table', session') /\ ConnType(conn', Len(session'))
  BY <1>1
<1>3. ServiceType'
  BY DEF IInv, ServiceType
<1> QED
  BY <1>2, <1>3 DEF IInv

\* A step of a connection alone.
LEMMA ConnOnly ==
  ASSUME IInv, UNCHANGED <<table, session>>, ConnType(conn', Len(session)), ServiceType'
  PROVE  IInv'
<1>1. Fates(table', session') /\ ConnType(conn', Len(session'))
  BY DEF IInv
<1> QED
  BY <1>1 DEF IInv

LEMMA CreateInv ==
  ASSUME NEW c \in Conns, NEW id \in Ids, NEW tb, NEW ss, Fates(tb, ss), ConnType(conn, Len(ss)),
         CreateSession(c, id, tb, ss)
  PROVE  Fates(table', session') /\ ConnType(conn', Len(session'))
<1>1. /\ Len(ss) < MaxSessions /\ Len(ss) \in Nat
      /\ session' = Append(Replace(ss, tb[id]), NewSession(id))
      /\ table' = [tb EXCEPT ![id] = Len(ss) + 1]
      /\ conn' = [conn EXCEPT ![c].holds = Len(ss) + 1]
  BY DEF CreateSession, Fates
<1>2. Fates(table', session') /\ Len(session') = Len(ss) + 1
  BY <1>1, Created
<1>3. /\ ConnType(conn, Len(ss) + 1) /\ Len(ss) + 1 \in Nat
      /\ Len(ss) + 1 \in 0..(Len(ss) + 1) /\ Len(ss) + 1 # None
  <2>1. ConnType(conn, Len(ss) + 1)
    BY <1>1, ConnGrows
  <2> QED
    BY <1>1, <2>1 DEF None
<1>4. ConnType(conn', Len(ss) + 1)
  <2>1. "open" \in ConnPhases
    BY DEF ConnPhases
  <2> QED
    BY <1>1, <1>3, <2>1, ConnMoves
<1> QED
  BY <1>2, <1>4

LEMMA StartInv ==
  ASSUME IInv, NEW c \in Conns, NEW id \in Ids, Start(c, id) \/ StartResume(c, id)
  PROVE  IInv'
<1>1. service' = service /\ ServiceType'
  BY DEF Start, StartResume, IInv, ServiceType
<1>2. CASE CreateSession(c, id, table, session)
  <2>1. Fates(table', session') /\ ConnType(conn', Len(session'))
    BY <1>2, CreateInv DEF IInv
  <2> QED
    BY <1>1, <2>1 DEF IInv
<1>3. CASE Suspended(table[id]) /\ Reattach(c, table[id])
  <2> DEFINE o == table[id]
             r == [session[o] EXCEPT !.detached = FALSE, !.pipeline = None, !.active = TRUE]
  <2>1. Len(session) \in Nat /\ o \in 1..Len(session) /\ session[o] \in SessionType
    BY <1>3 DEF Suspended, IInv, Fates, None
  <2>2. SamePlace(session[o], r)
    <3>1. session[o].detached
      BY <1>3 DEF Suspended
    <3>2. 0 \in 0..MaxSessions
      BY LifecycleAssumption
    <3>3. r \in SessionType
      BY <2>1, <3>2 DEF SessionType, None
    <3>4. r.id = session[o].id /\ r.retired = session[o].retired /\ r.step = session[o].step /\ r.active
      BY <2>1 DEF SessionType
    <3> HIDE DEF r
    <3> QED
      BY <3>3, <3>4 DEF SamePlace
  <2>3. session' = [session EXCEPT ![o] = r] /\ table' = table /\ conn' = [conn EXCEPT ![c].holds = o]
    BY <1>3 DEF Reattach
  <2>4. ConnType(conn', Len(session))
    <3>1. "open" \in ConnPhases /\ o \in 0..Len(session) /\ o # None /\ ConnType(conn, Len(session))
      BY <2>1 DEF ConnPhases, IInv, None
    <3> QED
      BY <2>1, <2>3, <3>1, ConnMoves
  <2> HIDE DEF o, r
  <2> QED
    BY <1>1, <2>1, <2>2, <2>3, <2>4, OneRecord
<1>4. CASE /\ Suspended(table[id])
           /\ CreateSession(c, id, Pop(id), Retire(session, table[id], "finalize"))
  <2>1. table[id] # None
    BY <1>4 DEF Suspended
  <2>2. /\ Fates(Pop(id), Retire(session, table[id], "finalize"))
        /\ Len(Retire(session, table[id], "finalize")) = Len(session)
    BY <2>1, Retired DEF Pop, IInv
  <2>3. ConnType(conn, Len(Retire(session, table[id], "finalize")))
    BY <2>2 DEF IInv
  <2>4. Fates(table', session') /\ ConnType(conn', Len(session'))
    BY <1>4, <2>2, <2>3, CreateInv
  <2> QED
    BY <1>1, <2>4 DEF IInv
<1> QED
  BY <1>2, <1>3, <1>4 DEF Start, StartResume

LEMMA RemoveInv ==
  ASSUME IInv, NEW c \in Conns, conn[c].holds # None, Remove(c, conn[c].holds), service' = service
  PROVE  IInv'
<1> DEFINE o == conn[c].holds
           id == session[o].id
           t == table[id]
<1>1. /\ Len(session) \in Nat /\ o \in 1..Len(session) /\ id \in Ids /\ t \in 0..Len(session)
      /\ ConnType(conn, Len(session)) /\ ServiceType'
  BY HeldSession DEF SessionType, IInv, Fates, ServiceType
<1>2. {"closed", "removing"} \subseteq ConnPhases /\ None \in 0..Len(session)
  BY <1>1 DEF ConnPhases, None
<1>3. CASE t = None
  <2>1. conn' = [conn EXCEPT ![c] = Gone] /\ UNCHANGED <<table, session>>
    BY <1>3 DEF Remove
  <2>2. ConnType(conn', Len(session))
    BY <1>1, <1>2, <2>1, ConnMoves DEF Gone
  <2> QED
    BY <1>1, <2>1, <2>2, ConnOnly
<1>4. CASE t # None
  <2>1. /\ table' = [table EXCEPT ![id] = None] /\ session' = Retire(session, t, "persist")
        /\ conn' = [conn EXCEPT ![c] = [phase |-> "removing", holds |-> t]]
    BY <1>4 DEF Remove, Pop
  <2>2. Fates(table', session') /\ Len(session') = Len(session)
    BY <1>1, <1>4, <2>1, Retired DEF IInv
  <2>3. ConnType(conn', Len(session))
    BY <1>1, <1>2, <2>1, ConnMoves
  <2> QED
    BY <1>1, <2>2, <2>3 DEF IInv
<1> QED
  BY <1>3, <1>4

\* STOP and a plain START mark the session the connection holds.
LEMMA MarkInv ==
  ASSUME IInv, NEW c \in Conns, conn[c].holds # None, UNCHANGED <<service, table>>,
         ConnType(conn', Len(session)),
         \/ session' = [session EXCEPT ![conn[c].holds].active = TRUE]
         \/ session' = [session EXCEPT ![conn[c].holds].stopping = TRUE]
  PROVE  IInv'
<1> DEFINE o == conn[c].holds
<1>1. o \in 1..Len(session) /\ session[o] \in SessionType
  BY HeldSession
<1>2. CASE session' = [session EXCEPT ![o].active = TRUE]
  <2> DEFINE r == [session[o] EXCEPT !.active = TRUE]
  <2>1. SamePlace(session[o], r)
    BY <1>1 DEF SamePlace, SessionType
  <2>2. session' = [session EXCEPT ![o] = r]
    BY <1>2
  <2> HIDE DEF o, r
  <2> QED
    BY <1>1, <2>1, <2>2, OneRecord
<1>3. CASE session' = [session EXCEPT ![o].stopping = TRUE]
  <2> DEFINE r == [session[o] EXCEPT !.stopping = TRUE]
  <2>1. SamePlace(session[o], r)
    BY <1>1 DEF SamePlace, SessionType
  <2>2. session' = [session EXCEPT ![o] = r]
    BY <1>3
  <2> HIDE DEF o, r
  <2> QED
    BY <1>1, <2>1, <2>2, OneRecord
<1> QED
  BY <1>2, <1>3

LEMMA DetachInv ==
  ASSUME IInv, NEW c \in Conns, conn[c].holds # None, service' = service,
         Detachable(conn[c].holds), Detach(c, conn[c].holds)
  PROVE  IInv'
<1> DEFINE o == conn[c].holds
           t == table[session[o].id]
           r == [session[t] EXCEPT !.detached = TRUE, !.pipeline = o, !.active = FALSE]
<1>1. /\ Len(session) \in Nat /\ o \in 1..Len(session) /\ session[o].id \in Ids
      /\ Len(session) <= MaxSessions
  BY HeldSession DEF SessionType, IInv, Fates
<1>2. t \in 1..Len(session) /\ session[t] \in SessionType
  BY <1>1 DEF Detachable, IInv, Fates, None
<1>3. o \in 0..MaxSessions
  BY <1>1, LifecycleAssumption
<1>4. SamePlace(session[t], r)
  BY <1>2, <1>3 DEF SamePlace, SessionType
<1>5. session' = [session EXCEPT ![t] = r] /\ table' = table /\ conn' = [conn EXCEPT ![c] = Gone]
  BY DEF Detach
<1>6. ConnType(conn', Len(session))
  <2>1. "closed" \in ConnPhases /\ None \in 0..Len(session) /\ ConnType(conn, Len(session))
    BY <1>1 DEF ConnPhases, None, IInv
  <2> QED
    BY <1>1, <1>5, <2>1, ConnMoves DEF Gone
<1> HIDE DEF r, t
<1> QED
  BY <1>2, <1>4, <1>5, <1>6, OneRecord

LEMMA ConnectionInv ==
  ASSUME IInv, NEW c \in Conns,
         \/ OpenConnection(c) \/ StartAgain(c) \/ StopMessage(c) \/ StopReturns(c)
         \/ Disconnect(c) \/ CloseReturns(c)
  PROVE  IInv'
<1>1. /\ Len(session) \in Nat /\ ConnType(conn, Len(session)) /\ None \in 0..Len(session)
      /\ ConnPhases = {"new", "open", "in_stop", "closing", "removing", "closed"} /\ ServiceType
  BY HeldSession DEF IInv, ConnPhases, None
<1>2. \A p \in ConnPhases : (p = "closing" => conn[c].holds # None) =>
        ConnType([conn EXCEPT ![c].phase = p], Len(session))
  BY <1>1, ConnMoves
<1>3. ConnType([conn EXCEPT ![c] = Gone], Len(session))
  BY <1>1, ConnMoves DEF Gone
<1>4. CASE OpenConnection(c)
  <2>1. ConnType(conn', Len(session)) /\ ServiceType' /\ UNCHANGED <<table, session>>
    BY <1>1, <1>2, <1>4 DEF OpenConnection, ServiceType
  <2> QED
    BY <2>1, ConnOnly
<1>5. CASE StopReturns(c)
  <2>1. ConnType(conn', Len(session)) /\ ServiceType' /\ UNCHANGED <<table, session>>
    BY <1>1, <1>2, <1>5 DEF StopReturns, ServiceType
  <2> QED
    BY <2>1, ConnOnly
<1>6. CASE StartAgain(c)
  BY <1>1, <1>6, MarkInv DEF StartAgain
<1>7. CASE StopMessage(c)
  <2>1. ConnType(conn', Len(session))
    BY <1>1, <1>2, <1>7 DEF StopMessage
  <2> QED
    BY <1>7, <2>1, MarkInv DEF StopMessage
<1>8. CASE Disconnect(c)
  <2> DEFINE o == conn[c].holds
  <2>1. CASE conn' = [conn EXCEPT ![c] = Gone] /\ UNCHANGED <<service, table, session>>
    BY <1>1, <1>3, <2>1, ConnOnly DEF ServiceType
  <2>2. CASE o # None /\ Detachable(o) /\ Detach(c, o) /\ service' = service
    BY <2>2, DetachInv
  <2>3. CASE /\ o # None /\ session' = [session EXCEPT ![o].stopping = TRUE]
             /\ conn' = [conn EXCEPT ![c].phase = "closing"] /\ UNCHANGED <<service, table>>
    <3>1. ConnType(conn', Len(session))
      BY <1>1, <1>2, <2>3
    <3> QED
      BY <2>3, <3>1, MarkInv
  <2>4. CASE o # None /\ Remove(c, o) /\ service' = service
    BY <2>4, RemoveInv
  <2> QED
    BY <1>8, <2>1, <2>2, <2>3, <2>4 DEF Disconnect
<1>9. CASE CloseReturns(c)
  <2>1. conn[c].holds # None
    BY <1>1, <1>9 DEF CloseReturns, ConnType
  <2> QED
    BY <1>9, <2>1, RemoveInv DEF CloseReturns
<1> QED
  BY <1>4, <1>5, <1>6, <1>7, <1>8, <1>9

LEMMA MaintainInv == ASSUME IInv, NEW o \in Sessions, Maintain(o) PROVE IInv'
<1> DEFINE id == session[o].id
<1>1. PICK i \in Ids : table[i] = o
  BY DEF Maintain, Expire, EvictIdle, InTable
<1>2. o # None
  BY DEF Sessions, None, IInv, Fates
<1>3. id = i /\ table[id] = o
  BY <1>1, <1>2 DEF IInv, Fates
<1>4. PICK step \in {"finalize", "persist"} :
        /\ session' = Retire(session, o, step)
        /\ table' = [table EXCEPT ![id] = None] /\ UNCHANGED <<service, conn>>
  BY DEF Maintain, Expire, EvictIdle, Pop
<1>5. Fates(table', session') /\ Len(session') = Len(session)
  <2>1. Fates(table, session) /\ id \in Ids /\ table[id] # None
    BY <1>1, <1>2, <1>3 DEF IInv
  <2> HIDE DEF id
  <2>2. /\ Fates([table EXCEPT ![id] = None], Retire(session, table[id], step))
        /\ Len(Retire(session, table[id], step)) = Len(session)
    BY <2>1, Retired
  <2> QED
    BY <1>3, <1>4, <2>2
<1> QED
  BY <1>4, <1>5 DEF IInv, ServiceType

\* On its way to the disk a session takes the next step, and no other.
LEMMA RetirementInv == ASSUME IInv, NEW o \in Sessions, Retirement(o) PROVE IInv'
<1>1. /\ o \in 1..Len(session) /\ Len(session) \in Nat
      /\ \A i \in 1..Len(session) : session[i] \in SessionType
      /\ ConnType(conn, Len(session)) /\ service' = service /\ ServiceType'
  BY DEF Sessions, IInv, Fates, ServiceType, Retirement, FinalizeBegins, FinalizeReturns, Persist, CleanUp
<1>2. CASE FinalizeBegins(o)
  <2> DEFINE p == session[o].pipeline
             mid == IF p \in 1..Len(session) THEN [session EXCEPT ![p].stopping = TRUE] ELSE session
  <2>1. PICK step \in {"persist", "stopping"} :
          session' = [session EXCEPT ![p].stopping = TRUE, ![o].step = step]
    BY <1>2 DEF FinalizeBegins
  <2>2. session[o].step = "finalize" /\ UNCHANGED <<table, conn>>
    BY <1>2 DEF FinalizeBegins
  <2>3. /\ Fates(table, mid) /\ Len(mid) = Len(session)
        /\ mid[o] \in SessionType /\ mid[o].step = "finalize"
    <3>1. Fates(table, session)
      BY DEF IInv
    <3>2. CASE p \in 1..Len(session)
      BY <1>1, <2>2, <3>1, <3>2, MarkedStopping
    <3>3. CASE p \notin 1..Len(session)
      BY <1>1, <2>2, <3>1, <3>3
    <3> QED
      BY <3>2, <3>3
  <2>4. session' = [mid EXCEPT ![o].step = step]
    <3>1. DOMAIN session = 1..Len(session) /\ session = [i \in 1..Len(session) |-> session[i]]
      BY <1>1 DEF IInv, Fates
    <3>2. CASE p \in 1..Len(session)
      BY <2>1, <3>2
    <3>3. CASE p \notin 1..Len(session)
      BY <2>1, <3>1, <3>3
    <3> QED
      BY <3>2, <3>3
  <2> DEFINE r == [mid[o] EXCEPT !.step = step]
  <2> HIDE DEF p, mid
  <2>5. SamePlace(mid[o], r)
    BY <2>3 DEF SamePlace, SessionType, Leaving
  <2>6. session' = [mid EXCEPT ![o] = r]
    BY <2>4
  <2> HIDE DEF r
  <2>7. Fates(table, session') /\ Len(session') = Len(session)
    <3>1. o \in 1..Len(mid)
      BY <1>1, <2>3
    <3>2. Fates(table, [mid EXCEPT ![o] = r]) /\ Len([mid EXCEPT ![o] = r]) = Len(mid)
      BY <2>3, <2>5, <3>1, ChangedOne
    <3> QED
      BY <2>2, <2>3, <2>6, <3>2
  <2> QED
    BY <1>1, <2>2, <2>7 DEF IInv
<1>3. CASE FinalizeReturns(o) \/ Persist(o)
  <2>1. PICK step \in {"persist", "cleanup"} :
          /\ session' = [session EXCEPT ![o].step = step] /\ session[o].step \in {"stopping", "persist"}
          /\ UNCHANGED <<table, conn>>
    BY <1>3 DEF FinalizeReturns, Persist
  <2> DEFINE r == [session[o] EXCEPT !.step = step]
  <2>2. SamePlace(session[o], r)
    BY <1>1, <2>1 DEF SamePlace, SessionType, Leaving
  <2>3. session' = [session EXCEPT ![o] = r]
    BY <2>1
  <2> HIDE DEF r
  <2> QED
    BY <1>1, <2>1, <2>2, <2>3, OneRecord
<1>4. CASE CleanUp(o)
  <2> DEFINE r == [session[o] EXCEPT !.step = "done", !.active = FALSE]
  <2>1. /\ session' = [session EXCEPT ![o] = r] /\ session[o].step = "cleanup" /\ table' = table
        /\ conn' = [c \in Conns |-> IF conn[c] = [phase |-> "removing", holds |-> o] THEN Gone ELSE conn[c]]
    BY <1>4 DEF CleanUp
  <2>2. SamePlace(session[o], r)
    BY <1>1, <2>1 DEF SamePlace, SessionType, Leaving
  <2>3. ConnType(conn', Len(session))
    <3>1. Gone \in [phase : ConnPhases, holds : 0..Len(session)] /\ Gone.phase # "closing"
      BY <1>1 DEF Gone, ConnPhases, None
    <3> QED
      BY <1>1, <2>1, <3>1 DEF ConnType
  <2> HIDE DEF r
  <2> QED
    BY <1>1, <2>1, <2>2, <2>3, OneRecord
<1> QED
  BY <1>2, <1>3, <1>4 DEF Retirement

LEMMA InitInv == Init => IInv
<1> SUFFICES ASSUME Init PROVE IInv
  OBVIOUS
<1>1. Len(session) = 0 /\ session \in Seq(SessionType) /\ 0 <= MaxSessions
  BY LifecycleAssumption DEF Init
<1>2. Fates(table, session)
  BY <1>1 DEF Init, Fates, None
<1>3. ConnType(conn, 0)
  BY DEF Init, ConnType, ConnPhases, None
<1> QED
  BY <1>1, <1>2, <1>3 DEF IInv, Init, ServiceType

LEMMA NextInv == IInv /\ [Next]_vars => IInv'
<1> SUFFICES ASSUME IInv, [Next]_vars PROVE IInv'
  OBVIOUS
<1>1. ASSUME NEW c \in Conns, NEW id \in Ids, Start(c, id) \/ StartResume(c, id) PROVE IInv'
  BY <1>1, StartInv
<1>2. ASSUME NEW c \in Conns,
             \/ OpenConnection(c) \/ StartAgain(c) \/ StopMessage(c) \/ StopReturns(c)
             \/ Disconnect(c) \/ CloseReturns(c)
      PROVE  IInv'
  BY <1>2, ConnectionInv
<1>3. ASSUME NEW o \in Sessions, Maintain(o) PROVE IInv'
  BY <1>3, MaintainInv
<1>4. ASSUME NEW o \in Sessions, Retirement(o) PROVE IInv'
  BY <1>4, RetirementInv
<1>5. CASE Shutdown \/ Exit \/ Over \/ UNCHANGED vars
  <2>1. UNCHANGED <<table, session, conn>> /\ ServiceType'
    BY <1>5 DEF Shutdown, Exit, Over, vars, IInv, ServiceType
  <2> QED
    BY <2>1, ConnOnly DEF IInv
<1> QED
  BY <1>1, <1>2, <1>3, <1>4, <1>5 DEF Next

----------------------------------------------------------------------------
(* Theorems.                                                               *)

LEMMA Invariant == Spec => []IInv
  BY InitInv, NextInv, PTL DEF Spec

\* Table and connections name sessions that exist, in every reachable state, for any ids,
\* connections and sessions.
THEOREM LifecycleTypeCorrect == Spec => []TypeOK
  BY Invariant, IInvIsEnough, PTL

\* Whoever races for a session, it is in the table under its own id, or retired once, or
\* replaced: none is saved twice and none is lost track of.
THEOREM EachHasOneFate == Spec => []OneFate
  BY Invariant, IInvIsEnough, PTL

\* No session that a client may be streaming to drops what it receives: in the table it is
\* active or detached.
THEOREM TableAlwaysActive == Spec => []TableIsActive
  BY Invariant, IInvIsEnough, PTL
============================================================================

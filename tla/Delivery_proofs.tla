----------------------------- MODULE Delivery_proofs -----------------------------
(***************************************************************************)
(* What a client can rely on, for any number of connections, sentences and *)
(* replies and any size of the queues: finals follow their provisionals,   *)
(* once, and the transcript holds every final that was sent.               *)
(*                                                                         *)
(* What a connection receives is what its send loop has taken from its     *)
(* queue, so that the order of the messages is an invariant of both, as    *)
(* long as the loop runs; that a message may be put at the end follows     *)
(* from where the handlers and the second passes are.                      *)
(***************************************************************************)
EXTENDS Delivery, SequenceTheorems, TLAPS

\* The invariant, part by part.  Types, with the domains of the functions.
Sessions ==
  [status : {"new", "attached", "detached", "expired", "over"}, holder : 0..MaxConns,
   stopping : BOOLEAN, cut : 0..MaxSentences, done : SUBSET Ids]
Tasks == [at : {"none", "runs", "puts", "ended"}, of : 0..MaxConns, queue : {"own", "fresh"}]
Handlers == [at : {"none", "idle", "busy", "gone", "finalising"}, todo : Seq(Messages)]
Bounded(q) == q \in [Conns -> Seq(Messages)] /\ \A c \in Conns : Len(q[c]) <= Cap

Typed ==
  /\ handler \in [Conns -> Handlers] /\ session \in Sessions /\ task \in [Ids -> Tasks]
  /\ sender \in [Conns -> BOOLEAN] /\ lost \in [Conns -> BOOLEAN]
  /\ Bounded(own) /\ Bounded(fresh) /\ got \in [Conns -> Seq(Messages)]
  /\ replies \in 0..MaxReplies

\* The session has one handler or finaliser at a time.
Turns(h, sn, ss) ==
  /\ \A c \in Conns : h[c].at \in {"idle", "busy"} => ss.status = "attached" /\ ss.holder = c
  /\ \A c \in Conns : h[c].at = "finalising" => ss.status = "expired" /\ ss.holder = c
  /\ \A c \in Conns : h[c].at \notin {"busy", "finalising"} => h[c].todo = <<>>
  /\ \A c \in Conns : sn[c] => h[c].at \in {"idle", "busy"}
  /\ ss.stopping => ss.status \notin {"new", "detached"}
  /\ ss.status # "new" => ss.holder \in Conns

\* Second passes in flight.
Pends(t) == {i \in Ids : t[i].at \in {"runs", "puts"}}

\* What a handler or finaliser still has to do.
Plan(todo, ss, t) ==
  \/ todo = <<>> \/ todo = <<Reply>>
  \/ \E n \in 0..MaxSentences : todo = <<Resumed(n)>>
  \/ /\ ss.cut \in Ids /\ t[ss.cut].at = "none"
     /\ todo \in {<<Provisional(ss.cut)>>, <<Provisional(ss.cut), Reply>>}
  \/ /\ ss.cut \in Ids /\ t[ss.cut].at = "none" /\ ss.stopping
     /\ todo = <<Provisional(ss.cut), Wait, Finished({})>>
  \/ ss.stopping /\ todo = <<Wait, Finished({})>>
  \/ ss.stopping /\ todo = <<Finished({})>> /\ Pends(t) = {}

\* Nothing has come before the first message of a connection.
Untouched(hc) == hc.at = "none" \/ \E n \in 0..MaxSentences : hc.todo = <<Resumed(n)>>

Opening(h, ow, gt, t) ==
  \A c \in Conns : Untouched(h[c]) =>
    /\ ow[c] = <<>> /\ gt[c] = <<>>
    /\ \A i \in Ids : t[i].at # "none" => t[i].of # c

Cuts(ss, t) ==
  /\ \A i \in Ids : t[i].at # "none" => t[i].of \in Conns /\ i <= ss.cut
  /\ \A i \in Ids : t[i].at = "puts" => i \in ss.done

\* Nothing but replies comes after the transcript.
Closed(h, ss, t) ==
  ss.stopping /\ Pends(t) = {} /\ \A d \in Conns : h[d].todo = <<>> \/ h[d].todo = <<Reply>>

\* A message in the queue of c, or received on it.
Explained(c, m, h, ss, t) ==
  /\ \A i \in Ids : m = Provisional(i) => t[i].at # "none" /\ t[i].of = c
  /\ \A i \in Ids : m = Final(i) => t[i].at = "ended" /\ i \in ss.done
  /\ m.type = "finished" => m.about = ss.done /\ Closed(h, ss, t)

Content(h, ss, t, ow, fr, gt) ==
  \A c \in Conns :
    /\ \A k \in DOMAIN ow[c] : Explained(c, ow[c][k], h, ss, t)
    /\ \A k \in DOMAIN gt[c] : Explained(c, gt[c][k], h, ss, t)
    /\ \A k \in DOMAIN fr[c] : \A i \in Ids : fr[c][k] = Final(i) => i \in ss.done

\* m may come before n on one connection.
Precedes(m, n) ==
  n # Reply =>
    /\ m # n /\ m.type # "finished"
    /\ \A h, i \in Ids : m = Provisional(h) /\ n = Provisional(i) => h < i

Ordered(q) == \A j, k \in DOMAIN q : j < k => Precedes(q[j], q[k])

\* What c has received, and as long as its send loop runs what it will receive.
Line(g, q, running, c, t) ==
  /\ Ordered(g) /\ \A k \in DOMAIN g : g[k] # Reply
  /\ \A i \in Ids : \A k \in DOMAIN g : g[k] = Final(i) => \E j \in DOMAIN g : j < k /\ g[j] = Provisional(i)
  /\ running =>
       /\ Ordered(q) /\ \A j \in DOMAIN g, k \in DOMAIN q : Precedes(g[j], q[k])
       /\ \A i \in Ids : \A k \in DOMAIN q : q[k] = Final(i) =>
            \/ \E j \in DOMAIN g : g[j] = Provisional(i)
            \/ \E j \in DOMAIN q : j < k /\ q[j] = Provisional(i)
       /\ \A i \in Ids : t[i].at # "none" /\ t[i].of = c =>
            \/ \E j \in DOMAIN g : g[j] = Provisional(i)
            \/ \E j \in DOMAIN q : q[j] = Provisional(i)

Lines(sn, t, ow, gt) == \A c \in Conns : Line(gt[c], ow[c], sn[c], c, t)

Plans(h, ss, t) == \A c \in Conns : Plan(h[c].todo, ss, t)

IInv ==
  /\ Typed
  /\ Turns(handler, sender, session)
  /\ Plans(handler, session, task)
  /\ Opening(handler, own, got, task)
  /\ Cuts(session, task)
  /\ Content(handler, session, task, own, fresh, got)
  /\ Lines(sender, task, own, got)

----------------------------------------------------------------------------
(* Messages and programs.                                                  *)

LEMMA Bounds == MaxConns \in Nat /\ MaxSentences \in Nat /\ MaxReplies \in Nat /\ Cap \in Nat /\ Cap > 0
BY BoundAssumption

LEMMA Kinds ==
  /\ \A i, h : Provisional(i) = Provisional(h) => i = h
  /\ \A i, h : Final(i) = Final(h) => i = h
  /\ \A i, h : Provisional(i) # Final(h)
  /\ \A i : Provisional(i).type = "provisional" /\ Final(i).type = "final"
  /\ \A n : Resumed(n).type = "resumed"
  /\ \A d : Finished(d).type = "finished" /\ Finished(d).about = d
  /\ Reply.type = "reply" /\ Wait.type = "wait"
<1>1. ASSUME NEW i, NEW h, Provisional(i) = Provisional(h) PROVE i = h
  <2>1. Provisional(i).about = {i} /\ Provisional(h).about = {h}
    BY DEF Provisional, Msg
  <2> QED BY <1>1, <2>1
<1>2. ASSUME NEW i, NEW h, Final(i) = Final(h) PROVE i = h
  <2>1. Final(i).about = {i} /\ Final(h).about = {h}
    BY DEF Final, Msg
  <2> QED BY <1>2, <2>1
<1>3. \A i : Provisional(i).type = "provisional" /\ Final(i).type = "final"
  BY DEF Provisional, Final, Msg
<1>4. \A n : Resumed(n).type = "resumed"
  BY DEF Resumed, Msg
<1>5. \A d : Finished(d).type = "finished" /\ Finished(d).about = d
  BY DEF Finished, Msg
<1>6. Reply.type = "reply" /\ Wait.type = "wait"
  BY DEF Reply, Wait, Msg
<1>7. \A i, h : Provisional(i) # Final(h)
  BY <1>3
<1> QED BY <1>1, <1>2, <1>3, <1>4, <1>5, <1>6, <1>7

LEMMA MessageTypes ==
  /\ \A i \in Ids : Provisional(i) \in Messages /\ Final(i) \in Messages
  /\ \A n \in 0..MaxSentences : Resumed(n) \in Messages
  /\ \A d \in SUBSET Ids : Finished(d) \in Messages
  /\ Finished({}) \in Messages /\ Reply \in Messages /\ Wait \in Messages
<1>1. \A n \in 0..MaxSentences : 1..n \subseteq Ids
  BY Bounds DEF Ids
<1> QED BY <1>1 DEF Provisional, Final, Resumed, Finished, Reply, Wait, Msg, Messages

LEMMA Times == \A x : [k \in 1..0 |-> x] = <<>> /\ [k \in 1..1 |-> x] = <<x>>
OBVIOUS

LEMMA Joined ==
  /\ \A x \in Messages : <<>> \o <<x>> = <<x>> /\ <<x>> \o <<>> = <<x>>
  /\ \A x, y \in Messages : <<>> \o <<x, y>> = <<x, y>> /\ <<x>> \o <<y>> = <<x, y>>
  /\ \A x, y, z \in Messages : <<x>> \o <<y, z>> = <<x, y, z>>
<1>1. ASSUME NEW x \in Messages PROVE <<>> \o <<x>> = <<x>> /\ <<x>> \o <<>> = <<x>>
  <2>1. <<x>> \in Seq(Messages)
    OBVIOUS
  <2> QED BY <2>1, ConcatEmptySeq
<1>2. ASSUME NEW x \in Messages, NEW y \in Messages
      PROVE  <<>> \o <<x, y>> = <<x, y>> /\ <<x>> \o <<y>> = <<x, y>>
  <2>1. <<x>> \in Seq(Messages) /\ <<x, y>> \in Seq(Messages)
    OBVIOUS
  <2>2. <<x>> \o <<y>> = Append(<<x>>, y)
    BY <2>1, AppendIsConcat
  <2>3. Append(<<x>>, y) = <<x, y>>
    <3> DEFINE p == Append(<<x>>, y)
               q == <<x, y>>
    <3>1. p \in Seq(Messages) /\ Len(p) = 2 /\ p[1] = x /\ p[2] = y
      OBVIOUS
    <3>2. q \in Seq(Messages) /\ Len(q) = 2 /\ q[1] = x /\ q[2] = y
      OBVIOUS
    <3> HIDE DEF p, q
    <3>3. \A i \in 1..Len(p) : p[i] = q[i]
      <4>1. \A i \in 1..2 : i = 1 \/ i = 2
        OBVIOUS
      <4> QED BY <3>1, <3>2, <4>1
    <3>4. p = q
      BY <3>1, <3>2, <3>3, SeqEqual
    <3> QED BY <3>4 DEF p, q
  <2>4. <<>> \o <<x, y>> = <<x, y>>
    BY <2>1, ConcatEmptySeq
  <2> QED BY <2>2, <2>3, <2>4
<1>3. ASSUME NEW x \in Messages, NEW y \in Messages, NEW z \in Messages
      PROVE  <<x>> \o <<y, z>> = <<x, y, z>>
  <2>1. <<x>> \in Seq(Messages) /\ <<x, y>> \in Seq(Messages) /\ <<y>> \in Seq(Messages)
        /\ <<z>> \in Seq(Messages)
    OBVIOUS
  <2>2. (<<x>> \o <<y>>) \o <<z>> = <<x>> \o (<<y>> \o <<z>>)
    BY <2>1, ConcatAssociative
  <2>3. <<x>> \o <<y>> = <<x, y>> /\ <<y>> \o <<z>> = <<y, z>>
    BY <1>2
  <2>4. <<x, y>> \o <<z>> = Append(<<x, y>>, z)
    BY <2>1, AppendIsConcat
  <2>5. Append(<<x, y>>, z) = <<x, y, z>>
    <3> DEFINE p == Append(<<x, y>>, z)
               q == <<x, y, z>>
    <3>1. p \in Seq(Messages) /\ Len(p) = 3 /\ p[1] = x /\ p[2] = y /\ p[3] = z
      OBVIOUS
    <3>2. q \in Seq(Messages) /\ Len(q) = 3 /\ q[1] = x /\ q[2] = y /\ q[3] = z
      OBVIOUS
    <3> HIDE DEF p, q
    <3>3. \A i \in 1..Len(p) : p[i] = q[i]
      <4>1. \A i \in 1..3 : i = 1 \/ i = 2 \/ i = 3
        OBVIOUS
      <4> QED BY <3>1, <3>2, <4>1
    <3>4. p = q
      BY <3>1, <3>2, <3>3, SeqEqual
    <3> QED BY <3>4 DEF p, q
  <2> QED BY <2>2, <2>3, <2>4, <2>5
<1> QED BY <1>1, <1>2, <1>3

LEMMA Heads ==
  /\ \A x : Head(<<x>>) = x /\ Tail(<<x>>) = <<>> /\ <<x>> # <<>>
  /\ \A x, y : Head(<<x, y>>) = x /\ Tail(<<x, y>>) = <<y>> /\ <<x, y>> # <<>>
  /\ \A x, y, z : Head(<<x, y, z>>) = x /\ Tail(<<x, y, z>>) = <<y, z>> /\ <<x, y, z>> # <<>>
OBVIOUS

\* The messages of a plan.
LEMMA PlanTypes ==
  ASSUME NEW todo, NEW ss \in Sessions, NEW t, Plan(todo, ss, t)
  PROVE  todo \in Seq(Messages)
<1>1. ss.cut \in Ids => Provisional(ss.cut) \in Messages
  BY MessageTypes
<1>2. \A n \in 0..MaxSentences : Resumed(n) \in Messages
  BY MessageTypes
<1>3. Finished({}) \in Messages /\ Reply \in Messages /\ Wait \in Messages
  BY MessageTypes
<1>4. /\ <<>> \in Seq(Messages) /\ \A x \in Messages : <<x>> \in Seq(Messages)
      /\ \A x, y \in Messages : <<x, y>> \in Seq(Messages)
      /\ \A x, y, z \in Messages : <<x, y, z>> \in Seq(Messages)
  OBVIOUS
<1> QED BY <1>1, <1>2, <1>3, <1>4, ZenonT(60) DEF Plan

\* What is left of it when its first item is done.
LEMMA PlanHead ==
  ASSUME NEW todo, NEW ss, NEW t, Plan(todo, ss, t), todo # <<>>
  PROVE  \/ Head(todo) = Reply /\ Tail(todo) = <<>>
         \/ \E n \in 0..MaxSentences : todo = <<Resumed(n)>> /\ Head(todo) = Resumed(n) /\ Tail(todo) = <<>>
         \/ /\ ss.cut \in Ids /\ t[ss.cut].at = "none" /\ Head(todo) = Provisional(ss.cut)
            /\ \/ Tail(todo) = <<>> \/ Tail(todo) = <<Reply>>
               \/ ss.stopping /\ Tail(todo) = <<Wait, Finished({})>>
         \/ ss.stopping /\ Head(todo) = Wait /\ Tail(todo) = <<Finished({})>>
         \/ ss.stopping /\ Head(todo) = Finished({}) /\ Tail(todo) = <<>> /\ Pends(t) = {}
<1>1. CASE todo = <<Reply>>
  BY <1>1, Heads
<1>2. CASE \E n \in 0..MaxSentences : todo = <<Resumed(n)>>
  BY <1>2, Heads
<1>3. CASE /\ ss.cut \in Ids /\ t[ss.cut].at = "none"
           /\ todo \in {<<Provisional(ss.cut)>>, <<Provisional(ss.cut), Reply>>}
  <2>1. CASE todo = <<Provisional(ss.cut)>>
    BY <1>3, <2>1, Heads, Zenon
  <2>2. CASE todo = <<Provisional(ss.cut), Reply>>
    BY <1>3, <2>2, Heads, Zenon
  <2> QED BY <1>3, <2>1, <2>2
<1>4. CASE /\ ss.cut \in Ids /\ t[ss.cut].at = "none" /\ ss.stopping
           /\ todo = <<Provisional(ss.cut), Wait, Finished({})>>
  BY <1>4, Heads
<1>5. CASE ss.stopping /\ todo = <<Wait, Finished({})>>
  BY <1>5, Heads
<1>6. CASE ss.stopping /\ todo = <<Finished({})>> /\ Pends(t) = {}
  BY <1>6, Heads
<1> QED BY <1>1, <1>2, <1>3, <1>4, <1>5, <1>6 DEF Plan

----------------------------------------------------------------------------
(* Steps that put nothing into a queue.                                    *)

\* Second passes end, or go on.
Ends(t, u) ==
  \A i \in Ids :
    /\ u[i].of = t[i].of /\ u[i].queue = t[i].queue
    /\ u[i].at = t[i].at \/ (t[i].at \in {"runs", "puts"} /\ u[i].at = "ended")

LEMMA EndsSame == ASSUME NEW t PROVE Ends(t, t)
BY DEF Ends

LEMMA CancelledEnds ==
  ASSUME NEW t \in [Ids -> Tasks], t = task
  PROVE  Ends(task, Cancelled(task)) /\ Cancelled(task) \in [Ids -> Tasks] /\ Pends(Cancelled(task)) = {}
<1> DEFINE u == Cancelled(task)
<1>1. task \in [Ids -> Tasks]
  OBVIOUS
<1>2. ASSUME NEW i \in Ids
      PROVE  /\ u[i] \in Tasks /\ u[i].of = task[i].of /\ u[i].queue = task[i].queue
             /\ u[i].at = IF task[i].at \in {"runs", "puts"} THEN "ended" ELSE task[i].at
  <2>1. u[i] = IF task[i].at \in {"runs", "puts"} THEN [task[i] EXCEPT !.at = "ended"] ELSE task[i]
    BY DEF Cancelled, Pending
  <2>2. task[i] \in Tasks
    BY <1>1
  <2> HIDE DEF u
  <2> QED BY <2>1, <2>2 DEF Tasks
<1>3. u = [i \in Ids |-> u[i]]
  BY DEF Cancelled
<1> HIDE DEF u
<1>4. u \in [Ids -> Tasks]
  BY <1>2, <1>3
<1>5. Ends(task, u)
  BY <1>2 DEF Ends
<1>6. Pends(u) = {}
  BY <1>2 DEF Pends
<1> QED BY <1>4, <1>5, <1>6 DEF u

LEMMA ContentKept ==
  ASSUME NEW h, NEW ss, NEW t, NEW g, NEW rr, NEW u, NEW ow, NEW fr, NEW gt,
         Content(h, ss, t, ow, fr, gt), Ends(t, u), rr.done = ss.done,
         Closed(h, ss, t) => Closed(g, rr, u)
  PROVE  Content(g, rr, u, ow, fr, gt)
<1>1. ASSUME NEW c, NEW m, Explained(c, m, h, ss, t) PROVE Explained(c, m, g, rr, u)
  <2>1. \A i \in Ids : m = Provisional(i) => u[i].at # "none" /\ u[i].of = c
    BY <1>1 DEF Explained, Ends
  <2>2. \A i \in Ids : m = Final(i) => u[i].at = "ended" /\ i \in rr.done
    BY <1>1 DEF Explained, Ends
  <2>3. m.type = "finished" => m.about = rr.done /\ Closed(g, rr, u)
    BY <1>1 DEF Explained
  <2> QED BY <2>1, <2>2, <2>3 DEF Explained
<1> QED BY <1>1 DEF Content

LEMMA LinesKept ==
  ASSUME NEW sn, NEW rn, NEW t, NEW u, NEW ow, NEW gt, Lines(sn, t, ow, gt), Ends(t, u),
         \A c \in Conns : rn[c] => sn[c]
  PROVE  Lines(rn, u, ow, gt)
<1>1. \A i \in Ids : u[i].of = t[i].of /\ (u[i].at # "none" => t[i].at # "none")
  BY DEF Ends
<1> SUFFICES ASSUME NEW c \in Conns PROVE Line(gt[c], ow[c], rn[c], c, u)
  BY DEF Lines
<1>2. Line(gt[c], ow[c], sn[c], c, t)
  BY DEF Lines
<1>3. rn[c] => sn[c]
  OBVIOUS
<1> QED BY <1>1, <1>2, <1>3 DEF Line

LEMMA CutsKept ==
  ASSUME NEW ss, NEW rr, NEW t, NEW u, Cuts(ss, t), Ends(t, u), rr.done = ss.done,
         ss.cut \in Nat, rr.cut \in Nat, ss.cut <= rr.cut
  PROVE  Cuts(rr, u)
<1>1. \A i \in Ids : u[i].of = t[i].of /\ (u[i].at # "none" => t[i].at # "none")
                     /\ (u[i].at = "puts" => t[i].at = "puts")
  BY DEF Ends
<1>2. \A i \in Ids : i \in Nat
  BY DEF Ids
<1>3. \A i \in Ids : i <= ss.cut => i <= rr.cut
  BY <1>2
<1> QED BY <1>1, <1>3 DEF Cuts

LEMMA OpeningKept ==
  ASSUME NEW h, NEW g, NEW t, NEW u, NEW ow, NEW gt, Opening(h, ow, gt, t), Ends(t, u),
         \A c \in Conns : Untouched(g[c]) => Untouched(h[c])
  PROVE  Opening(g, ow, gt, u)
<1>1. \A i \in Ids : u[i].of = t[i].of /\ (u[i].at # "none" => t[i].at # "none")
  BY DEF Ends
<1> QED BY <1>1 DEF Opening

\* While one handler is at work the others have nothing to do.
LEMMA Others ==
  ASSUME NEW h, NEW sn, NEW ss, Turns(h, sn, ss), NEW c \in Conns,
         h[c].at \in {"idle", "busy", "finalising"}, NEW d \in Conns, d # c
  PROVE  h[d].at \notin {"idle", "busy", "finalising"} /\ h[d].todo = <<>> /\ ~sn[d]
BY DEF Turns

LEMMA NoneAtWork ==
  ASSUME NEW h, NEW sn, NEW ss, Turns(h, sn, ss), ss.status \notin {"attached", "expired"},
         NEW d \in Conns
  PROVE  h[d].at \notin {"idle", "busy", "finalising"} /\ h[d].todo = <<>> /\ ~sn[d]
BY DEF Turns

LEMMA PlanNothing == ASSUME NEW ss, NEW t PROVE Plan(<<>>, ss, t) /\ Plan(<<Reply>>, ss, t)
BY DEF Plan

\* A message about to be put, or a wait, is neither a reply nor nothing.
LEMMA NotReplies ==
  /\ \A x, y : <<x, y>> # <<>> /\ <<x, y>> # <<Reply>>
  /\ \A x, y, z : <<x, y, z>> # <<>> /\ <<x, y, z>> # <<Reply>>
  /\ \A i : <<Provisional(i)>> # <<>> /\ <<Provisional(i)>> # <<Reply>>
  /\ \A n : <<Resumed(n)>> # <<>> /\ <<Resumed(n)>> # <<Reply>>
  /\ \A d : <<Finished(d)>> # <<>> /\ <<Finished(d)>> # <<Reply>>
  /\ <<Reply>> # <<>> /\ \A n : <<Reply>> # <<Resumed(n)>> /\ <<>> # <<Resumed(n)>>
  /\ \A x, y, n : <<x, y>> # <<Resumed(n)>>
  /\ \A x, y, z, n : <<x, y, z>> # <<Resumed(n)>>
  /\ \A i, n : <<Provisional(i)>> # <<Resumed(n)>>
  /\ \A d, n : <<Finished(d)>> # <<Resumed(n)>>
<1>1. /\ \A i : Provisional(i) # Reply /\ \A n : Resumed(n) # Reply /\ Provisional(i) # Resumed(n)
      /\ \A d : Finished(d) # Reply /\ \A n : Finished(d) # Resumed(n)
      /\ \A n : Reply # Resumed(n)
  BY Kinds
<1>2. /\ \A x, y : <<x, y>> # <<>> /\ <<x>> # <<>> /\ (<<x>> = <<y>> => x = y)
      /\ \A x, y, z : <<x, y>> # <<z>>
      /\ \A x, y, z, u : <<x, y, z>> # <<u>> /\ <<x, y, z>> # <<>>
  <2>1. /\ \A x : Len(<<x>>) = 1 /\ <<x>>[1] = x
        /\ \A x, y : Len(<<x, y>>) = 2
        /\ \A x, y, z : Len(<<x, y, z>>) = 3
        /\ Len(<<>>) = 0
    OBVIOUS
  <2>2. 0 # 1 /\ 0 # 2 /\ 0 # 3 /\ 1 # 2 /\ 1 # 3
    OBVIOUS
  <2> QED BY <2>1, <2>2, Zenon
<1> QED BY <1>1, <1>2, Zenon

\* Who is at work on a plan that is not one of replies.
LEMMA HandlerStep ==
  ASSUME IInv, NEW c \in Conns, NEW hc \in Handlers, handler' = [handler EXCEPT ![c] = hc],
         session' \in Sessions, session'.done = session.done, session.cut <= session'.cut,
         task' \in [Ids -> Tasks], Ends(task, task'),
         sender' \in [Conns -> BOOLEAN], \A d \in Conns : sender'[d] => sender[d],
         UNCHANGED <<own, fresh, got, lost>>, replies' \in 0..MaxReplies,
         Turns(handler', sender', session'),
         \A d \in Conns : Plan(handler'[d].todo, session', task'),
         hc.at # "none" /\ \A n \in 0..MaxSentences : hc.todo # <<Resumed(n)>>,
         Closed(handler, session, task) => Closed(handler', session', task')
  PROVE  IInv'
<1>1. /\ Typed /\ Opening(handler, own, got, task) /\ Cuts(session, task)
      /\ Content(handler, session, task, own, fresh, got) /\ Lines(sender, task, own, got)
  BY DEF IInv
<1>2. own' = own /\ fresh' = fresh /\ got' = got /\ lost' = lost
  OBVIOUS
<1>3. Typed'
  BY <1>1, <1>2 DEF Typed
<1>4. session.cut \in Nat /\ session'.cut \in Nat
  BY <1>1, Bounds DEF Typed, Sessions
<1>5. Cuts(session', task')
  BY <1>1, <1>4, CutsKept
<1>6. Opening(handler', own', got', task')
  <2>1. \A d \in Conns : d # c => handler'[d] = handler[d]
    BY <1>1 DEF Typed
  <2>2. handler'[c] = hc
    BY <1>1 DEF Typed
  <2>3. \A d \in Conns : Untouched(handler'[d]) => Untouched(handler[d])
    BY <2>1, <2>2 DEF Untouched
  <2>4. Opening(handler', own, got, task')
    BY <1>1, <2>3, OpeningKept, Zenon
  <2> QED BY <1>2, <2>4
<1>7. Content(handler', session', task', own', fresh', got')
  BY <1>1, <1>2, ContentKept
<1>8. Lines(sender', task', own', got')
  BY <1>1, <1>2, LinesKept
<1>9. Plans(handler', session', task')
  BY DEF Plans
<1> QED BY <1>3, <1>5, <1>6, <1>7, <1>8, <1>9 DEF IInv

\* The new handler of c, and the others as they were.
LEMMA HandlerOf ==
  ASSUME Typed, NEW c \in Conns, NEW hc, handler' = [handler EXCEPT ![c] = hc]
  PROVE  handler'[c] = hc /\ \A d \in Conns : d # c => handler'[d] = handler[d]
BY DEF Typed

LEMMA ReceiveShape ==
  ASSUME NEW n, NEW cuts \in {0, 1}, NEW says \in {0, 1}, cuts = 1 => n \in Ids
  PROVE  [k \in 1..cuts |-> Provisional(n)] \o [k \in 1..says |-> Reply] =
           IF cuts = 0 THEN (IF says = 0 THEN <<>> ELSE <<Reply>>)
           ELSE (IF says = 0 THEN <<Provisional(n)>> ELSE <<Provisional(n), Reply>>)
<1>1. (cuts = 1 => Provisional(n) \in Messages) /\ Reply \in Messages
  BY MessageTypes
<1>2. <<>> \o <<>> = <<>>
  BY ConcatEmptySeq, EmptySeq
<1>3. CASE cuts = 0 /\ says = 0
  BY <1>2, <1>3, Times
<1>4. CASE cuts = 0 /\ says = 1
  BY <1>1, <1>4, Times, Joined
<1>5. CASE cuts = 1 /\ says = 0
  BY <1>1, <1>5, Times, Joined
<1>6. CASE cuts = 1 /\ says = 1
  BY <1>1, <1>6, Times, Joined
<1> QED BY <1>3, <1>4, <1>5, <1>6

LEMMA StopShape ==
  ASSUME NEW flushes \in {0, 1}, flushes = 1 => session.cut + 1 \in Ids
  PROVE  StopProgram(flushes) = IF flushes = 0 THEN <<Wait, Finished({})>>
                                ELSE <<Provisional(session.cut + 1), Wait, Finished({})>>
<1>1. Wait \in Messages /\ Finished({}) \in Messages
  BY MessageTypes
<1>2. CASE flushes = 0
  BY <1>1, <1>2, Times, Joined DEF StopProgram
<1>3. CASE flushes = 1
  <2>1. Provisional(session.cut + 1) \in Messages
    BY <1>3, MessageTypes
  <2> QED BY <1>1, <1>3, <2>1, Times, Joined DEF StopProgram
<1> QED BY <1>2, <1>3

LEMMA InitInv == Init => IInv
<1> SUFFICES ASSUME Init PROVE IInv
  OBVIOUS
<1> USE DEF Init
<1>1. ASSUME NEW c \in Conns
      PROVE  /\ handler[c] = [at |-> "none", todo |-> <<>>] /\ ~sender[c]
             /\ own[c] = <<>> /\ fresh[c] = <<>> /\ got[c] = <<>>
  OBVIOUS
<1>2. \A i \in Ids : task[i] = [at |-> "none", of |-> 0, queue |-> "own"]
  OBVIOUS
<1>3. session = [status |-> "new", holder |-> 0, stopping |-> FALSE, cut |-> 0, done |-> {}]
  OBVIOUS
<1>4. Typed
  <2>1. handler \in [Conns -> Handlers]
    BY DEF Handlers
  <2>2. session \in Sessions
    BY <1>3, Bounds DEF Sessions
  <2>3. task \in [Ids -> Tasks]
    BY Bounds DEF Tasks
  <2>4. sender \in [Conns -> BOOLEAN] /\ lost \in [Conns -> BOOLEAN]
    OBVIOUS
  <2>5. Bounded(own) /\ Bounded(fresh) /\ got \in [Conns -> Seq(Messages)]
    BY Bounds DEF Bounded
  <2>6. replies \in 0..MaxReplies
    BY Bounds
  <2> QED BY <2>1, <2>2, <2>3, <2>4, <2>5, <2>6 DEF Typed
<1> HIDE DEF Init
<1>5. Turns(handler, sender, session)
  BY <1>1, <1>3 DEF Turns
<1>6. Plans(handler, session, task)
  BY <1>1, PlanNothing DEF Plans
<1>7. Opening(handler, own, got, task)
  BY <1>1, <1>2 DEF Opening
<1>8. Cuts(session, task)
  BY <1>2 DEF Cuts
<1>9. Content(handler, session, task, own, fresh, got)
  BY <1>1 DEF Content
<1>10. Lines(sender, task, own, got)
  BY <1>1 DEF Lines, Line, Ordered
<1> QED BY <1>4, <1>5, <1>6, <1>7, <1>8, <1>9, <1>10 DEF IInv

LEMMA ReceiveInv == ASSUME IInv, NEW c \in Conns, Receive(c) PROVE IInv'
<1>1. PICK cuts \in {0, 1}, says \in {0, 1} :
        /\ handler[c].at = "idle" /\ cuts + says > 0
        /\ cuts = 1 => ~session.stopping /\ session.cut < MaxSentences
        /\ replies + says <= MaxReplies
        /\ Busy(c, [k \in 1..cuts |-> Provisional(session.cut + 1)] \o [k \in 1..says |-> Reply])
        /\ session' = [session EXCEPT !.cut = @ + cuts]
        /\ replies' = replies + says
        /\ UNCHANGED <<sender, lost, own, fresh, task, got>>
  BY DEF Receive
<1>2. /\ Typed /\ Turns(handler, sender, session) /\ Cuts(session, task)
      /\ handler \in [Conns -> Handlers] /\ session \in Sessions /\ task \in [Ids -> Tasks]
  BY DEF IInv, Typed
<1>3. session.cut \in 0..MaxSentences /\ session.cut \in Nat /\ MaxSentences \in Nat
      /\ session.stopping \in BOOLEAN
  BY <1>2, Bounds DEF Sessions
<1> DEFINE n == session.cut + 1
           m == session.cut + cuts
           todo == IF cuts = 0 THEN <<Reply>>
                   ELSE (IF says = 0 THEN <<Provisional(n)>> ELSE <<Provisional(n), Reply>>)
           hc == [at |-> "busy", todo |-> todo]
<1>4. cuts = 1 => n \in Ids /\ m = n
  BY <1>1, <1>3 DEF Ids
<1>5. m \in 0..MaxSentences /\ session.cut <= m /\ (cuts = 0 => m = session.cut)
  BY <1>1, <1>3
<1>6. cuts = 0 => says = 1
  BY <1>1
<1>7. handler' = [handler EXCEPT ![c] = hc]
  <2>1. [k \in 1..cuts |-> Provisional(n)] \o [k \in 1..says |-> Reply] = todo
    <3> HIDE DEF n
    <3>1. [k \in 1..cuts |-> Provisional(n)] \o [k \in 1..says |-> Reply] =
            IF cuts = 0 THEN (IF says = 0 THEN <<>> ELSE <<Reply>>)
            ELSE (IF says = 0 THEN <<Provisional(n)>> ELSE <<Provisional(n), Reply>>)
      BY <1>4, ReceiveShape
    <3>2. says = 0 => cuts # 0
      BY <1>6
    <3> QED BY <3>1, <3>2, Zenon
  <2> HIDE DEF todo
  <2> QED BY <1>1, <2>1 DEF Busy
<1>8. /\ session' \in Sessions /\ session'.cut = m /\ session'.done = session.done
      /\ session'.status = session.status /\ session'.holder = session.holder
      /\ session'.stopping = session.stopping
  <2>1. session' = [session EXCEPT !.cut = m]
    BY <1>1
  <2> HIDE DEF m
  <2> QED BY <1>2, <1>5, <2>1 DEF Sessions
<1>9. Plan(todo, session', task)
  <2>1. CASE cuts = 0
    BY <2>1, PlanNothing
  <2>2. CASE cuts = 1
    <3>1. n \in Ids /\ session'.cut = n /\ ~(n <= session.cut)
      BY <1>3, <1>4, <1>8, <2>2
    <3>2. task[n].at = "none"
      <4> HIDE DEF n
      <4> QED BY <1>2, <3>1 DEF Cuts
    <3>3. todo \in {<<Provisional(n)>>, <<Provisional(n), Reply>>}
      BY <2>2
    <3> HIDE DEF n, todo
    <3> QED BY <3>1, <3>2, <3>3 DEF Plan
  <2> QED BY <2>1, <2>2
<1>10. hc.at = "busy" /\ hc.todo = todo
  OBVIOUS
<1>11. hc \in Handlers
  <2>1. todo \in Seq(Messages)
    <3> HIDE DEF todo
    <3> QED BY <1>8, <1>9, PlanTypes
  <2> HIDE DEF todo
  <2> QED BY <2>1 DEF Handlers
<1>12. \A k \in 0..MaxSentences : todo # <<Resumed(k)>>
  BY NotReplies
<1>13. session.stopping => todo = <<Reply>>
  BY <1>1
<1> HIDE DEF hc, todo, m, n
<1>14. handler'[c] = hc /\ \A d \in Conns : d # c => handler'[d] = handler[d]
  BY <1>2, <1>7, HandlerOf
<1>15. Turns(handler', sender', session')
  BY <1>1, <1>2, <1>8, <1>10, <1>14 DEF Turns
<1>16. ASSUME NEW d \in Conns, d # c PROVE handler'[d].todo = <<>>
  BY <1>1, <1>2, <1>14, <1>16, Others
<1>17. \A d \in Conns : Plan(handler'[d].todo, session', task')
  BY <1>1, <1>9, <1>10, <1>14, <1>16, PlanNothing
<1>18. Closed(handler, session, task) => Closed(handler', session', task')
  BY <1>1, <1>8, <1>10, <1>13, <1>14, <1>16 DEF Closed
<1>19. replies' \in 0..MaxReplies
  BY <1>1, <1>2, Bounds DEF Typed
<1>20. /\ Ends(task, task') /\ task' \in [Ids -> Tasks] /\ sender' \in [Conns -> BOOLEAN]
       /\ UNCHANGED <<own, fresh, got, lost>> /\ \A d \in Conns : sender'[d] => sender[d]
  BY <1>1, <1>2, EndsSame DEF Typed
<1>21. session.cut <= session'.cut
  BY <1>5, <1>8
<1> QED BY <1>7, <1>8, <1>10, <1>11, <1>12, <1>15, <1>17, <1>18, <1>19, <1>20, <1>21, HandlerStep

LEMMA StopInv == ASSUME IInv, NEW c \in Conns, Stop(c) PROVE IInv'
<1>1. PICK flushes \in {0, 1} :
        /\ handler[c].at = "idle" /\ ~session.stopping
        /\ session.cut + flushes <= MaxSentences
        /\ Busy(c, StopProgram(flushes))
        /\ session' = [session EXCEPT !.stopping = TRUE, !.cut = @ + flushes]
        /\ UNCHANGED <<sender, lost, own, fresh, task, replies, got>>
  BY DEF Stop
<1>2. /\ Typed /\ Turns(handler, sender, session) /\ Cuts(session, task)
      /\ handler \in [Conns -> Handlers] /\ session \in Sessions /\ task \in [Ids -> Tasks]
  BY DEF IInv, Typed
<1>3. session.cut \in 0..MaxSentences /\ session.cut \in Nat /\ MaxSentences \in Nat
  BY <1>2, Bounds DEF Sessions
<1> DEFINE m == session.cut + flushes
           todo == StopProgram(flushes)
           hc == [at |-> "busy", todo |-> todo]
<1>4. m \in 0..MaxSentences /\ session.cut <= m
      /\ (flushes = 1 => m \in Ids /\ m = session.cut + 1 /\ ~(m <= session.cut))
  BY <1>1, <1>3 DEF Ids
<1>5. handler' = [handler EXCEPT ![c] = hc]
  BY <1>1 DEF Busy
<1>6. /\ session' \in Sessions /\ session'.cut = m /\ session'.done = session.done
      /\ session'.status = session.status /\ session'.holder = session.holder
      /\ session'.stopping = TRUE
  <2>1. session' = [session EXCEPT !.stopping = TRUE, !.cut = m]
    BY <1>1
  <2> HIDE DEF m
  <2>2. session \in Sessions /\ m \in 0..MaxSentences /\ TRUE \in BOOLEAN
    BY <1>2, <1>4
  <2> QED BY <2>1, <2>2 DEF Sessions
<1>7. todo = IF flushes = 0 THEN <<Wait, Finished({})>> ELSE <<Provisional(m), Wait, Finished({})>>
  BY <1>4, StopShape
<1> HIDE DEF todo, m
<1>8. Plan(todo, session', task)
  <2>1. CASE flushes = 0
    BY <1>6, <1>7, <2>1 DEF Plan
  <2>2. CASE flushes = 1
    <3>1. task[m].at = "none" /\ m \in Ids
      BY <1>2, <1>4, <2>2 DEF Cuts
    <3> QED BY <1>6, <1>7, <2>2, <3>1 DEF Plan
  <2> QED BY <2>1, <2>2
<1>9. hc.at = "busy" /\ hc.todo = todo
  OBVIOUS
<1>10. hc \in Handlers
  <2>1. todo \in Seq(Messages)
    BY <1>6, <1>8, PlanTypes
  <2> QED BY <2>1 DEF Handlers
<1>11. \A k \in 0..MaxSentences : todo # <<Resumed(k)>>
  BY <1>7, NotReplies
<1> HIDE DEF hc
<1>12. handler'[c] = hc /\ \A d \in Conns : d # c => handler'[d] = handler[d]
  BY <1>2, <1>5, HandlerOf
<1>13. Turns(handler', sender', session')
  BY <1>1, <1>2, <1>6, <1>9, <1>12 DEF Turns
<1>14. ASSUME NEW d \in Conns, d # c PROVE handler'[d].todo = <<>>
  BY <1>1, <1>2, <1>12, <1>14, Others
<1>15. \A d \in Conns : Plan(handler'[d].todo, session', task')
  BY <1>1, <1>8, <1>9, <1>12, <1>14, PlanNothing
<1>16. ~Closed(handler, session, task)
  BY <1>1 DEF Closed
<1>17. /\ Ends(task, task') /\ task' \in [Ids -> Tasks] /\ sender' \in [Conns -> BOOLEAN]
       /\ UNCHANGED <<own, fresh, got, lost>> /\ \A d \in Conns : sender'[d] => sender[d]
       /\ replies' \in 0..MaxReplies
  BY <1>1, <1>2, EndsSame DEF Typed
<1>18. session.cut <= session'.cut
  BY <1>4, <1>6
<1> QED BY <1>5, <1>6, <1>9, <1>10, <1>11, <1>13, <1>15, <1>16, <1>17, <1>18, HandlerStep

\* A handler or finaliser goes on to the next item of its plan.
LEMMA Goes ==
  ASSUME IInv, NEW c \in Conns, Running(c), Proceed(c)
  PROVE  \E hc \in Handlers :
           /\ hc.at = handler[c].at /\ hc.todo = Tail(handler[c].todo)
           /\ handler' = [handler EXCEPT ![c] = hc]
<1>1. handler \in [Conns -> Handlers]
  BY DEF IInv, Typed
<1>2. handler[c].at \in {"none", "idle", "busy", "gone", "finalising"}
      /\ handler[c].todo \in Seq(Messages) /\ handler[c].todo # <<>>
  BY <1>1 DEF Handlers, Running
<1>3. Tail(handler[c].todo) \in Seq(Messages)
  BY <1>2
<1> DEFINE hc == [handler[c] EXCEPT !.todo = Tail(@)]
<1>4. handler' = [handler EXCEPT ![c] = hc]
  BY DEF Proceed
<1>5. hc \in Handlers /\ hc.at = handler[c].at /\ hc.todo = Tail(handler[c].todo)
  BY <1>1, <1>3 DEF Handlers
<1> QED BY <1>4, <1>5

\* The plan of a handler whose first item is a wait.
LEMMA WaitHead ==
  ASSUME NEW todo, NEW ss, NEW t, Plan(todo, ss, t), todo # <<>>, Head(todo) = Wait
  PROVE  ss.stopping /\ Tail(todo) = <<Finished({})>>
<1>1. /\ Head(todo) # Reply /\ \A n : Head(todo) # Resumed(n)
      /\ \A i : Head(todo) # Provisional(i) /\ \A d : Head(todo) # Finished(d)
  BY Kinds
<1> QED BY <1>1, PlanHead

\* Waiting is over: the second passes have ended, or have been cancelled.
LEMMA Waited ==
  ASSUME IInv, NEW c \in Conns, Running(c), Head(handler[c].todo) = Wait, Proceed(c),
         task' \in [Ids -> Tasks], Ends(task, task'), Pends(task') = {},
         UNCHANGED <<sender, lost, own, fresh, session, replies, got>>
  PROVE  IInv'
<1>1. /\ Typed /\ Turns(handler, sender, session) /\ Plan(handler[c].todo, session, task)
      /\ session \in Sessions /\ handler[c].todo # <<>> /\ handler[c].at \in {"busy", "finalising"}
  BY DEF IInv, Typed, Plans, Running
<1>2. PICK hc \in Handlers :
        /\ hc.at = handler[c].at /\ hc.todo = Tail(handler[c].todo)
        /\ handler' = [handler EXCEPT ![c] = hc]
  BY Goes
<1>3. session.stopping /\ hc.todo = <<Finished({})>>
  BY <1>1, <1>2, WaitHead
<1>4. handler'[c] = hc /\ \A d \in Conns : d # c => handler'[d] = handler[d]
  BY <1>1, <1>2, HandlerOf
<1>5. Turns(handler', sender', session')
  BY <1>1, <1>2, <1>4 DEF Turns
<1>6. ASSUME NEW d \in Conns, d # c PROVE handler'[d].todo = <<>>
  BY <1>1, <1>4, <1>6, Others
<1>7. Plan(hc.todo, session', task')
  BY <1>3 DEF Plan
<1>8. \A d \in Conns : Plan(handler'[d].todo, session', task')
  BY <1>4, <1>6, <1>7, PlanNothing
<1>9. ~Closed(handler, session, task)
  <2>1. handler[c].todo # <<Reply>>
    BY Heads, Kinds
  <2> QED BY <1>1, <2>1 DEF Closed
<1>10. /\ session' \in Sessions /\ session'.done = session.done /\ session.cut <= session'.cut
       /\ sender' \in [Conns -> BOOLEAN] /\ \A d \in Conns : sender'[d] => sender[d]
       /\ UNCHANGED <<own, fresh, got, lost>> /\ replies' \in 0..MaxReplies
  BY <1>1, Bounds DEF Typed, Sessions
<1>11. hc.at # "none" /\ \A n \in 0..MaxSentences : hc.todo # <<Resumed(n)>>
  BY <1>1, <1>2, <1>3, NotReplies
<1> QED BY <1>2, <1>5, <1>8, <1>9, <1>10, <1>11, HandlerStep

LEMMA WaitOverInv == ASSUME IInv, NEW c \in Conns, WaitOver(c) PROVE IInv'
<1>1. /\ Running(c) /\ Head(handler[c].todo) = Wait /\ Pending = {} /\ Proceed(c)
      /\ UNCHANGED <<sender, lost, own, fresh, session, task, replies, got>>
  BY DEF WaitOver
<1>2. task' \in [Ids -> Tasks] /\ Ends(task, task') /\ Pends(task') = {}
  BY <1>1, EndsSame DEF IInv, Typed, Pending, Pends
<1> QED BY <1>1, <1>2, Waited

LEMMA WaitTimesOutInv == ASSUME IInv, NEW c \in Conns, WaitTimesOut(c) PROVE IInv'
<1>1. /\ Running(c) /\ Head(handler[c].todo) = Wait /\ task' = Cancelled(task) /\ Proceed(c)
      /\ UNCHANGED <<sender, lost, own, fresh, session, replies, got>>
  BY DEF WaitTimesOut
<1>2. task' \in [Ids -> Tasks] /\ Ends(task, task') /\ Pends(task') = {}
  BY <1>1, CancelledEnds DEF IInv, Typed
<1> QED BY <1>1, <1>2, Waited

LEMMA ReturnInv == ASSUME IInv, NEW c \in Conns, Return(c) PROVE IInv'
<1>1. /\ handler[c].at = "busy" /\ handler[c].todo = <<>>
      /\ handler' = [handler EXCEPT ![c].at = "idle"]
      /\ UNCHANGED <<sender, lost, own, fresh, session, task, replies, got>>
  BY DEF Return
<1>2. /\ Typed /\ Turns(handler, sender, session) /\ Plans(handler, session, task)
      /\ handler \in [Conns -> Handlers]
  BY DEF IInv, Typed
<1> DEFINE hc == [handler[c] EXCEPT !.at = "idle"]
<1>3. hc \in Handlers /\ hc.at = "idle" /\ hc.todo = <<>>
  BY <1>1, <1>2 DEF Handlers
<1>4. handler' = [handler EXCEPT ![c] = hc]
  BY <1>1
<1> HIDE DEF hc
<1>5. handler'[c] = hc /\ \A d \in Conns : d # c => handler'[d] = handler[d]
  BY <1>2, <1>4, HandlerOf
<1>6. \A d \in Conns : handler'[d].todo = handler[d].todo
  BY <1>1, <1>3, <1>5
<1>7. Turns(handler', sender', session')
  BY <1>1, <1>2, <1>3, <1>5 DEF Turns
<1>8. \A d \in Conns : Plan(handler'[d].todo, session', task')
  BY <1>1, <1>2, <1>6 DEF Plans
<1>9. Closed(handler, session, task) => Closed(handler', session', task')
  BY <1>1, <1>6 DEF Closed
<1>10. /\ session' \in Sessions /\ session'.done = session.done /\ session.cut <= session'.cut
       /\ sender' \in [Conns -> BOOLEAN] /\ \A d \in Conns : sender'[d] => sender[d]
       /\ UNCHANGED <<own, fresh, got, lost>> /\ replies' \in 0..MaxReplies
       /\ task' \in [Ids -> Tasks] /\ Ends(task, task')
  BY <1>1, <1>2, EndsSame, Bounds DEF Typed, Sessions
<1>11. hc.at # "none" /\ \A n \in 0..MaxSentences : hc.todo # <<Resumed(n)>>
  BY <1>3, NotReplies
<1> QED BY <1>3, <1>4, <1>7, <1>8, <1>9, <1>10, <1>11, HandlerStep

\* A handler or finaliser ends, and its session is suspended or cleaned up.
LEMMA Ended ==
  ASSUME IInv, NEW c \in Conns, handler[c].at \in {"idle", "finalising"},
         handler' = [handler EXCEPT ![c] = [at |-> "gone", todo |-> <<>>]],
         sender' = [sender EXCEPT ![c] = FALSE],
         NEW status \in {"detached", "over"}, session' = [session EXCEPT !.status = status],
         status = "detached" => ~session.stopping,
         task' \in [Ids -> Tasks], Ends(task, task'),
         UNCHANGED <<lost, own, fresh, replies, got>>
  PROVE  IInv'
<1>1. /\ Typed /\ Turns(handler, sender, session) /\ Plans(handler, session, task)
      /\ session \in Sessions /\ sender \in [Conns -> BOOLEAN]
  BY DEF IInv, Typed
<1> DEFINE hc == [at |-> "gone", todo |-> <<>>]
<1>2. hc \in Handlers /\ hc.at = "gone" /\ hc.todo = <<>>
  BY DEF Handlers
<1> HIDE DEF hc
<1>3. handler' = [handler EXCEPT ![c] = hc]
  BY DEF hc
<1>4. handler'[c] = hc /\ \A d \in Conns : d # c => handler'[d] = handler[d]
  BY <1>1, <1>3, HandlerOf
<1>5. ASSUME NEW d \in Conns
      PROVE  handler'[d].todo = <<>> /\ handler'[d].at \notin {"idle", "busy", "finalising"} /\ ~sender'[d]
  <2>1. CASE d = c
    BY <1>1, <1>2, <1>4, <2>1
  <2>2. CASE d # c
    BY <1>1, <1>4, <2>2, Others
  <2> QED BY <2>1, <2>2
<1>6. /\ session' \in Sessions /\ session'.done = session.done /\ session'.cut = session.cut
      /\ session'.stopping = session.stopping /\ session'.status = status
      /\ session'.holder = session.holder
  BY <1>1 DEF Sessions
<1>7. session.status # "new"
  BY <1>1 DEF Turns
<1>8. Turns(handler', sender', session')
  BY <1>1, <1>5, <1>6, <1>7 DEF Turns
<1>9. \A d \in Conns : Plan(handler'[d].todo, session', task')
  BY <1>5, PlanNothing
<1>10. Pends(task) = {} => Pends(task') = {}
  BY DEF Pends, Ends
<1>11. Closed(handler, session, task) => Closed(handler', session', task')
  BY <1>5, <1>6, <1>10 DEF Closed
<1>12. /\ session.cut <= session'.cut /\ sender' \in [Conns -> BOOLEAN]
       /\ \A d \in Conns : sender'[d] => sender[d]
       /\ UNCHANGED <<own, fresh, got, lost>> /\ replies' \in 0..MaxReplies
  BY <1>1, <1>5, <1>6, Bounds DEF Typed, Sessions
<1>13. hc.at # "none" /\ \A n \in 0..MaxSentences : hc.todo # <<Resumed(n)>>
  BY <1>2, NotReplies
<1> QED BY <1>2, <1>3, <1>6, <1>8, <1>9, <1>11, <1>12, <1>13, HandlerStep

LEMMA LeaveInv == ASSUME IInv, NEW c \in Conns, Leave(c) PROVE IInv'
<1>1. /\ handler[c].at = "idle" /\ handler' = [handler EXCEPT ![c].at = "gone"]
      /\ sender' = [sender EXCEPT ![c] = FALSE]
      /\ IF session.stopping
         THEN session' = [session EXCEPT !.status = "over"] /\ task' = Cancelled(task)
         ELSE session' = [session EXCEPT !.status = "detached"] /\ UNCHANGED task
      /\ UNCHANGED <<lost, own, fresh, replies, got>>
  BY DEF Leave
<1>2. handler \in [Conns -> Handlers] /\ task \in [Ids -> Tasks] /\ handler[c].todo = <<>>
  BY <1>1 DEF IInv, Typed, Turns
<1>3. handler' = [handler EXCEPT ![c] = [at |-> "gone", todo |-> <<>>]]
  <2>1. [handler[c] EXCEPT !.at = "gone"] = [at |-> "gone", todo |-> <<>>]
    BY <1>2 DEF Handlers
  <2> QED BY <1>1, <2>1
<1>4. CASE session.stopping
  <2>1. task' \in [Ids -> Tasks] /\ Ends(task, task')
    BY <1>1, <1>2, <1>4, CancelledEnds
  <2> QED BY <1>1, <1>3, <1>4, <2>1, Ended
<1>5. CASE ~session.stopping
  <2>1. task' \in [Ids -> Tasks] /\ Ends(task, task')
    BY <1>1, <1>2, <1>5, EndsSame
  <2> QED BY <1>1, <1>3, <1>5, <2>1, Ended
<1> QED BY <1>4, <1>5

LEMMA FinalizerEndsInv == ASSUME IInv, NEW c \in Conns, FinalizerEnds(c) PROVE IInv'
<1>1. /\ handler[c].at = "finalising"
      /\ handler' = [handler EXCEPT ![c] = [at |-> "gone", todo |-> <<>>]]
      /\ session' = [session EXCEPT !.status = "over"] /\ task' = Cancelled(task)
      /\ UNCHANGED <<sender, lost, own, fresh, replies, got>>
  BY DEF FinalizerEnds
<1>2. task \in [Ids -> Tasks] /\ sender \in [Conns -> BOOLEAN] /\ ~sender[c]
  BY <1>1 DEF IInv, Typed, Turns
<1>3. sender' = [sender EXCEPT ![c] = FALSE]
  BY <1>1, <1>2
<1>4. task' \in [Ids -> Tasks] /\ Ends(task, task')
  BY <1>1, <1>2, CancelledEnds
<1> QED BY <1>1, <1>3, <1>4, Ended

LEMMA ExpireInv == ASSUME IInv, Expire PROVE IInv'
<1> DEFINE c == session.holder
<1>1. PICK flushes \in {0, 1} :
        /\ session.status = "detached" /\ session.cut + flushes <= MaxSentences
        /\ handler' = [handler EXCEPT ![c] = [at |-> "finalising", todo |-> StopProgram(flushes)]]
        /\ session' = [session EXCEPT !.status = "expired", !.stopping = TRUE, !.cut = @ + flushes]
        /\ UNCHANGED <<sender, lost, own, fresh, task, replies, got>>
  BY DEF Expire
<1>2. /\ Typed /\ Turns(handler, sender, session) /\ Cuts(session, task)
      /\ handler \in [Conns -> Handlers] /\ session \in Sessions /\ task \in [Ids -> Tasks]
  BY DEF IInv, Typed
<1>3. session.cut \in 0..MaxSentences /\ session.cut \in Nat /\ MaxSentences \in Nat
  BY <1>2, Bounds DEF Sessions
<1>4. c \in Conns
  BY <1>1, <1>2 DEF Turns
<1> DEFINE m == session.cut + flushes
           todo == StopProgram(flushes)
           hc == [at |-> "finalising", todo |-> todo]
<1>5. m \in 0..MaxSentences /\ session.cut <= m
      /\ (flushes = 1 => m \in Ids /\ m = session.cut + 1 /\ ~(m <= session.cut))
  BY <1>1, <1>3 DEF Ids
<1>6. handler' = [handler EXCEPT ![c] = hc]
  BY <1>1
<1>7. /\ session' \in Sessions /\ session'.cut = m /\ session'.done = session.done
      /\ session'.status = "expired" /\ session'.holder = c /\ session'.stopping = TRUE
  <2>1. session' = [session EXCEPT !.status = "expired", !.stopping = TRUE, !.cut = m]
    BY <1>1
  <2> HIDE DEF m
  <2> QED BY <1>2, <1>5, <2>1 DEF Sessions
<1>8. todo = IF flushes = 0 THEN <<Wait, Finished({})>> ELSE <<Provisional(m), Wait, Finished({})>>
  BY <1>5, StopShape
<1> HIDE DEF todo, m, c
<1>9. Plan(todo, session', task)
  <2>1. CASE flushes = 0
    BY <1>7, <1>8, <2>1 DEF Plan
  <2>2. CASE flushes = 1
    <3>1. task[m].at = "none" /\ m \in Ids
      BY <1>2, <1>5, <2>2 DEF Cuts
    <3> QED BY <1>7, <1>8, <2>2, <3>1 DEF Plan
  <2> QED BY <2>1, <2>2
<1>10. hc.at = "finalising" /\ hc.todo = todo
  OBVIOUS
<1>11. hc \in Handlers
  <2>1. todo \in Seq(Messages)
    BY <1>7, <1>9, PlanTypes
  <2> QED BY <2>1 DEF Handlers
<1>12. \A k \in 0..MaxSentences : todo # <<Resumed(k)>>
  BY <1>8, NotReplies
<1> HIDE DEF hc
<1>13. handler'[c] = hc /\ \A d \in Conns : d # c => handler'[d] = handler[d]
  BY <1>2, <1>4, <1>6, HandlerOf
<1>14. \A d \in Conns : handler[d].at \notin {"idle", "busy", "finalising"}
                        /\ handler[d].todo = <<>> /\ ~sender[d]
  BY <1>1, <1>2, NoneAtWork
<1>15. Turns(handler', sender', session')
  BY <1>1, <1>4, <1>7, <1>10, <1>13, <1>14 DEF Turns
<1>16. \A d \in Conns : Plan(handler'[d].todo, session', task')
  BY <1>1, <1>9, <1>10, <1>13, <1>14, PlanNothing
<1>17. ~Closed(handler, session, task)
  BY <1>1, <1>2 DEF Closed, Turns
<1>18. /\ Ends(task, task') /\ task' \in [Ids -> Tasks] /\ sender' \in [Conns -> BOOLEAN]
       /\ UNCHANGED <<own, fresh, got, lost>> /\ \A d \in Conns : sender'[d] => sender[d]
       /\ replies' \in 0..MaxReplies
  BY <1>1, <1>2, EndsSame DEF Typed
<1>19. session.cut <= session'.cut
  BY <1>5, <1>7
<1>20. hc.at # "none"
  BY <1>10
<1> QED BY <1>4, <1>6, <1>7, <1>10, <1>11, <1>12, <1>15, <1>16, <1>17, <1>18, <1>19, <1>20, HandlerStep

LEMMA ConnectInv == ASSUME IInv, NEW c \in Conns, Connect(c) PROVE IInv'
<1>1. /\ handler[c].at = "none" /\ session.status \in {"new", "detached"}
      /\ Busy(c, <<Reply>>) \/ Busy(c, <<Resumed(session.cut)>>)
      /\ session' = [session EXCEPT !.status = "attached", !.holder = c]
      /\ sender' = [sender EXCEPT ![c] = TRUE]
      /\ UNCHANGED <<lost, own, fresh, task, replies, got>>
  BY DEF Connect
<1>2. /\ Typed /\ Turns(handler, sender, session) /\ Opening(handler, own, got, task)
      /\ Cuts(session, task) /\ Content(handler, session, task, own, fresh, got)
      /\ Lines(sender, task, own, got)
      /\ handler \in [Conns -> Handlers] /\ session \in Sessions /\ sender \in [Conns -> BOOLEAN]
  BY DEF IInv, Typed
<1>3. session.cut \in 0..MaxSentences /\ session.cut \in Nat
  BY <1>2, Bounds DEF Sessions
<1>4. PICK todo \in {<<Reply>>, <<Resumed(session.cut)>>} :
        handler' = [handler EXCEPT ![c] = [at |-> "busy", todo |-> todo]]
  BY <1>1 DEF Busy
<1>5. Plan(todo, session', task')
  BY <1>3, <1>4 DEF Plan
<1> DEFINE hc == [at |-> "busy", todo |-> todo]
<1>6. /\ session' \in Sessions /\ session'.cut = session.cut /\ session'.done = session.done
      /\ session'.status = "attached" /\ session'.holder = c /\ session'.stopping = session.stopping
  <2>1. c \in 0..MaxConns
    BY Bounds DEF Conns
  <2> QED BY <1>1, <1>2, <2>1 DEF Sessions
<1>7. ~session.stopping
  BY <1>1, <1>2 DEF Turns
<1>8. hc \in Handlers /\ hc.at = "busy" /\ hc.todo = todo
  <2>1. todo \in Seq(Messages)
    BY <1>5, <1>6, PlanTypes
  <2> QED BY <2>1 DEF Handlers
<1> HIDE DEF hc
<1>9. handler' = [handler EXCEPT ![c] = hc]
  BY <1>4 DEF hc
<1>10. handler'[c] = hc /\ \A d \in Conns : d # c => handler'[d] = handler[d]
  BY <1>2, <1>9, HandlerOf
<1>11. \A d \in Conns : handler[d].at \notin {"idle", "busy", "finalising"}
                        /\ handler[d].todo = <<>> /\ ~sender[d]
  BY <1>1, <1>2, NoneAtWork
<1>12. sender'[c] /\ \A d \in Conns : d # c => ~sender'[d]
  BY <1>1, <1>2, <1>11
<1>13. Typed'
  <2>1. handler' \in [Conns -> Handlers]
    BY <1>2, <1>8, <1>9
  <2>2. sender' \in [Conns -> BOOLEAN]
    BY <1>1, <1>2
  <2> QED BY <1>1, <1>2, <1>6, <2>1, <2>2 DEF Typed
<1>14. Turns(handler', sender', session')
  BY <1>6, <1>7, <1>8, <1>10, <1>11, <1>12 DEF Turns
<1>15. Plans(handler', session', task')
  BY <1>5, <1>8, <1>10, <1>11, PlanNothing DEF Plans
<1>16. Ends(task, task') /\ own' = own /\ fresh' = fresh /\ got' = got /\ task' = task
  BY <1>1, EndsSame
<1>17. Opening(handler', own', got', task')
  <2>1. \A d \in Conns : Untouched(handler'[d]) => Untouched(handler[d])
    BY <1>1, <1>10 DEF Untouched
  <2> QED BY <1>2, <1>16, <2>1, OpeningKept
<1>18. Cuts(session', task')
  BY <1>2, <1>3, <1>6, <1>16, CutsKept
<1>19. Content(handler', session', task', own', fresh', got')
  <2>1. ~Closed(handler, session, task)
    BY <1>7 DEF Closed
  <2> QED BY <1>2, <1>6, <1>16, <2>1, ContentKept
<1>20. Lines(sender', task', own', got')
  <2> SUFFICES ASSUME NEW d \in Conns PROVE Line(got[d], own[d], sender'[d], d, task)
    BY <1>16 DEF Lines
  <2>1. CASE d = c
    <3>1. own[c] = <<>> /\ got[c] = <<>> /\ \A i \in Ids : task[i].at # "none" => task[i].of # c
      BY <1>1, <1>2 DEF Opening, Untouched
    <3> QED BY <2>1, <3>1 DEF Line, Ordered
  <2>2. CASE d # c
    BY <1>2, <1>12, <2>2 DEF Lines, Line
  <2> QED BY <2>1, <2>2
<1> QED BY <1>13, <1>14, <1>15, <1>17, <1>18, <1>19, <1>20 DEF IInv

LEMMA LoseInv == ASSUME IInv, NEW c \in Conns, Lose(c) PROVE IInv'
<1>1. lost' = [lost EXCEPT ![c] = TRUE]
      /\ UNCHANGED <<handler, sender, own, fresh, session, task, replies, got>>
  BY DEF Lose
<1>2. Typed'
  BY <1>1 DEF IInv, Typed
<1> QED BY <1>1, <1>2 DEF IInv

----------------------------------------------------------------------------
(* Steps that put a message into a queue.                                  *)

LEMMA Appended ==
  ASSUME NEW q \in Seq(Messages), NEW n \in Messages
  PROVE  /\ Append(q, n) \in Seq(Messages) /\ Len(Append(q, n)) = Len(q) + 1
         /\ \A k \in DOMAIN Append(q, n) : (k \in DOMAIN q /\ Append(q, n)[k] = q[k])
                                           \/ (k = Len(q) + 1 /\ Append(q, n)[k] = n)
         /\ \A k \in DOMAIN q : k \in DOMAIN Append(q, n) /\ Append(q, n)[k] = q[k] /\ k < Len(q) + 1
         /\ Len(q) + 1 \in DOMAIN Append(q, n) /\ Append(q, n)[Len(q) + 1] = n
         /\ \A k \in DOMAIN q : k \in Nat
OBVIOUS

\* The second passes of c are those it had, and that of the sentence m announces.
Follows(c, m, t, u) ==
  \A i \in Ids : u[i].at # "none" /\ u[i].of = c => (t[i].at # "none" /\ t[i].of = c) \/ m = Provisional(i)

\* Each final has its provisional before it, on c.
Announced(g, q, m) ==
  \A i \in Ids : m = Final(i) =>
    (\E j \in DOMAIN g : g[j] = Provisional(i)) \/ (\E j \in DOMAIN q : q[j] = Provisional(i))

LEMMA LineGrows ==
  ASSUME NEW g, NEW q \in Seq(Messages), NEW m \in Messages, NEW c, NEW t, NEW u,
         Line(g, q, TRUE, c, t), Follows(c, m, t, u), Announced(g, q, m),
         \A k \in DOMAIN g : Precedes(g[k], m), \A k \in DOMAIN q : Precedes(q[k], m)
  PROVE  Line(g, Append(q, m), TRUE, c, u)
<1> DEFINE p == Append(q, m)
           l == Len(q) + 1
<1>1. /\ \A k \in DOMAIN p : (k \in DOMAIN q /\ p[k] = q[k]) \/ (k = l /\ p[k] = m)
      /\ \A k \in DOMAIN q : k \in DOMAIN p /\ p[k] = q[k] /\ k < l /\ ~(l < k)
      /\ l \in DOMAIN p /\ p[l] = m /\ ~(l < l)
  BY Appended
<1> HIDE DEF p, l
<1>2. /\ Ordered(g) /\ \A k \in DOMAIN g : g[k] # Reply
      /\ \A i \in Ids : \A k \in DOMAIN g : g[k] = Final(i) => \E j \in DOMAIN g : j < k /\ g[j] = Provisional(i)
      /\ Ordered(q) /\ \A j \in DOMAIN g, k \in DOMAIN q : Precedes(g[j], q[k])
  BY DEF Line
<1>3. Ordered(p)
  <2> SUFFICES ASSUME NEW j \in DOMAIN p, NEW k \in DOMAIN p, j < k PROVE Precedes(p[j], p[k])
    BY DEF Ordered
  <2>1. CASE k \in DOMAIN q /\ p[k] = q[k]
    <3>1. j \in DOMAIN q /\ p[j] = q[j]
      BY <1>1, <2>1
    <3> QED BY <1>2, <2>1, <3>1 DEF Ordered
  <2>2. CASE k = l /\ p[k] = m
    <3>1. j \in DOMAIN q /\ p[j] = q[j]
      BY <1>1, <2>2
    <3> QED BY <2>2, <3>1
  <2> QED BY <1>1, <2>1, <2>2
<1>4. ASSUME NEW j \in DOMAIN g, NEW k \in DOMAIN p PROVE Precedes(g[j], p[k])
  BY <1>1, <1>2
<1>5. ASSUME NEW i \in Ids, NEW k \in DOMAIN p, p[k] = Final(i)
      PROVE  \/ \E j \in DOMAIN g : g[j] = Provisional(i)
             \/ \E j \in DOMAIN p : j < k /\ p[j] = Provisional(i)
  <2>1. CASE k \in DOMAIN q /\ p[k] = q[k]
    <3>1. \/ \E j \in DOMAIN g : g[j] = Provisional(i)
          \/ \E j \in DOMAIN q : j < k /\ q[j] = Provisional(i)
      BY <1>5, <2>1 DEF Line
    <3> QED BY <1>1, <3>1
  <2>2. CASE k = l /\ p[k] = m
    <3>1. \/ \E j \in DOMAIN g : g[j] = Provisional(i)
          \/ \E j \in DOMAIN q : q[j] = Provisional(i)
      BY <1>5, <2>2 DEF Announced
    <3> QED BY <1>1, <2>2, <3>1
  <2> QED BY <1>1, <2>1, <2>2
<1>6. ASSUME NEW i \in Ids, u[i].at # "none", u[i].of = c
      PROVE  \/ \E j \in DOMAIN g : g[j] = Provisional(i)
             \/ \E j \in DOMAIN p : p[j] = Provisional(i)
  <2>1. CASE t[i].at # "none" /\ t[i].of = c
    <3>1. \/ \E j \in DOMAIN g : g[j] = Provisional(i)
          \/ \E j \in DOMAIN q : q[j] = Provisional(i)
      BY <2>1 DEF Line
    <3> QED BY <1>1, <3>1
  <2>2. CASE m = Provisional(i)
    BY <1>1, <2>2
  <2> QED BY <1>6, <2>1, <2>2 DEF Follows
<1>7. Line(g, p, TRUE, c, u)
  BY <1>2, <1>3, <1>4, <1>5, <1>6 DEF Line
<1> QED BY <1>7 DEF p

\* What explained a message still does.
KeepsExplained(h, ss, t, g, rr, u) ==
  \A d \in Conns, x \in Messages : Explained(d, x, h, ss, t) => Explained(d, x, g, rr, u)

\* m may be put into the queue of c whose send loop runs.
MayFollow(c, m, t, u) ==
  /\ \A k \in DOMAIN got[c] : Precedes(got[c][k], m)
  /\ \A k \in DOMAIN own[c] : Precedes(own[c][k], m)
  /\ Announced(got[c], own[c], m) /\ Follows(c, m, t, u)

\* m is put into a queue of c.
LEMMA PutStep ==
  ASSUME IInv, NEW c \in Conns, NEW which \in {"own", "fresh"}, NEW m \in Messages,
         HasRoom(c, which), PutInto(c, which, m),
         handler' \in [Conns -> Handlers], session' \in Sessions, task' \in [Ids -> Tasks],
         UNCHANGED <<sender, lost, replies, got>>,
         Turns(handler', sender', session'), Plans(handler', session', task'),
         Opening(handler', own', got', task'), Cuts(session', task'),
         KeepsExplained(handler, session, task, handler', session', task'),
         session.done \subseteq session'.done,
         which = "own" => Explained(c, m, handler', session', task'),
         which = "fresh" => \A i \in Ids : m = Final(i) => i \in session'.done,
         sender[c] /\ which = "own" => MayFollow(c, m, task, task'),
         \A d \in Conns : sender[d] => (d = c /\ which = "own") \/ Follows(d, Reply, task, task')
  PROVE  IInv'
<1>1. /\ Typed /\ Content(handler, session, task, own, fresh, got) /\ Lines(sender, task, own, got)
      /\ Bounded(own) /\ Bounded(fresh) /\ got \in [Conns -> Seq(Messages)]
  BY DEF IInv, Typed
<1>2. \A d \in Conns : own[d] \in Seq(Messages) /\ fresh[d] \in Seq(Messages) /\ got[d] \in Seq(Messages)
  BY <1>1 DEF Bounded
<1>3. CASE which = "own"
  <2>1. own' = [own EXCEPT ![c] = Append(@, m)] /\ fresh' = fresh /\ Len(own[c]) < Cap
    BY <1>3 DEF PutInto, HasRoom, Queue
  <2>2. own'[c] = Append(own[c], m) /\ \A d \in Conns : d # c => own'[d] = own[d]
    BY <1>1, <2>1 DEF Bounded
  <2>3. Append(own[c], m) \in Seq(Messages) /\ Len(Append(own[c], m)) <= Cap
    BY <1>2, <2>1, Bounds
  <2>4. Bounded(own')
    BY <1>1, <2>1, <2>2, <2>3 DEF Bounded
  <2>5. Typed'
    BY <1>1, <2>1, <2>4 DEF Typed
  <2>6. Content(handler', session', task', own', fresh', got')
    <3> SUFFICES ASSUME NEW d \in Conns
                 PROVE  /\ \A k \in DOMAIN own'[d] : Explained(d, own'[d][k], handler', session', task')
                        /\ \A k \in DOMAIN got[d] : Explained(d, got[d][k], handler', session', task')
                        /\ \A k \in DOMAIN fresh[d] : \A i \in Ids : fresh[d][k] = Final(i) => i \in session'.done
      BY <2>1 DEF Content
    <3>1. ASSUME NEW k \in DOMAIN own[d] PROVE Explained(d, own[d][k], handler', session', task')
      <4>1. own[d][k] \in Messages /\ Explained(d, own[d][k], handler, session, task)
        BY <1>1, <1>2 DEF Content
      <4> QED BY <4>1 DEF KeepsExplained
    <3>2. ASSUME NEW k \in DOMAIN got[d] PROVE Explained(d, got[d][k], handler', session', task')
      <4>1. got[d][k] \in Messages /\ Explained(d, got[d][k], handler, session, task)
        BY <1>1, <1>2 DEF Content
      <4> QED BY <4>1 DEF KeepsExplained
    <3>3. \A k \in DOMAIN fresh[d] : \A i \in Ids : fresh[d][k] = Final(i) => i \in session'.done
      BY <1>1 DEF Content
    <3>4. ASSUME NEW k \in DOMAIN own'[d] PROVE Explained(d, own'[d][k], handler', session', task')
      <4>1. CASE d = c
        <5>1. (k \in DOMAIN own[c] /\ own'[c][k] = own[c][k]) \/ own'[c][k] = m
          BY <1>2, <2>2, <4>1, Appended
        <5> QED BY <1>3, <3>1, <4>1, <5>1
      <4>2. CASE d # c
        BY <2>2, <3>1, <4>2
      <4> QED BY <4>1, <4>2
    <3> QED BY <3>2, <3>3, <3>4
  <2>7. Lines(sender', task', own', got')
    <3> SUFFICES ASSUME NEW d \in Conns PROVE Line(got[d], own'[d], sender[d], d, task')
      BY DEF Lines
    <3>1. Line(got[d], own[d], sender[d], d, task)
      BY <1>1 DEF Lines
    <3>2. CASE sender[d] /\ d = c
      <4>1. Line(got[c], own[c], TRUE, c, task)
        BY <3>1, <3>2 DEF Line
      <4>2. MayFollow(c, m, task, task')
        BY <1>3, <3>2
      <4>3. Line(got[c], Append(own[c], m), TRUE, c, task')
        BY <1>2, <4>1, <4>2, LineGrows DEF MayFollow
      <4>4. Line(got[c], own'[c], sender[c], c, task')
        <5> DEFINE line(running) == Line(got[c], own'[c], running, c, task')
        <5>1. line(TRUE)
          BY <2>2, <4>3
        <5>2. sender[c] = TRUE
          BY <1>1, <3>2 DEF Typed
        <5> HIDE DEF line
        <5>3. line(sender[c])
          BY <5>1, <5>2
        <5> QED BY <5>3 DEF line
      <4> QED BY <3>2, <4>4
    <3>3. CASE sender[d] /\ d # c
      <4>1. own'[d] = own[d] /\ Follows(d, Reply, task, task')
        BY <2>2, <3>3
      <4>2. \A i \in Ids : Reply # Provisional(i)
        BY Kinds
      <4> QED BY <3>1, <4>1, <4>2 DEF Line, Follows
    <3>4. CASE ~sender[d]
      BY <3>1, <3>4 DEF Line
    <3> QED BY <3>2, <3>3, <3>4
  <2> QED BY <2>5, <2>6, <2>7 DEF IInv
<1>4. CASE which = "fresh"
  <2>1. fresh' = [fresh EXCEPT ![c] = Append(@, m)] /\ own' = own /\ Len(fresh[c]) < Cap
    BY <1>4 DEF PutInto, HasRoom, Queue
  <2>2. fresh'[c] = Append(fresh[c], m) /\ \A d \in Conns : d # c => fresh'[d] = fresh[d]
    BY <1>1, <2>1 DEF Bounded
  <2>3. Append(fresh[c], m) \in Seq(Messages) /\ Len(Append(fresh[c], m)) <= Cap
    BY <1>2, <2>1, Bounds
  <2>4. Bounded(fresh')
    BY <1>1, <2>1, <2>2, <2>3 DEF Bounded
  <2>5. Typed'
    BY <1>1, <2>1, <2>4 DEF Typed
  <2>6. Content(handler', session', task', own', fresh', got')
    <3> SUFFICES ASSUME NEW d \in Conns
                 PROVE  /\ \A k \in DOMAIN own[d] : Explained(d, own[d][k], handler', session', task')
                        /\ \A k \in DOMAIN got[d] : Explained(d, got[d][k], handler', session', task')
                        /\ \A k \in DOMAIN fresh'[d] : \A i \in Ids : fresh'[d][k] = Final(i) => i \in session'.done
      BY <2>1 DEF Content
    <3>1. ASSUME NEW k \in DOMAIN own[d] PROVE Explained(d, own[d][k], handler', session', task')
      <4>1. own[d][k] \in Messages /\ Explained(d, own[d][k], handler, session, task)
        BY <1>1, <1>2 DEF Content
      <4> QED BY <4>1 DEF KeepsExplained
    <3>2. ASSUME NEW k \in DOMAIN got[d] PROVE Explained(d, got[d][k], handler', session', task')
      <4>1. got[d][k] \in Messages /\ Explained(d, got[d][k], handler, session, task)
        BY <1>1, <1>2 DEF Content
      <4> QED BY <4>1 DEF KeepsExplained
    <3>3. \A k \in DOMAIN fresh[d] : \A i \in Ids : fresh[d][k] = Final(i) => i \in session'.done
      BY <1>1 DEF Content
    <3>4. ASSUME NEW k \in DOMAIN fresh'[d], NEW i \in Ids, fresh'[d][k] = Final(i)
          PROVE  i \in session'.done
      <4>1. CASE d = c
        <5>1. (k \in DOMAIN fresh[c] /\ fresh'[c][k] = fresh[c][k]) \/ fresh'[c][k] = m
          BY <1>2, <2>2, <4>1, Appended
        <5> QED BY <1>4, <3>3, <3>4, <4>1, <5>1
      <4>2. CASE d # c
        BY <2>2, <3>3, <3>4, <4>2
      <4> QED BY <4>1, <4>2
    <3> QED BY <3>1, <3>2, <3>4
  <2>7. Lines(sender', task', own', got')
    <3> SUFFICES ASSUME NEW d \in Conns PROVE Line(got[d], own[d], sender[d], d, task')
      BY <2>1 DEF Lines
    <3>1. Line(got[d], own[d], sender[d], d, task)
      BY <1>1 DEF Lines
    <3>2. CASE sender[d]
      <4>1. Follows(d, Reply, task, task')
        BY <1>4, <3>2
      <4>2. \A i \in Ids : Reply # Provisional(i)
        BY Kinds
      <4> QED BY <3>1, <4>1, <4>2 DEF Line, Follows
    <3>3. CASE ~sender[d]
      BY <3>1, <3>3 DEF Line
    <3> QED BY <3>2, <3>3
  <2> QED BY <2>5, <2>6, <2>7 DEF IInv
<1> QED BY <1>3, <1>4

LEMMA OpeningPut ==
  ASSUME Typed, Opening(handler, own, got, task), NEW c \in Conns, NEW which, NEW m,
         PutInto(c, which, m), got' = got,
         \A d \in Conns : Untouched(handler'[d]) => d # c /\ Untouched(handler[d]),
         \A d \in Conns : d # c => Follows(d, Reply, task, task')
  PROVE  Opening(handler', own', got', task')
<1>1. \A d \in Conns : d # c => own'[d] = own[d]
  BY DEF PutInto, Typed, Bounded
<1>2. \A i \in Ids : Reply # Provisional(i)
  BY Kinds
<1> SUFFICES ASSUME NEW d \in Conns, Untouched(handler'[d])
             PROVE  own'[d] = <<>> /\ got'[d] = <<>> /\ \A i \in Ids : task'[i].at # "none" => task'[i].of # d
  BY DEF Opening
<1>3. d # c /\ own[d] = <<>> /\ got[d] = <<>> /\ \A i \in Ids : task[i].at # "none" => task[i].of # d
  BY DEF Opening
<1>4. \A i \in Ids : task'[i].at # "none" => task'[i].of # d
  BY <1>2, <1>3 DEF Follows
<1> QED BY <1>1, <1>3, <1>4

\* The second pass of i goes on, with its result recorded.
Moves(i, t, u) ==
  /\ \A j \in Ids : j # i => u[j] = t[j]
  /\ t[i].at \in {"runs", "puts"} /\ u[i].at \in {"puts", "ended"} /\ u[i].of = t[i].of

LEMMA Recorded ==
  ASSUME IInv, NEW i \in Ids, task' \in [Ids -> Tasks], Moves(i, task, task'),
         session' = [session EXCEPT !.done = @ \cup {i}], handler' = handler, sender' = sender
  PROVE  /\ session' \in Sessions /\ session'.done = session.done \cup {i}
         /\ Turns(handler', sender', session') /\ Plans(handler', session', task')
         /\ Cuts(session', task')
         /\ KeepsExplained(handler, session, task, handler', session', task')
         /\ \A d \in Conns : Follows(d, Reply, task, task')
         /\ ~Closed(handler, session, task)
<1>1. /\ Turns(handler, sender, session) /\ Plans(handler, session, task) /\ Cuts(session, task)
      /\ session \in Sessions
  BY DEF IInv, Typed
<1>2. /\ session' \in Sessions /\ session'.done = session.done \cup {i} /\ session'.cut = session.cut
      /\ session'.status = session.status /\ session'.holder = session.holder
      /\ session'.stopping = session.stopping
  <2>1. session.done \cup {i} \in SUBSET Ids
    BY <1>1 DEF Sessions
  <2> QED BY <1>1, <2>1 DEF Sessions
<1>3. i \in Pends(task)
  BY DEF Moves, Pends
<1>4. \A j \in Ids : task'[j].of = task[j].of /\ (task'[j].at = "none" <=> task[j].at = "none")
                     /\ (task[j].at = "ended" => task'[j].at = "ended")
                     /\ (task'[j].at = "puts" => task[j].at = "puts" \/ j = i)
  BY DEF Moves
<1>5. ~Closed(handler, session, task)
  BY <1>3 DEF Closed
<1>6. Turns(handler', sender', session')
  BY <1>1, <1>2 DEF Turns
<1>7. Plans(handler', session', task')
  <2> SUFFICES ASSUME NEW d \in Conns PROVE Plan(handler[d].todo, session', task')
    BY DEF Plans
  <2>1. Plan(handler[d].todo, session, task) /\ Pends(task) # {}
    BY <1>1, <1>3 DEF Plans
  <2> QED BY <1>2, <1>4, <2>1 DEF Plan
<1>8. Cuts(session', task')
  BY <1>1, <1>2, <1>4 DEF Cuts
<1>9. KeepsExplained(handler, session, task, handler', session', task')
  <2> SUFFICES ASSUME NEW d \in Conns, NEW x \in Messages, Explained(d, x, handler, session, task)
               PROVE  Explained(d, x, handler', session', task')
    BY DEF KeepsExplained
  <2>1. x.type # "finished"
    BY <1>5 DEF Explained
  <2>2. \A j \in Ids : x = Provisional(j) => task'[j].at # "none" /\ task'[j].of = d
    BY <1>4 DEF Explained
  <2>3. \A j \in Ids : x = Final(j) => task'[j].at = "ended" /\ j \in session'.done
    BY <1>2, <1>4 DEF Explained
  <2> QED BY <2>1, <2>2, <2>3 DEF Explained
<1>10. \A d \in Conns : Follows(d, Reply, task, task')
  BY <1>4 DEF Follows
<1> QED BY <1>2, <1>5, <1>6, <1>7, <1>8, <1>9, <1>10

LEMMA FinalPut ==
  ASSUME IInv, NEW i \in Ids, task[i].at \in {"runs", "puts"}, NEW c, c = task[i].of,
         NEW which \in {"own", "fresh"}, HasRoom(c, which), PutInto(c, which, Final(i)),
         task' = [task EXCEPT ![i].at = "ended"],
         session' = [session EXCEPT !.done = @ \cup {i}],
         UNCHANGED <<handler, sender, lost, replies, got>>
  PROVE  IInv'
<1>1. /\ Typed /\ Turns(handler, sender, session) /\ Opening(handler, own, got, task)
      /\ Cuts(session, task) /\ Content(handler, session, task, own, fresh, got)
      /\ Lines(sender, task, own, got)
      /\ task \in [Ids -> Tasks] /\ handler \in [Conns -> Handlers]
  BY DEF IInv, Typed
<1>2. c \in Conns
  BY <1>1 DEF Cuts
<1>3. task' \in [Ids -> Tasks] /\ Moves(i, task, task') /\ task'[i].at = "ended"
  <2>1. [task[i] EXCEPT !.at = "ended"] \in Tasks
    BY <1>1 DEF Tasks
  <2>2. task' = [task EXCEPT ![i] = [task[i] EXCEPT !.at = "ended"]]
    OBVIOUS
  <2>3. task'[i] = [task[i] EXCEPT !.at = "ended"] /\ \A j \in Ids : j # i => task'[j] = task[j]
    BY <1>1, <2>2
  <2>4. task'[i].at = "ended" /\ task'[i].of = task[i].of
    BY <1>1, <2>3 DEF Tasks
  <2> QED BY <1>1, <2>1, <2>2, <2>3, <2>4 DEF Moves
<1>4. handler' = handler /\ sender' = sender /\ got' = got /\ lost' = lost /\ replies' = replies
  OBVIOUS
<1>5. /\ session' \in Sessions /\ session'.done = session.done \cup {i}
      /\ Turns(handler', sender', session') /\ Plans(handler', session', task')
      /\ Cuts(session', task')
      /\ KeepsExplained(handler, session, task, handler', session', task')
      /\ \A d \in Conns : Follows(d, Reply, task, task')
      /\ ~Closed(handler, session, task)
  BY <1>3, <1>4, Recorded
<1> DEFINE m == Final(i)
<1>6. m \in Messages
  BY MessageTypes
<1>7. /\ m.type # "finished" /\ m # Reply /\ \A j \in Ids : m # Provisional(j)
      /\ \A j \in Ids : m = Final(j) => j = i
  BY Kinds
<1>8. Opening(handler', own', got', task')
  <2>1. \A d \in Conns : Untouched(handler[d]) => d # c
    BY <1>1, <1>2 DEF Opening
  <2> QED BY <1>1, <1>2, <1>4, <1>5, <2>1, OpeningPut
<1>9. Explained(c, m, handler', session', task')
  <2>1. task'[i].at = "ended" /\ i \in session'.done
    BY <1>3, <1>5
  <2> HIDE DEF m
  <2> QED BY <1>7, <2>1 DEF Explained
<1>10. \A j \in Ids : m = Final(j) => j \in session'.done
  BY <1>5, <1>7
<1>11. ASSUME NEW x, Explained(c, x, handler, session, task) PROVE Precedes(x, m)
  <2>1. x # m
    BY <1>11 DEF Explained
  <2>2. x.type # "finished"
    BY <1>5, <1>11 DEF Explained
  <2> HIDE DEF m
  <2> QED BY <1>7, <2>1, <2>2 DEF Precedes
<1>12. ASSUME sender[c] PROVE MayFollow(c, m, task, task')
  <2>1. \A k \in DOMAIN got[c] : Precedes(got[c][k], m)
    BY <1>1, <1>2, <1>11 DEF Content
  <2>2. \A k \in DOMAIN own[c] : Precedes(own[c][k], m)
    BY <1>1, <1>2, <1>11 DEF Content
  <2>3. \/ \E j \in DOMAIN got[c] : got[c][j] = Provisional(i)
        \/ \E j \in DOMAIN own[c] : own[c][j] = Provisional(i)
    <3>1. Line(got[c], own[c], sender[c], c, task)
      BY <1>1, <1>2 DEF Lines
    <3> QED BY <1>12, <3>1 DEF Line
  <2>4. Announced(got[c], own[c], m)
    <3> HIDE DEF m
    <3> QED BY <1>7, <2>3 DEF Announced
  <2>5. Follows(c, m, task, task')
    <3>1. Follows(c, Reply, task, task')
      BY <1>2, <1>5
    <3>2. \A j \in Ids : Reply # Provisional(j)
      BY Kinds
    <3> QED BY <3>1, <3>2 DEF Follows
  <2> HIDE DEF m
  <2> QED BY <2>1, <2>2, <2>4, <2>5 DEF MayFollow
<1>13. handler' \in [Conns -> Handlers] /\ PutInto(c, which, m) /\ session.done \subseteq session'.done
  BY <1>1, <1>4, <1>5
<1> HIDE DEF m
<1> QED BY <1>2, <1>3, <1>4, <1>5, <1>6, <1>8, <1>9, <1>10, <1>12, <1>13, PutStep

LEMMA TaskPutsInv == ASSUME IInv, NEW i \in Ids, TaskPuts(i) PROVE IInv'
<1> DEFINE c == task[i].of
<1>1. /\ task[i].at = "puts" /\ HasRoom(c, task[i].queue) /\ PutInto(c, task[i].queue, Final(i))
      /\ task' = [task EXCEPT ![i].at = "ended"]
      /\ UNCHANGED <<handler, sender, lost, session, replies, got>>
  BY DEF TaskPuts
<1>2. session \in Sessions /\ Cuts(session, task) /\ task \in [Ids -> Tasks]
  BY DEF IInv, Typed
<1>3. session' = [session EXCEPT !.done = @ \cup {i}]
  <2>1. session.done \cup {i} = session.done
    BY <1>1, <1>2 DEF Cuts
  <2>2. [session EXCEPT !.done = session.done] = session
    BY <1>2 DEF Sessions
  <2> QED BY <1>1, <2>1, <2>2
<1>4. task[i].queue \in {"own", "fresh"}
  BY <1>2 DEF Tasks
<1> HIDE DEF c
<1>5. c = task[i].of
  BY DEF c
<1> QED BY <1>1, <1>3, <1>4, <1>5, FinalPut

LEMMA TaskDoneInv == ASSUME IInv, NEW i \in Ids, TaskDone(i) PROVE IInv'
<1> DEFINE c == task[i].of
<1>1. /\ task[i].at = "runs" /\ session' = [session EXCEPT !.done = @ \cup {i}]
      /\ UNCHANGED <<handler, sender, lost, replies, got>>
  BY DEF TaskDone
<1>2. Out(c) \in {"own", "fresh"}
  BY DEF Out
<1>3. CASE HasRoom(c, Out(c))
  <2>1. PutInto(c, Out(c), Final(i)) /\ task' = [task EXCEPT ![i].at = "ended"]
    BY <1>3 DEF TaskDone
  <2>2. c = task[i].of
    OBVIOUS
  <2> HIDE DEF c
  <2> QED BY <1>1, <1>2, <1>3, <2>1, <2>2, FinalPut
<1>4. CASE ~HasRoom(c, Out(c))
  <2>1. task' = [task EXCEPT ![i].at = "puts", ![i].queue = Out(c)] /\ UNCHANGED <<own, fresh>>
    BY <1>4 DEF TaskDone
  <2>2. /\ Typed /\ Content(handler, session, task, own, fresh, got) /\ Lines(sender, task, own, got)
        /\ Opening(handler, own, got, task) /\ task \in [Ids -> Tasks]
        /\ Bounded(own) /\ Bounded(fresh) /\ got \in [Conns -> Seq(Messages)]
    BY DEF IInv, Typed
  <2>3. task' \in [Ids -> Tasks] /\ Moves(i, task, task')
    <3> DEFINE r == [task[i] EXCEPT !.at = "puts", !.queue = Out(c)]
    <3>1. task' = [task EXCEPT ![i] = r]
      <4>1. i \in DOMAIN task
        BY <2>2
      <4> QED BY <2>1, <4>1
    <3>2. r \in Tasks /\ r.at = "puts" /\ r.of = task[i].of
      <4>1. task[i] \in Tasks
        BY <2>2
      <4> QED BY <1>2, <4>1 DEF Tasks
    <3> HIDE DEF r
    <3>3. task'[i] = r /\ \A j \in Ids : j # i => task'[j] = task[j]
      BY <2>2, <3>1
    <3> QED BY <1>1, <2>2, <3>1, <3>2, <3>3 DEF Moves
  <2> HIDE DEF c
  <2>4. /\ session' \in Sessions /\ session'.done = session.done \cup {i}
        /\ Turns(handler', sender', session') /\ Plans(handler', session', task')
        /\ Cuts(session', task')
        /\ KeepsExplained(handler, session, task, handler', session', task')
        /\ \A d \in Conns : Follows(d, Reply, task, task')
    BY <1>1, <2>3, Recorded
  <2>5. Typed'
    BY <1>1, <2>1, <2>2, <2>3, <2>4 DEF Typed
  <2>6. \A j \in Ids : Reply # Provisional(j)
    BY Kinds
  <2>7. Opening(handler', own', got', task')
    BY <1>1, <2>1, <2>2, <2>4, <2>6 DEF Opening, Follows
  <2>8. Content(handler', session', task', own', fresh', got')
    <3> SUFFICES ASSUME NEW d \in Conns
                 PROVE  /\ \A k \in DOMAIN own[d] : Explained(d, own[d][k], handler', session', task')
                        /\ \A k \in DOMAIN got[d] : Explained(d, got[d][k], handler', session', task')
                        /\ \A k \in DOMAIN fresh[d] : \A j \in Ids : fresh[d][k] = Final(j) => j \in session'.done
      BY <1>1, <2>1 DEF Content
    <3>1. ASSUME NEW k \in DOMAIN own[d] PROVE Explained(d, own[d][k], handler', session', task')
      <4>1. own[d][k] \in Messages /\ Explained(d, own[d][k], handler, session, task)
        BY <2>2 DEF Content, Bounded
      <4> QED BY <2>4, <4>1 DEF KeepsExplained
    <3>2. ASSUME NEW k \in DOMAIN got[d] PROVE Explained(d, got[d][k], handler', session', task')
      <4>1. got[d][k] \in Messages /\ Explained(d, got[d][k], handler, session, task)
        BY <2>2 DEF Content
      <4> QED BY <2>4, <4>1 DEF KeepsExplained
    <3>3. \A k \in DOMAIN fresh[d] : \A j \in Ids : fresh[d][k] = Final(j) => j \in session'.done
      BY <2>2, <2>4 DEF Content
    <3> QED BY <3>1, <3>2, <3>3
  <2>9. Lines(sender', task', own', got')
    <3> SUFFICES ASSUME NEW d \in Conns PROVE Line(got[d], own[d], sender[d], d, task')
      BY <1>1, <2>1 DEF Lines
    <3>1. Line(got[d], own[d], sender[d], d, task) /\ Follows(d, Reply, task, task')
      BY <2>2, <2>4 DEF Lines
    <3> QED BY <2>6, <3>1 DEF Line, Follows
  <2> QED BY <2>4, <2>5, <2>7, <2>8, <2>9 DEF IInv
<1> QED BY <1>3, <1>4

\* What a handler may put next to what its connection has had.
LEMMA PutExplained ==
  ASSUME IInv, NEW c \in Conns, NEW m, task' = task, handler[c].todo # <<Resumed(session.cut)>>,
         m = Reply \/ (m.type = "finished" /\ m # Reply /\ ~Closed(handler, session, task))
  PROVE  MayFollow(c, m, task, task')
<1>1. Content(handler, session, task, own, fresh, got)
  BY DEF IInv
<1>2. \A i : m # Provisional(i) /\ m # Final(i)
  BY Kinds
<1>3. ASSUME NEW x, Explained(c, x, handler, session, task) PROVE Precedes(x, m)
  <2>1. CASE m = Reply
    BY <2>1 DEF Precedes
  <2>2. CASE m.type = "finished" /\ ~Closed(handler, session, task)
    <3>1. x.type # "finished"
      BY <1>3, <2>2 DEF Explained
    <3> QED BY <1>2, <2>2, <3>1 DEF Precedes
  <2> QED BY <2>1, <2>2
<1>4. \A k \in DOMAIN got[c] : Precedes(got[c][k], m)
  BY <1>1, <1>3 DEF Content
<1>5. \A k \in DOMAIN own[c] : Precedes(own[c][k], m)
  BY <1>1, <1>3 DEF Content
<1> QED BY <1>2, <1>4, <1>5 DEF MayFollow, Announced, Follows

LEMMA PutInv == ASSUME IInv, NEW c \in Conns, Put(c) PROVE IInv'
<1> DEFINE todo == handler[c].todo
           m == Head(todo)
           n == IF m.type = "finished" THEN Finished(session.done) ELSE m
           which == Out(c)
<1>1. /\ Running(c) /\ m # Wait /\ HasRoom(c, which) /\ PutInto(c, which, n) /\ Proceed(c)
      /\ task' = [i \in Ids |-> IF m = Provisional(i) THEN [at |-> "runs", of |-> c, queue |-> "own"] ELSE task[i]]
      /\ UNCHANGED <<sender, lost, session, replies, got>>
  BY DEF Put
<1>2. /\ Typed /\ Turns(handler, sender, session) /\ Plans(handler, session, task)
      /\ Opening(handler, own, got, task) /\ Cuts(session, task)
      /\ Content(handler, session, task, own, fresh, got)
      /\ session \in Sessions /\ task \in [Ids -> Tasks] /\ handler \in [Conns -> Handlers]
  BY DEF IInv, Typed
<1>3. /\ Plan(todo, session, task) /\ todo # <<>> /\ handler[c].at \in {"busy", "finalising"}
      /\ session.done \in SUBSET Ids
  BY <1>1, <1>2 DEF Plans, Running, Sessions
<1>4. PICK hc \in Handlers :
        /\ hc.at = handler[c].at /\ hc.todo = Tail(todo)
        /\ handler' = [handler EXCEPT ![c] = hc]
  BY <1>1, Goes
<1>5. handler'[c] = hc /\ \A d \in Conns : d # c => handler'[d] = handler[d]
  BY <1>2, <1>4, HandlerOf
<1>6. handler' \in [Conns -> Handlers]
  BY <1>2, <1>4
<1>7. which \in {"own", "fresh"}
  BY DEF Out
<1> HIDE DEF which, n, m, todo
<1>8. \A d \in Conns : d # c => handler[d].at \notin {"idle", "busy", "finalising"}
                                /\ handler[d].todo = <<>> /\ ~sender[d]
  BY <1>2, <1>3, Others
<1>9. Turns(handler', sender', session')
  BY <1>1, <1>2, <1>3, <1>4, <1>5 DEF Turns
<1>10. session' = session /\ sender' = sender /\ got' = got
  BY <1>1
<1>11. todo = handler[c].todo /\ m = Head(todo)
  BY DEF todo, m
<1>12. \/ /\ m = Reply \/ (\E k \in 0..MaxSentences : todo = <<Resumed(k)>> /\ m = Resumed(k))
          /\ Tail(todo) = <<>>
       \/ /\ session.cut \in Ids /\ task[session.cut].at = "none" /\ m = Provisional(session.cut)
          /\ \/ Tail(todo) = <<>> \/ Tail(todo) = <<Reply>>
             \/ session.stopping /\ Tail(todo) = <<Wait, Finished({})>>
       \/ session.stopping /\ m = Finished({}) /\ Tail(todo) = <<>> /\ Pends(task) = {}
  BY <1>1, <1>3, <1>11, PlanHead
<1>13. \A k \in 0..MaxSentences : Tail(todo) # <<Resumed(k)>>
  BY <1>12, NotReplies
<1>14. \A d \in Conns : Untouched(handler'[d]) => d # c /\ Untouched(handler[d])
  BY <1>3, <1>4, <1>5, <1>13 DEF Untouched
<1>15. CASE m = Reply \/ (\E k \in 0..MaxSentences : todo = <<Resumed(k)>> /\ m = Resumed(k)) \/ m = Finished({})
  <2>1. /\ \A i : m # Provisional(i) /\ n # Provisional(i) /\ n # Final(i)
        /\ Tail(todo) = <<>> /\ n \in Messages
    <3>1. \A i : m # Provisional(i)
      BY <1>15, Kinds
    <3>2. Tail(todo) = <<>>
      BY <1>12, <3>1
    <3>3. n = m \/ n = Finished(session.done)
      BY DEF n
    <3>4. n \in Messages
      BY <1>3, <1>15, <3>3, MessageTypes
    <3>5. \A i : n # Provisional(i) /\ n # Final(i)
      BY <1>15, <3>3, Kinds
    <3> QED BY <3>1, <3>2, <3>4, <3>5
  <2>2. task' = task
    BY <1>1, <1>2, <2>1
  <2>3. \A d \in Conns : handler'[d].todo = <<>>
    BY <1>4, <1>5, <1>8, <2>1
  <2>4. Plans(handler', session', task')
    BY <2>3, PlanNothing DEF Plans
  <2>5. Closed(handler, session, task) => Closed(handler', session', task')
    BY <1>10, <2>2, <2>3 DEF Closed
  <2>6. KeepsExplained(handler, session, task, handler', session', task')
    BY <1>10, <2>2, <2>5 DEF KeepsExplained, Explained
  <2>7. \A d \in Conns : Follows(d, Reply, task, task')
    BY <2>2 DEF Follows
  <2>8. Opening(handler', own', got', task')
    BY <1>1, <1>2, <1>10, <1>14, <2>7, OpeningPut
  <2>9. Cuts(session', task')
    BY <1>2, <1>10, <2>2
  <2>10. m.type # "finished" => n = m /\ n.type # "finished"
    BY DEF n
  <2>11. m.type = "finished" => n = Finished(session.done) /\ n.type = "finished"
                                /\ n.about = session.done /\ n # Reply
    BY Kinds DEF n
  <2>12. m.type = "finished" => session.stopping /\ Pends(task) = {} /\ todo # <<Reply>>
    <3>1. m.type = "finished" => m = Finished({}) /\ m # Reply /\ (\A k : m # Resumed(k))
      BY <1>15, Kinds
    <3>2. m.type = "finished" => todo # <<Reply>>
      BY <1>11, <3>1, Heads
    <3>3. \A i : m # Provisional(i)
      BY <2>1
    <3> QED BY <1>12, <3>1, <3>2, <3>3
  <2>13. Explained(c, n, handler', session', task')
    <3>1. n.type = "finished" => n.about = session'.done /\ Closed(handler', session', task')
      BY <1>10, <2>2, <2>3, <2>10, <2>11, <2>12 DEF Closed
    <3> QED BY <2>1, <3>1 DEF Explained
  <2>14. ASSUME sender[c], which = "own" PROVE MayFollow(c, n, task, task')
    <3>1. CASE \E k \in 0..MaxSentences : todo = <<Resumed(k)>>
      <4>1. own[c] = <<>> /\ got[c] = <<>>
        BY <1>2, <1>11, <3>1 DEF Opening, Untouched
      <4> QED BY <2>1, <2>2, <4>1 DEF MayFollow, Announced, Follows
    <3>2. CASE ~\E k \in 0..MaxSentences : todo = <<Resumed(k)>>
      <4>1. session.cut \in 0..MaxSentences
        BY <1>2 DEF Sessions
      <4>2. handler[c].todo # <<Resumed(session.cut)>>
        BY <1>11, <3>2, <4>1
      <4>3. CASE m.type = "finished"
        <5>1. ~Closed(handler, session, task)
          BY <1>3, <1>11, <2>12, <4>3 DEF Closed
        <5> QED BY <2>2, <2>11, <4>2, <4>3, <5>1, PutExplained
      <4>4. CASE m.type # "finished"
        <5>1. m = Reply
          BY <1>15, <3>2, <4>4, Kinds
        <5> QED BY <2>2, <2>10, <4>2, <4>4, <5>1, PutExplained
      <4> QED BY <4>3, <4>4
    <3> QED BY <3>1, <3>2
  <2>15. session' \in Sessions /\ task' \in [Ids -> Tasks] /\ session.done \subseteq session'.done
         /\ UNCHANGED <<sender, lost, replies, got>>
    BY <1>1, <1>2, <1>10, <2>2
  <2> QED BY <1>1, <1>6, <1>7, <1>9, <2>1, <2>4, <2>6, <2>7, <2>8, <2>9, <2>13, <2>14, <2>15, PutStep
<1>16. CASE /\ session.cut \in Ids /\ task[session.cut].at = "none" /\ m = Provisional(session.cut)
            /\ \/ Tail(todo) = <<>> \/ Tail(todo) = <<Reply>>
               \/ session.stopping /\ Tail(todo) = <<Wait, Finished({})>>
  <2> DEFINE s == session.cut
             r == [at |-> "runs", of |-> c, queue |-> "own"]
  <2>1. /\ m.type # "finished" /\ n = m /\ m # Reply /\ n \in Messages
        /\ \A i : n = Provisional(i) => i = s
        /\ \A i : n # Final(i)
    <3>1. m.type # "finished" /\ m # Reply /\ m \in Messages
      BY <1>16, Kinds, MessageTypes
    <3>2. \A i : m = Provisional(i) => i = s
      BY <1>16, Kinds
    <3>3. \A i : m # Final(i)
      BY <1>16, Kinds
    <3>4. n = m
      BY <3>1 DEF n
    <3> QED BY <3>1, <3>2, <3>3, <3>4
  <2>2. task'[s] = r /\ \A i \in Ids : i # s => task'[i] = task[i]
    BY <1>1, <1>16, <2>1
  <2>3. r \in Tasks /\ r.at = "runs" /\ r.of = c
    BY Bounds DEF Tasks, Conns
  <2>4. task' \in [Ids -> Tasks]
    <3>1. task' = [i \in Ids |-> IF i = s THEN r ELSE task[i]]
      BY <1>1, <1>16, <2>1
    <3> HIDE DEF r, s
    <3> QED BY <1>2, <2>3, <3>1
  <2>5. s \in Ids /\ task[s].at = "none" /\ m = Provisional(s)
    BY <1>16
  <2> HIDE DEF r
  <2>6. Plan(Tail(todo), session', task')
    BY <1>10, <1>16 DEF Plan
  <2>7. Plans(handler', session', task')
    BY <1>4, <1>5, <1>8, <2>6, PlanNothing DEF Plans
  <2>8. ~Closed(handler, session, task)
    <3>1. todo # <<Reply>>
      BY <1>11, <2>1, Heads
    <3> QED BY <1>3, <1>11, <3>1 DEF Closed
  <2>9. KeepsExplained(handler, session, task, handler', session', task')
    <3> SUFFICES ASSUME NEW d \in Conns, NEW x \in Messages, Explained(d, x, handler, session, task)
                 PROVE  Explained(d, x, handler', session', task')
      BY DEF KeepsExplained
    <3>1. x.type # "finished"
      BY <2>8 DEF Explained
    <3>2. \A i \in Ids : x = Provisional(i) => task'[i].at # "none" /\ task'[i].of = d
      BY <2>2, <2>5 DEF Explained
    <3>3. \A i \in Ids : x = Final(i) => task'[i].at = "ended" /\ i \in session'.done
      BY <1>10, <2>2, <2>5 DEF Explained
    <3> QED BY <3>1, <3>2, <3>3 DEF Explained
  <2>10. \A d \in Conns : d # c => Follows(d, Reply, task, task')
    BY <2>2, <2>3 DEF Follows
  <2>11. Opening(handler', own', got', task')
    BY <1>1, <1>2, <1>10, <1>14, <2>10, OpeningPut
  <2>12. Cuts(session', task')
    <3>1. s <= s
      BY <1>2 DEF Sessions
    <3> QED BY <1>2, <1>10, <2>2, <2>3, <3>1 DEF Cuts
  <2>13. Explained(c, n, handler', session', task')
    <3>1. \A i \in Ids : n = Provisional(i) => task'[i].at # "none" /\ task'[i].of = c
      BY <2>1, <2>2, <2>3
    <3> QED BY <2>1, <3>1 DEF Explained
  <2>14. ASSUME NEW x, Explained(c, x, handler, session, task) PROVE Precedes(x, n)
    <3>1. x.type # "finished" /\ x # Provisional(s)
      BY <2>5, <2>8, <2>14 DEF Explained
    <3>2. ASSUME NEW h \in Ids, NEW i \in Ids, x = Provisional(h), n = Provisional(i) PROVE h < i
      <4>1. i = s /\ task[h].at # "none" /\ h # s
        BY <2>1, <2>5, <2>14, <3>1, <3>2 DEF Explained
      <4>2. h <= s /\ h \in Int /\ s \in Int
        BY <1>2, <2>5, <4>1 DEF Cuts, Ids
      <4> HIDE DEF s
      <4> QED BY <4>1, <4>2
    <3> QED BY <2>1, <2>5, <3>1, <3>2 DEF Precedes
  <2>15. ASSUME sender[c], which = "own" PROVE MayFollow(c, n, task, task')
    <3>1. \A k \in DOMAIN got[c] : Precedes(got[c][k], n)
      BY <1>2, <2>14 DEF Content
    <3>2. \A k \in DOMAIN own[c] : Precedes(own[c][k], n)
      BY <1>2, <2>14 DEF Content
    <3>3. Announced(got[c], own[c], n)
      BY <2>1 DEF Announced
    <3>4. Follows(c, n, task, task')
      BY <2>1, <2>2, <2>5 DEF Follows
    <3> QED BY <3>1, <3>2, <3>3, <3>4 DEF MayFollow
  <2>16. \A d \in Conns : sender[d] => (d = c /\ which = "own") \/ Follows(d, Reply, task, task')
    <3>1. sender[c] => which = "own"
      BY <1>2, <1>3 DEF Turns, which, Out
    <3> QED BY <2>10, <3>1
  <2>17. session' \in Sessions /\ session.done \subseteq session'.done
         /\ UNCHANGED <<sender, lost, replies, got>>
    BY <1>1, <1>2, <1>10
  <2>18. \A i \in Ids : n = Final(i) => i \in session'.done
    BY <2>1
  <2> QED BY <1>1, <1>6, <1>7, <1>9, <2>1, <2>4, <2>7, <2>9, <2>11, <2>12, <2>13, <2>15, <2>16, <2>17, <2>18, PutStep
<1> QED BY <1>12, <1>15, <1>16

----------------------------------------------------------------------------
(* Steps that take a message from a queue.                                 *)

LEMMA Taken ==
  ASSUME NEW q \in Seq(Messages), q # <<>>
  PROVE  /\ Tail(q) \in Seq(Messages) /\ Len(Tail(q)) <= Len(q) /\ Head(q) \in Messages
         /\ 1 \in DOMAIN q /\ q[1] = Head(q)
         /\ \A k \in DOMAIN Tail(q) : k + 1 \in DOMAIN q /\ Tail(q)[k] = q[k + 1] /\ 1 < k + 1 /\ k \in Nat
         /\ \A k \in DOMAIN q : k \in Nat /\ (k = 1 \/ (k - 1 \in DOMAIN Tail(q) /\ Tail(q)[k - 1] = q[k]))
OBVIOUS

\* What is left in a queue is as it was.
LEMMA TakenExplained ==
  ASSUME IInv, NEW c \in Conns, own[c] # <<>>, own' = [own EXCEPT ![c] = Tail(@)],
         got' \in [Conns -> Seq(Messages)],
         \A d \in Conns : got'[d] = got[d] \/ (d = c /\ got'[d] = Append(got[d], Head(own[d]))),
         sender' \in [Conns -> BOOLEAN], \A d \in Conns : sender'[d] => sender[d],
         Lines(sender', task, own', got'),
         UNCHANGED <<handler, lost, fresh, session, task, replies>>
  PROVE  IInv'
<1>1. /\ Typed /\ Turns(handler, sender, session) /\ Plans(handler, session, task)
      /\ Opening(handler, own, got, task) /\ Cuts(session, task)
      /\ Content(handler, session, task, own, fresh, got)
      /\ Bounded(own) /\ Bounded(fresh) /\ got \in [Conns -> Seq(Messages)]
  BY DEF IInv, Typed
<1>2. own[c] \in Seq(Messages) /\ Len(own[c]) <= Cap /\ Len(own[c]) \in Nat
  BY <1>1 DEF Bounded
<1>3. own'[c] = Tail(own[c]) /\ \A d \in Conns : d # c => own'[d] = own[d]
  BY <1>1 DEF Bounded
<1>4. Tail(own[c]) \in Seq(Messages) /\ Len(Tail(own[c])) <= Len(own[c]) /\ Len(Tail(own[c])) \in Nat
  BY <1>2, Taken
<1>5. Bounded(own')
  <2>1. Len(Tail(own[c])) <= Cap
    BY <1>2, <1>4, Bounds
  <2> QED BY <1>1, <1>3, <1>4, <2>1 DEF Bounded
<1>6. Typed'
  BY <1>1, <1>5 DEF Typed
<1>7. Turns(handler', sender', session')
  BY <1>1 DEF Turns
<1>8. Plans(handler', session', task') /\ Cuts(session', task')
  BY <1>1
<1>9. Opening(handler', own', got', task')
  BY <1>1, <1>3 DEF Opening
<1>10. Content(handler', session', task', own', fresh', got')
  <2> SUFFICES ASSUME NEW d \in Conns
               PROVE  /\ \A k \in DOMAIN own'[d] : Explained(d, own'[d][k], handler, session, task)
                      /\ \A k \in DOMAIN got'[d] : Explained(d, got'[d][k], handler, session, task)
                      /\ \A k \in DOMAIN fresh[d] : \A i \in Ids : fresh[d][k] = Final(i) => i \in session.done
    BY DEF Content
  <2>1. /\ \A k \in DOMAIN own[d] : Explained(d, own[d][k], handler, session, task)
        /\ \A k \in DOMAIN got[d] : Explained(d, got[d][k], handler, session, task)
        /\ \A k \in DOMAIN fresh[d] : \A i \in Ids : fresh[d][k] = Final(i) => i \in session.done
    BY <1>1 DEF Content
  <2>2. ASSUME NEW k \in DOMAIN own'[d] PROVE Explained(d, own'[d][k], handler, session, task)
    <3>1. CASE d = c
      <4>1. k \in DOMAIN Tail(own[c]) /\ own'[c][k] = Tail(own[c])[k]
        BY <1>3, <2>2, <3>1
      <4>2. k + 1 \in DOMAIN own[c] /\ Tail(own[c])[k] = own[c][k + 1]
        BY <1>2, <4>1, Taken
      <4> QED BY <2>1, <3>1, <4>1, <4>2
    <3>2. CASE d # c
      BY <1>3, <2>1, <2>2, <3>2
    <3> QED BY <3>1, <3>2
  <2>3. ASSUME NEW k \in DOMAIN got'[d] PROVE Explained(d, got'[d][k], handler, session, task)
    <3>1. CASE got'[d] = got[d]
      BY <2>1, <2>3, <3>1
    <3>2. CASE d = c /\ got'[d] = Append(got[d], Head(own[d]))
      <4>1. 1 \in DOMAIN own[c] /\ own[c][1] = Head(own[c]) /\ Head(own[c]) \in Messages
        BY <1>2, Taken
      <4>2. (k \in DOMAIN got[c] /\ got'[c][k] = got[c][k]) \/ got'[c][k] = Head(own[c])
        BY <1>1, <2>3, <3>2, <4>1, Appended
      <4> QED BY <2>1, <3>2, <4>1, <4>2
    <3> QED BY <3>1, <3>2
  <2> QED BY <2>1, <2>2, <2>3
<1> QED BY <1>6, <1>7, <1>8, <1>9, <1>10 DEF IInv

\* A reply leaves the line, another message moves along it.
LEMMA LineDrops ==
  ASSUME NEW g, NEW q \in Seq(Messages), q # <<>>, NEW c, NEW t, Line(g, q, TRUE, c, t), Head(q) = Reply
  PROVE  Line(g, Tail(q), TRUE, c, t)
<1> DEFINE p == Tail(q)
<1>1. /\ q[1] = Reply
      /\ \A k \in DOMAIN p : k + 1 \in DOMAIN q /\ p[k] = q[k + 1] /\ k \in Nat
      /\ \A k \in DOMAIN q : k \in Nat /\ (k = 1 \/ (k - 1 \in DOMAIN p /\ p[k - 1] = q[k]))
  BY Taken
<1>2. \A i : Reply # Provisional(i)
  BY Kinds
<1> HIDE DEF p
<1>3. Ordered(p)
  BY <1>1 DEF Line, Ordered
<1>4. \A j \in DOMAIN g, k \in DOMAIN p : Precedes(g[j], p[k])
  BY <1>1 DEF Line
<1>5. ASSUME NEW i \in Ids, NEW k \in DOMAIN p, p[k] = Final(i)
      PROVE  \/ \E j \in DOMAIN g : g[j] = Provisional(i)
             \/ \E j \in DOMAIN p : j < k /\ p[j] = Provisional(i)
  <2>1. k + 1 \in DOMAIN q /\ q[k + 1] = Final(i)
    BY <1>1, <1>5
  <2>2. CASE \E j \in DOMAIN q : j < k + 1 /\ q[j] = Provisional(i)
    <3>1. PICK j \in DOMAIN q : j < k + 1 /\ q[j] = Provisional(i)
      BY <2>2
    <3>2. j - 1 \in DOMAIN p /\ p[j - 1] = Provisional(i)
      BY <1>1, <1>2, <3>1
    <3>3. j - 1 < k
      BY <1>1, <3>1
    <3> QED BY <3>2, <3>3
  <2> QED BY <2>1, <2>2 DEF Line
<1>6. ASSUME NEW i \in Ids, t[i].at # "none", t[i].of = c
      PROVE  \/ \E j \in DOMAIN g : g[j] = Provisional(i)
             \/ \E j \in DOMAIN p : p[j] = Provisional(i)
  <2>1. \/ \E j \in DOMAIN g : g[j] = Provisional(i)
        \/ \E j \in DOMAIN q : q[j] = Provisional(i)
    BY <1>6 DEF Line
  <2> QED BY <1>1, <1>2, <2>1
<1>7. Line(g, p, TRUE, c, t)
  BY <1>3, <1>4, <1>5, <1>6 DEF Line
<1> QED BY <1>7 DEF p

LEMMA LineMoves ==
  ASSUME NEW g \in Seq(Messages), NEW q \in Seq(Messages), q # <<>>, NEW c, NEW t,
         Line(g, q, TRUE, c, t), Head(q) # Reply
  PROVE  Line(Append(g, Head(q)), Tail(q), TRUE, c, t)
<1> DEFINE p == Tail(q)
           f == Append(g, Head(q))
           l == Len(g) + 1
<1>1. /\ 1 \in DOMAIN q /\ q[1] = Head(q) /\ Head(q) \in Messages
      /\ \A k \in DOMAIN p : k + 1 \in DOMAIN q /\ p[k] = q[k + 1] /\ 1 < k + 1 /\ k \in Nat
      /\ \A k \in DOMAIN q : k \in Nat /\ (k = 1 \/ (k - 1 \in DOMAIN p /\ p[k - 1] = q[k]))
  BY Taken
<1>2. /\ \A k \in DOMAIN f : (k \in DOMAIN g /\ f[k] = g[k]) \/ (k = l /\ f[k] = q[1])
      /\ \A k \in DOMAIN g : k \in DOMAIN f /\ f[k] = g[k] /\ k < l /\ ~(l < k)
      /\ l \in DOMAIN f /\ f[l] = q[1] /\ ~(l < l)
  BY <1>1, Appended
<1> HIDE DEF p, f, l
<1>3. \A j, k \in DOMAIN g : j < k => Precedes(g[j], g[k])
  BY DEF Line, Ordered
<1>4. \A j, k \in DOMAIN q : j < k => Precedes(q[j], q[k])
  BY DEF Line, Ordered
<1>5. \A j \in DOMAIN g, k \in DOMAIN q : Precedes(g[j], q[k])
  BY DEF Line
<1>6. Ordered(f)
  <2> SUFFICES ASSUME NEW j \in DOMAIN f, NEW k \in DOMAIN f, j < k PROVE Precedes(f[j], f[k])
    BY DEF Ordered
  <2>1. j \in DOMAIN g /\ f[j] = g[j]
    BY <1>2
  <2> QED BY <1>1, <1>2, <1>3, <1>5, <2>1
<1>7. ASSUME NEW i \in Ids, NEW k \in DOMAIN f, f[k] = Final(i)
      PROVE  \E j \in DOMAIN f : j < k /\ f[j] = Provisional(i)
  <2>1. CASE k \in DOMAIN g /\ f[k] = g[k]
    <3>1. \E j \in DOMAIN g : j < k /\ g[j] = Provisional(i)
      BY <1>7, <2>1 DEF Line
    <3> QED BY <1>2, <3>1
  <2>2. CASE k = l /\ f[k] = q[1]
    <3>1. 1 \in DOMAIN q /\ q[1] = Final(i)
      BY <1>1, <1>7, <2>2
    <3>2. \/ \E j \in DOMAIN g : g[j] = Provisional(i)
          \/ \E j \in DOMAIN q : j < 1 /\ q[j] = Provisional(i)
      BY <3>1 DEF Line
    <3>3. \A j \in DOMAIN q : ~(j < 1)
      BY <1>1
    <3> QED BY <1>2, <2>2, <3>2, <3>3
  <2> QED BY <1>2, <2>1, <2>2
<1>8. Ordered(p)
  <2> SUFFICES ASSUME NEW j \in DOMAIN p, NEW k \in DOMAIN p, j < k PROVE Precedes(p[j], p[k])
    BY DEF Ordered
  <2>1. j + 1 < k + 1
    BY <1>1
  <2> QED BY <1>1, <1>4, <2>1
<1>9. ASSUME NEW j \in DOMAIN f, NEW k \in DOMAIN p PROVE Precedes(f[j], p[k])
  BY <1>1, <1>2, <1>4, <1>5
<1>10. ASSUME NEW i \in Ids, NEW k \in DOMAIN p, p[k] = Final(i)
       PROVE  \/ \E j \in DOMAIN f : f[j] = Provisional(i)
              \/ \E j \in DOMAIN p : j < k /\ p[j] = Provisional(i)
  <2>1. k + 1 \in DOMAIN q /\ q[k + 1] = Final(i)
    BY <1>1, <1>10
  <2>2. \/ \E j \in DOMAIN g : g[j] = Provisional(i)
        \/ \E j \in DOMAIN q : j < k + 1 /\ q[j] = Provisional(i)
    BY <2>1 DEF Line
  <2>3. ASSUME NEW j \in DOMAIN q, j < k + 1, q[j] = Provisional(i)
        PROVE  \/ \E h \in DOMAIN f : f[h] = Provisional(i)
               \/ \E h \in DOMAIN p : h < k /\ p[h] = Provisional(i)
    <3>1. CASE j = 1
      BY <1>2, <2>3, <3>1
    <3>2. CASE j - 1 \in DOMAIN p /\ p[j - 1] = q[j]
      <4>1. j - 1 < k
        BY <1>1, <2>3
      <4> QED BY <2>3, <3>2, <4>1
    <3> QED BY <1>1, <3>1, <3>2
  <2> QED BY <1>2, <2>2, <2>3
<1>11. ASSUME NEW i \in Ids, t[i].at # "none", t[i].of = c
       PROVE  \/ \E j \in DOMAIN f : f[j] = Provisional(i)
              \/ \E j \in DOMAIN p : p[j] = Provisional(i)
  <2>1. \/ \E j \in DOMAIN g : g[j] = Provisional(i)
        \/ \E j \in DOMAIN q : q[j] = Provisional(i)
    BY <1>11 DEF Line
  <2> QED BY <1>1, <1>2, <2>1
<1>12. \A k \in DOMAIN f : f[k] # Reply
  <2>1. \A k \in DOMAIN g : g[k] # Reply
    BY DEF Line
  <2> QED BY <1>1, <1>2, <2>1
<1>13. Line(f, p, TRUE, c, t)
  BY <1>6, <1>7, <1>8, <1>9, <1>10, <1>11, <1>12 DEF Line
<1> QED BY <1>13 DEF p, f

LEMMA SendInv == ASSUME IInv, NEW c \in Conns, Send(c) PROVE IInv'
<1>1. /\ sender[c] /\ own[c] # <<>>
      /\ got' = [got EXCEPT ![c] = IF Head(own[c]) = Reply THEN @ ELSE Append(@, Head(own[c]))]
      /\ own' = [own EXCEPT ![c] = Tail(@)]
      /\ UNCHANGED <<handler, sender, lost, fresh, session, task, replies>>
  BY DEF Send
<1>2. /\ Lines(sender, task, own, got) /\ sender \in [Conns -> BOOLEAN] /\ got \in [Conns -> Seq(Messages)]
      /\ own \in [Conns -> Seq(Messages)]
  BY DEF IInv, Typed, Bounded
<1>3. own[c] \in Seq(Messages) /\ got[c] \in Seq(Messages) /\ Head(own[c]) \in Messages
  BY <1>1, <1>2, Taken
<1>4. own'[c] = Tail(own[c]) /\ \A d \in Conns : d # c => own'[d] = own[d] /\ got'[d] = got[d]
  BY <1>1, <1>2
<1>5. got'[c] = IF Head(own[c]) = Reply THEN got[c] ELSE Append(got[c], Head(own[c]))
  BY <1>1, <1>2
<1>6. got'[c] \in Seq(Messages)
  BY <1>3, <1>5, Appended
<1>7. got' \in [Conns -> Seq(Messages)]
  BY <1>1, <1>2, <1>5, <1>6
<1>8. \A d \in Conns : got'[d] = got[d] \/ (d = c /\ got'[d] = Append(got[d], Head(own[d])))
  BY <1>4, <1>5
<1>9. Lines(sender', task, own', got')
  <2> SUFFICES ASSUME NEW d \in Conns PROVE Line(got'[d], own'[d], sender[d], d, task)
    BY <1>1 DEF Lines
  <2>1. Line(got[d], own[d], sender[d], d, task)
    BY <1>2 DEF Lines
  <2>2. CASE d = c
    <3>1. sender[c] = TRUE
      BY <1>1, <1>2
    <3>2. Line(got[c], own[c], TRUE, c, task)
      BY <2>1, <2>2, <3>1
    <3>3. CASE Head(own[c]) = Reply
      <4>1. Line(got[c], Tail(own[c]), TRUE, c, task)
        BY <1>1, <1>3, <3>2, <3>3, LineDrops
      <4>2. Line(got'[c], own'[c], TRUE, c, task)
        BY <1>4, <1>5, <3>3, <4>1
      <4> QED BY <2>2, <3>1, <4>2
    <3>4. CASE Head(own[c]) # Reply
      <4>1. Line(Append(got[c], Head(own[c])), Tail(own[c]), TRUE, c, task)
        BY <1>1, <1>3, <3>2, <3>4, LineMoves
      <4>2. Line(got'[c], own'[c], TRUE, c, task)
        BY <1>4, <1>5, <3>4, <4>1
      <4> QED BY <2>2, <3>1, <4>2
    <3> QED BY <3>3, <3>4
  <2>3. CASE d # c
    BY <1>4, <2>1, <2>3
  <2> QED BY <2>2, <2>3
<1>10. sender' \in [Conns -> BOOLEAN] /\ (\A d \in Conns : sender'[d] => sender[d])
       /\ UNCHANGED <<handler, lost, fresh, session, task, replies>>
  BY <1>1, <1>2
<1> QED BY <1>1, <1>7, <1>8, <1>9, <1>10, TakenExplained

LEMMA SendFailsInv == ASSUME IInv, NEW c \in Conns, SendFails(c) PROVE IInv'
<1>1. /\ own[c] # <<>> /\ own' = [own EXCEPT ![c] = Tail(@)]
      /\ sender' = [sender EXCEPT ![c] = FALSE]
      /\ UNCHANGED <<handler, lost, fresh, session, task, replies, got>>
  BY DEF SendFails
<1>2. /\ Lines(sender, task, own, got) /\ sender \in [Conns -> BOOLEAN] /\ got \in [Conns -> Seq(Messages)]
      /\ own \in [Conns -> Seq(Messages)]
  BY DEF IInv, Typed, Bounded
<1>3. /\ sender' \in [Conns -> BOOLEAN] /\ ~sender'[c]
      /\ \A d \in Conns : d # c => sender'[d] = sender[d] /\ own'[d] = own[d]
  BY <1>1, <1>2
<1>4. Lines(sender', task, own', got')
  <2> SUFFICES ASSUME NEW d \in Conns PROVE Line(got[d], own'[d], sender'[d], d, task)
    BY <1>1 DEF Lines
  <2>1. Line(got[d], own[d], sender[d], d, task)
    BY <1>2 DEF Lines
  <2>2. CASE d = c
    BY <1>3, <2>1, <2>2 DEF Line
  <2>3. CASE d # c
    BY <1>3, <2>1, <2>3
  <2> QED BY <2>2, <2>3
<1>5. got' \in [Conns -> Seq(Messages)] /\ (\A d \in Conns : got'[d] = got[d])
      /\ (\A d \in Conns : sender'[d] => sender[d])
  BY <1>1, <1>2, <1>3
<1> QED BY <1>1, <1>3, <1>4, <1>5, TakenExplained

----------------------------------------------------------------------------
(* The theorems.                                                           *)

LEMMA NextInv == ASSUME IInv, [Next]_vars PROVE IInv'
<1>1. ASSUME NEW c \in Conns, Client(c) \/ Loops(c) \/ Network(c) \/ FinalizerEnds(c) PROVE IInv'
  BY <1>1, ConnectInv, ReceiveInv, StopInv, PutInv, WaitOverInv, WaitTimesOutInv, ReturnInv,
     LeaveInv, LoseInv, SendInv, SendFailsInv, FinalizerEndsInv, Zenon DEF Client, Loops, Network
<1>2. ASSUME NEW i \in Ids, TaskDone(i) \/ TaskPuts(i) PROVE IInv'
  BY <1>2, TaskDoneInv, TaskPutsInv
<1>3. ASSUME UNCHANGED vars PROVE IInv'
  <2>1. handler' = handler /\ sender' = sender /\ lost' = lost /\ own' = own /\ fresh' = fresh
        /\ session' = session /\ task' = task /\ replies' = replies /\ got' = got
    BY <1>3 DEF vars
  <2>2. Typed'
    BY <2>1 DEF IInv, Typed
  <2> QED BY <2>1, <2>2 DEF IInv
<1>4. CASE Expire
  BY <1>4, ExpireInv
<1>5. CASE AtRest
  BY <1>3, <1>5 DEF AtRest
<1> QED BY <1>1, <1>2, <1>3, <1>4, <1>5, Zenon DEF Next

\* The inductive invariant holds throughout.
THEOREM DeliveryInvariant == Spec => []IInv
<1>1. Init => IInv
  BY InitInv
<1>2. IInv /\ [Next]_vars => IInv'
  BY NextInv
<1> QED BY <1>1, <1>2, PTL DEF Spec

\* Types, and the bound of the queues: the puts of the receive loop, of the finaliser
\* and of every second pass that outlives its connection wait for room
\* (the queues of handle_connection and detach_session, maxsize 1024).
THEOREM DeliveryTypeCorrect == Spec => []TypeOK
<1>1. IInv => TypeOK
  <2> SUFFICES ASSUME IInv PROVE TypeOK
    OBVIOUS
  <2>1. /\ handler \in [Conns -> Handlers] /\ session \in Sessions /\ task \in [Ids -> Tasks]
        /\ sender \in [Conns -> BOOLEAN] /\ lost \in [Conns -> BOOLEAN]
        /\ Bounded(own) /\ Bounded(fresh) /\ got \in [Conns -> Seq(Messages)]
        /\ replies \in 0..MaxReplies
    BY DEF IInv, Typed
  <2>2. ASSUME NEW c \in Conns
        PROVE  /\ handler[c].at \in {"none", "idle", "busy", "gone", "finalising"}
               /\ handler[c].todo \in Seq(Messages)
               /\ {sender[c], lost[c]} \subseteq BOOLEAN /\ got[c] \in Seq(Messages)
               /\ \A which \in {"own", "fresh"} :
                    Queue(c, which) \in Seq(Messages) /\ Len(Queue(c, which)) <= Cap
    <3>1. handler[c].at \in {"none", "idle", "busy", "gone", "finalising"}
          /\ handler[c].todo \in Seq(Messages)
      BY <2>1 DEF Handlers
    <3>2. {sender[c], lost[c]} \subseteq BOOLEAN /\ got[c] \in Seq(Messages)
      BY <2>1
    <3>3. \A which \in {"own", "fresh"} : Queue(c, which) \in Seq(Messages) /\ Len(Queue(c, which)) <= Cap
      BY <2>1 DEF Queue, Bounded
    <3> QED BY <3>1, <3>2, <3>3
  <2>3. session \in [status : {"new", "attached", "detached", "expired", "over"}, holder : 0..MaxConns,
                     stopping : BOOLEAN, cut : 0..MaxSentences, done : SUBSET Ids]
    BY <2>1 DEF Sessions
  <2>4. task \in [Ids -> [at : {"none", "runs", "puts", "ended"}, of : 0..MaxConns, queue : {"own", "fresh"}]]
    BY <2>1 DEF Tasks
  <2> QED BY <2>1, <2>2, <2>3, <2>4 DEF TypeOK
<1> QED BY <1>1, DeliveryInvariant, PTL

LEMMA Prefixes ==
  ASSUME NEW g \in Seq(Messages), NEW k \in DOMAIN g, NEW j \in DOMAIN g, j < k
  PROVE  g[j] \in Range(SubSeq(g, 1, k - 1))
<1> DEFINE s == SubSeq(g, 1, k - 1)
<1>1. j \in 1..(k - 1) /\ k \in 1..Len(g) /\ Len(g) \in Nat
  OBVIOUS
<1>2. j \in DOMAIN s /\ s[j] = g[j]
  BY <1>1
<1> HIDE DEF s
<1>3. g[j] \in Range(s)
  BY <1>2 DEF Range
<1> QED BY <1>3 DEF s

\* What a client can rely on whatever its second passes, queues and connections do:
\* each connection announces sentences in their order and once, a final comes after
\* its provisional and once, nothing follows session_finished, and no sentence is
\* announced on two connections (handle_connection and _send_loop of
\* websocket_server.py, _process_final_segment of session_pipeline.py).
THEOREM FinalsFollow == Spec => []InOrder
<1>1. IInv => InOrder
  <2> SUFFICES ASSUME IInv, NEW c \in Conns
               PROVE  /\ \A j, k \in DOMAIN got[c] :
                           j < k => got[c][j] # got[c][k] /\ got[c][j].type # "finished"
                      /\ \A h, i \in Ids : \A j, k \in DOMAIN got[c] :
                           /\ got[c][j] = Provisional(h) /\ got[c][k] = Provisional(i) /\ j < k => h < i
                           /\ got[c][k] = Final(i) => Provisional(i) \in Range(SubSeq(got[c], 1, k - 1))
                      /\ \A i \in Ids, b \in 1..(c - 1) :
                           Provisional(i) \in Range(got[c]) => Provisional(i) \notin Range(got[b])
    BY DEF InOrder
  <2> DEFINE g == got[c]
  <2>1. got \in [Conns -> Seq(Messages)] /\ g \in Seq(Messages)
    BY DEF IInv, Typed
  <2>2. /\ Ordered(g) /\ \A k \in DOMAIN g : g[k] # Reply
        /\ \A i \in Ids : \A k \in DOMAIN g : g[k] = Final(i) => \E j \in DOMAIN g : j < k /\ g[j] = Provisional(i)
    BY DEF IInv, Lines, Line
  <2>3. \A b \in Conns : \A k \in DOMAIN got[b] : \A i \in Ids : got[b][k] = Provisional(i) => task[i].of = b
    BY DEF IInv, Content, Explained
  <2> HIDE DEF g
  <2>4. ASSUME NEW j \in DOMAIN g, NEW k \in DOMAIN g, j < k
        PROVE  /\ g[j] # g[k] /\ g[j].type # "finished"
               /\ \A h, i \in Ids : g[j] = Provisional(h) /\ g[k] = Provisional(i) => h < i
    BY <2>2, <2>4 DEF Ordered, Precedes
  <2>5. ASSUME NEW i \in Ids, NEW k \in DOMAIN g, g[k] = Final(i)
        PROVE  Provisional(i) \in Range(SubSeq(g, 1, k - 1))
    <3>1. PICK j \in DOMAIN g : j < k /\ g[j] = Provisional(i)
      BY <2>2, <2>5
    <3>2. g[j] \in Range(SubSeq(g, 1, k - 1))
      BY <2>1, <3>1, Prefixes
    <3> QED BY <3>1, <3>2
  <2>6. ASSUME NEW i \in Ids, NEW b \in 1..(c - 1), Provisional(i) \in Range(g)
        PROVE  Provisional(i) \notin Range(got[b])
    <3>1. b \in Conns /\ b # c
      BY Bounds DEF Conns
    <3>2. PICK k \in DOMAIN got[c] : got[c][k] = Provisional(i)
      BY <2>6 DEF Range, g
    <3>3. task[i].of = c
      BY <2>3, <3>2
    <3> SUFFICES ASSUME Provisional(i) \in Range(got[b]) PROVE FALSE
      OBVIOUS
    <3>4. PICK l \in DOMAIN got[b] : got[b][l] = Provisional(i)
      BY DEF Range
    <3> QED BY <2>3, <3>1, <3>3, <3>4
  <2> QED BY <2>4, <2>5, <2>6 DEF g
<1> QED BY <1>1, DeliveryInvariant, PTL

\* The transcript of a session_finished holds every final that any connection was sent
\* and those that were put where nobody reads: a second pass records its result before
\* it puts it, and none is under way once the transcript is put (process_stop and
\* _process_final_segment of session_pipeline.py).
THEOREM TranscriptComplete == Spec => []FinalsInTranscript
<1>1. IInv => FinalsInTranscript
  <2> SUFFICES ASSUME IInv, NEW c \in Conns, NEW k \in DOMAIN got[c], got[c][k].type = "finished",
                      NEW i \in Ids, Delivered(i)
               PROVE  i \in got[c][k].about
    BY DEF FinalsInTranscript
  <2>1. got[c][k].about = session.done
    BY DEF IInv, Content, Explained
  <2>2. PICK d \in Conns : Final(i) \in Range(got[d]) \cup Range(fresh[d])
    BY DEF Delivered
  <2>3. CASE Final(i) \in Range(got[d])
    <3>1. PICK j \in DOMAIN got[d] : got[d][j] = Final(i)
      BY <2>3 DEF Range
    <3>2. i \in session.done
      BY <3>1 DEF IInv, Content, Explained
    <3> QED BY <2>1, <3>2
  <2>4. CASE Final(i) \in Range(fresh[d])
    <3>1. PICK j \in DOMAIN fresh[d] : fresh[d][j] = Final(i)
      BY <2>4 DEF Range
    <3>2. i \in session.done
      BY <3>1 DEF IInv, Content
    <3> QED BY <2>1, <3>2
  <2> QED BY <2>2, <2>3, <2>4
<1> QED BY <1>1, DeliveryInvariant, PTL
=============================================================================
